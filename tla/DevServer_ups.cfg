SPECIFICATION Spec
CONSTANTS
  x = x  y = y  z = z  w1 = w1  w2 = w2  main = main  other = other  p1 = p1  p2 = p2
  Cmd = {x, y, z}
  Kind <- Ups
  In <- Together
  Worktree = {w1, w2}
  Later = {w2}
  Branch = {main}
  Trunk = main
  Port = {p1, p2}
  Block <- OneBlock
  Strangers = {p1}
  Before <- DeadBefore
  Gone = Gone
  Junk = Junk
  None = None
  Restless = {}
  MaxKills = 1
SYMMETRY Interchangeable
INVARIANTS EveryServerNamed OneServerPerWorktree
PROPERTIES ClaimStays
