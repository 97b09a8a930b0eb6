SPECIFICATION FairSpec
CONSTANTS
  x = x  y = y  z = z  w1 = w1  w2 = w2  main = main  other = other  p1 = p1  p2 = p2
  Cmd = {x, y, z}
  Kind <- OneOfEach
  In <- Apart
  Worktree = {w1, w2}
  Later = {}
  Branch = {main, other}
  Trunk = main
  Port = {p1, p2}
  Block <- BlockPerBranch
  Strangers = {}
  Before <- LeftBehind
  Gone = Gone
  Junk = Junk
  None = None
  Restless = {w2}
  MaxKills = 0
INVARIANTS ForgetsOnlyTheGone
PROPERTIES SweepSparesTheLiving EveryCommandEnds
