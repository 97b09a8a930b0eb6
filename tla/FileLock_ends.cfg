SPECIFICATION FairSpec
CONSTANTS
  p1 = p1  p2 = p2  p3 = p3  s1 = s1
  a = a  b = b  c = c
  Proc = {p1, p2}
  Waiter = {a, b, c}
  ProcOf <- Shared
  Stale = {}
  Junk = Junk
  None = None
  Infinity = Infinity
  Patience <- Mixed
  MaxKills = 1
  Obstructed = TRUE
INVARIANTS EndedHoldsNothing
PROPERTIES ImplementsMutex EveryCallEnds
