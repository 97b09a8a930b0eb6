SPECIFICATION Spec
CONSTANTS
  p1 = p1  p2 = p2  p3 = p3  s1 = s1
  a = a  b = b  c = c
  Proc = {p1, p2, p3}
  Waiter = {p1, p2, p3}
  ProcOf <- OneEach
  Stale = {s1}
  Junk = Junk
  None = None
  Infinity = Infinity
  Patience <- Endless
  MaxKills = 1
  Obstructed = FALSE
SYMMETRY Interchangeable
INVARIANTS OneOwner StaleClaimsCleared
PROPERTIES LiveLockStays
