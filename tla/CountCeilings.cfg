SPECIFICATION Spec
CONSTANTS
  w1 = w1  w2 = w2  w3 = w3  k1 = k1  k2 = k2  load = load  sort = sort  old = old  new = new  dead = dead
  Run = {w1, w2, w3}
  Key = {k1, k2}
  Test <- Tests
  Mode <- Modes
  Phase = {load, sort}
  Measures <- Measured
  Browser = {old, new}
  Build <- Builds
  Before <- Starts
  Left = {dead}
  Typed = {0, 1, 2}
  MaxEdits = 1
  MaxKills = 1
INVARIANTS CheckAgreesWithCommand WrittenIsSettled
PROPERTIES OnlyExplainedRises NothingLost
