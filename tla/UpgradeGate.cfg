SPECIFICATION Spec
CONSTANTS
  Inside <- InsideFirst
  Histories <- SmallHistories
  MaxRuns = 2
  MaxKills = 1
  Copied = FALSE
INVARIANTS TreeComesBack PassConverges ScratchIsReclaimed
