SPECIFICATION Spec
CONSTANTS
  r = r  a = a  d = d
  Fiber = {r, a, d}
  Root = r
  None = None
  Programs <- All
  Finishing <- CanFinish
  Priorities <- Lists
  MaxChoices = 3
  MaxOps = 28
  MaxSlice = 3
INVARIANTS AnswersTruly FinishesWhatCan
