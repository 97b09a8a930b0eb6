SPECIFICATION Spec
CONSTANTS
  a = a  b = b
  Action = {a, b}
  Never = Never
  Kinds <- OneKind
  RECENT = 1
  QUIET = 1
  CAP = 2
  MaxNow = 2
  MaxShifts = 1
  MaxDocuments = 2
SYMMETRY Symmetry
CHECK_DEADLOCK FALSE
INVARIANTS ExcusedByItsAction DrainedIsHeard DrainIsBounded
