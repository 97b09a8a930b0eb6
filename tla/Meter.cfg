SPECIFICATION Spec
CONSTANTS
  STILL = 2
  ROUNDS = 4
  Barren = FALSE
  MaxDocument = 2
  MaxMarks = 2
  MaxRequests = 3
PROPERTIES CountsAreWhole StillIsAnswered ReactWhereItRan
