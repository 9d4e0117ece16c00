SPECIFICATION Spec
CHECK_DEADLOCK FALSE
CONSTANTS
  Contents <- MCPlain
  PageLimit = 2
  MaxBytes = 6
  MaxMessages = 5
  MaxParts = 1
INVARIANTS
  AnswersAvailable
