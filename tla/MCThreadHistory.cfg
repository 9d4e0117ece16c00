SPECIFICATION Spec
CHECK_DEADLOCK FALSE
CONSTANTS
  Contents <- MCLong
  PageLimit = 2
  MaxBytes = 5
  MaxMessages = 5
  MaxParts = 1
INVARIANTS
  EndsBeforeTheAsk
  NothingOverlooked
  BudgetKeptAndUsed
