SPECIFICATION FairSpec
CONSTANTS
  both = both
  otherNamespace = otherNamespace
  otherName = otherName
  Alerts <- MCAlerts
  Alertname <- MCAlertname
  Namespace <- MCNamespace
  MaxAttempts = 3
INVARIANTS
  AnswerWasTrue
  DefinitiveStands
  GivesUpLate
PROPERTIES
  LeavesAfterCancel
  Returns
