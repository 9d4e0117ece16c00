SPECIFICATION FairSpec
CONSTANTS
  None = None
  rca = rca
  dup = dup
  Workers = {w1}
  Items <- FaultItems
  Messages <- FaultMessages
  Stripes <- FaultMessages
  Kind <- FaultKind
  Message <- FaultMessage
  Thread <- FaultThread
  Stripe <- OwnStripe
  QueueSize = 1
  MaxParts = 2
  SlackFaults = TRUE
INVARIANTS
  CheckMeansAnswered
PROPERTIES
  ShutdownCompletes
