SPECIFICATION Spec
CONSTANTS
  None = None
  rca = rca
  dup = dup
  Workers = {w1}
  Items <- CrowdItems
  Messages <- CrowdMessages
  Stripes <- CrowdMessages
  Kind <- CrowdKind
  Message <- CrowdMessage
  Thread <- CrowdThread
  Stripe <- OwnStripe
  QueueSize = 1
  MaxParts = 1
  SlackFaults = FALSE
SYMMETRY Deliveries
INVARIANTS
  NoSendOnClosedQueue
  OnlyForcedSkips
  CountedOnce
  
  CronNeverRefused
  ForcedReportsBounded
  ReactionsSettle
PROPERTIES
  ImplementsPool
