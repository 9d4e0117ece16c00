SPECIFICATION Spec
CONSTANTS
  None = None
  rca = rca
  dup = dup
  Workers = {w1}
  Items <- RunItems
  Messages <- RunMessages
  Stripes <- RunMessages
  Kind <- RunKind
  Message <- RunMessage
  Thread <- RunThread
  Stripe <- OwnStripe
  QueueSize = 1
  MaxParts = 1
  SlackFaults = FALSE
INVARIANTS
  RunReported
