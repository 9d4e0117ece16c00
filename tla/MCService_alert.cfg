SPECIFICATION ResponsiveSpec
CONSTANTS
  None = None
  rca = rca
  dup = dup
  Workers = {w1, w2}
  Items <- AlertItems
  Messages <- AlertMessages
  Stripes <- AlertMessages
  Kind <- AlertKind
  Message <- AlertMessage
  Thread <- AlertThread
  Stripe <- OwnStripe
  QueueSize = 1
  MaxParts = 1
  SlackFaults = FALSE
INVARIANTS
  TypeOK
  RepliesContiguous
PROPERTIES
  AcceptedEnds
