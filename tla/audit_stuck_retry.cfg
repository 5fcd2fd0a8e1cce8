\* The sink may throw before it returns a promise.
CONSTANTS
  c1 = c1
  c2 = c2
  s1 = s1
  None = None
  Call = {c1}
  SessionId = {s1}
  Erasable = FALSE
  IncludeRejections = TRUE
  FiniteDrain = TRUE
  SignThrowsSync = FALSE
  SinkThrowsSync = TRUE
  ReuseDuringDelivery = FALSE
SPECIFICATION FairSpec
CHECK_DEADLOCK FALSE
PROPERTY RetryDelivers
