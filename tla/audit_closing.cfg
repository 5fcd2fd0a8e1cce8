\* Fair drains and retries, a host that opens no session under an id being delivered.
CONSTANTS
  c1 = c1
  c2 = c2
  s1 = s1
  None = None
  Call = {c1, c2}
  SessionId = {s1}
  Erasable = FALSE
  IncludeRejections = TRUE
  FiniteDrain = TRUE
  SignThrowsSync = FALSE
  SinkThrowsSync = FALSE
  ReuseDuringDelivery = FALSE
SPECIFICATION FairSpec
CHECK_DEADLOCK FALSE
INVARIANTS
  RetainedUntilDelivered
PROPERTIES
  CloseSeals
  RetryDelivers
