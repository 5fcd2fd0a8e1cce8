\* The id is reused while the earlier manifest is being delivered.
CONSTANTS
  c1 = c1
  c2 = c2
  s1 = s1
  None = None
  Call = {c1, c2}
  SessionId = {s1}
  Erasable = FALSE
  IncludeRejections = TRUE
  FiniteDrain = FALSE
  SignThrowsSync = FALSE
  SinkThrowsSync = FALSE
  ReuseDuringDelivery = TRUE
SPECIFICATION Spec
CHECK_DEADLOCK FALSE
INVARIANT RetainedUntilDelivered
