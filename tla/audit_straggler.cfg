\* A call whose sink is slow is still in flight after its event was appended.
CONSTANTS
  c1 = c1
  c2 = c2
  s1 = s1
  None = None
  Call = {c1}
  SessionId = {s1}
  Erasable = FALSE
  IncludeRejections = TRUE
  FiniteDrain = TRUE
  SignThrowsSync = FALSE
  SinkThrowsSync = FALSE
  ReuseDuringDelivery = FALSE
SPECIFICATION Spec
CHECK_DEADLOCK FALSE
INVARIANT StragglersLeftOut
