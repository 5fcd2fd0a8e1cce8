\* Three calls on one session id (or on none), every failure, an id that is reused
\* at any time.
CONSTANTS
  c1 = c1
  c2 = c2
  c3 = c3
  s1 = s1
  None = None
  Call = {c1, c2, c3}
  SessionId = {s1}
  Erasable = TRUE
  IncludeRejections = FALSE
  FiniteDrain = TRUE
  SignThrowsSync = TRUE
  SinkThrowsSync = TRUE
  ReuseDuringDelivery = TRUE
SPECIFICATION Spec
SYMMETRY Symmetry
CHECK_DEADLOCK FALSE
INVARIANTS
  TypeOK
  TrailVerifies
  NoOrphanEvent
  EveryCallAccounted
  NoLostWakeUp
  OneSignature
PROPERTIES
  ManifestFrozen
  ImplementsTrail
