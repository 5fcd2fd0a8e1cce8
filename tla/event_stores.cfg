\* Each of the three stores, two sessions: MCEventStores has the bounds.
CONSTANTS
  s1 = s1
  s2 = s2
  None = None
  Session = {s1, s2}
  Kind = {"memory", "redis", "postgres"}
  MaxEvents = 3
  TTL = 2
  SessionTTL = 2
  MaxNow <- MCMaxNow
  MaxId <- MCMaxId
  MaxReplays = 1
SPECIFICATION Spec
SYMMETRY Symmetry
CHECK_DEADLOCK FALSE
INVARIANTS
  TypeOK
  NoneSkipped
  HistoryOutlivesSession
PROPERTY
  ImplementsLog
