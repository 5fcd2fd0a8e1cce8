\* Three attempts on one process; what other processes do to the registry, its own
\* teardowns and restarts do.
CONSTANTS
  a1 = a1
  a2 = a2
  a3 = a3
  p1 = p1
  None = None
  Attempt = {a1, a2, a3}
  Instance = {p1}
  MaxSessions = 2
  Shared = TRUE
  Expires = TRUE
  ClosesTwice = TRUE
SPECIFICATION Spec
SYMMETRY Symmetry
CHECK_DEADLOCK FALSE
INVARIANTS
  TypeOK
  SessionLimit
  SlotsConserved
  NoLeakedServer
  OneHookPerSession
PROPERTIES
  NeverReplaced
