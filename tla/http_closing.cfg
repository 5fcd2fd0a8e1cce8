\* Liveness: two attempts on two processes.  No symmetry.
CONSTANTS
  a1 = a1
  a2 = a2
  p1 = p1
  p2 = p2
  None = None
  Attempt = {a1, a2}
  Instance = {p1, p2}
  MaxSessions = 2
  Shared = TRUE
  Expires = TRUE
  ClosesTwice = TRUE
SPECIFICATION FairSpec
CHECK_DEADLOCK FALSE
PROPERTIES
  DeadlineKills
  ShutdownCompletes
