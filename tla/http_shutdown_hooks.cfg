\* One process: is the close callback held back until every hook has settled?
CONSTANTS
  a1 = a1
  a2 = a2
  p1 = p1
  None = None
  Attempt = {a1, a2}
  Instance = {p1}
  MaxSessions = 2
  Shared = TRUE
  Expires = TRUE
  ClosesTwice = FALSE
SPECIFICATION Spec
CHECK_DEADLOCK FALSE
INVARIANTS
  CloseAwaitsHooks
