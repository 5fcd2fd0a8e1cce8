\* Three servers, one of them with a client that lists, two backends.
CONSTANTS
  p1 = p1
  p2 = p2
  p3 = p3
  b1 = b1
  b2 = b2
  None = None
  Scheme = Scheme
  Server = {p1, p2, p3}
  Hooked = {p1}
  Lister = {p2}
  Backend = {b1, b2}
  Configuration <- MCConfiguration
  MaxPages = 2
  Character <- MCCharacter
SPECIFICATION Spec
CHECK_DEADLOCK FALSE
INVARIANTS
  TypeOK
  FanOutExact
  ListedRoutes
  ListingComplete
PROPERTY
  CatalogConverges
