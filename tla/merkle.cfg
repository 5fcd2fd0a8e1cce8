\* Every tree of up to six leaves: odd layers at each level.
CONSTANT MaxLeaves = 6
CONSTANT Offered <- MCOffered
SPECIFICATION Spec
CHECK_DEADLOCK FALSE
INVARIANTS
  TypeOK
  PositionBound
  NoOtherPosition
  HonestAccepted
