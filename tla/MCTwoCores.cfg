SPECIFICATION EcuFairSpec
CONSTANTS
  LeftCapacity = 2
  RightCapacity = 1
  MaxOffered = 4
  Attached <- BothAttached
  InitFirst = TRUE
INVARIANTS
  EcuTypeOK
  Accounted
  InOrder
  NothingCrossesEarly
PROPERTIES
  BothStart
  BothDelivered
CHECK_DEADLOCK FALSE
