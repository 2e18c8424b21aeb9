SPECIFICATION EcuFairSpec
CONSTANTS
  LeftCapacity = 2
  RightCapacity = 1
  MaxOffered = 2
  Attached <- LeftAttached
  InitFirst = TRUE
PROPERTIES
  LeftDelivered
CHECK_DEADLOCK FALSE
