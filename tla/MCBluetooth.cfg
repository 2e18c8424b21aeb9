SPECIFICATION BleFairSpec
CONSTANTS
  OtherCore = TRUE
  MaxChanges = 2
PROPERTIES
  StateReported
