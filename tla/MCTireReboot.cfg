SPECIFICATION Spec
CONSTANTS
  Pressures <- MCPressures
  Erased = Erased
  Garbled = Garbled
  None = None
  MaxCuts = 0
PROPERTIES
  SurvivesReboot
