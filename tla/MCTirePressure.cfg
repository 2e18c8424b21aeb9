SPECIFICATION Spec
CONSTANTS
  Pressures <- MCPressures
  Erased = Erased
  Garbled = Garbled
  None = None
  MaxCuts = 1
INVARIANTS
  TypeOK
  EveryTireMapped
  ShownWhereMounted
PROPERTIES
  NoOlderMap
