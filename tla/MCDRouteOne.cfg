SPECIFICATION RouteSpec
CONSTANTS
  Object = {root, a}
  Root = root
  Null = Null
  RefModulus = 4
  MaxLives = 3
  Members <- AllMembers
  MaxCalls = 2
  MaxNesting = 2
PROPERTIES
  CacheReachable
CHECK_DEADLOCK FALSE
