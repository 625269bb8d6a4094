SPECIFICATION RouteSpec
CONSTANTS
  Object = {root, a}
  Root = root
  Null = Null
  RefModulus = 4
  MaxLives = 3
  Members <- AllMembers
  MaxCalls = 2
  MaxNesting = 2
INVARIANTS
  OneAnswer
PROPERTIES
  RunsOnNamedObject
  RefusedOnlyIfGone
CHECK_DEADLOCK FALSE
