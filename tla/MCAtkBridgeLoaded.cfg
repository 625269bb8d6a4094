SPECIFICATION BridgeSpec
CONSTANTS
  Object = {root, a, b}
  Root = root
  Null = Null
  a = a
  b = b
  d = d
  RefModulus = 10
  MaxLives = 1
  MayHold <- Chain
  Transient = {}
  ManagesDescendants = {}
  StartTrees <- WindowOpen
  Reentrant = FALSE
  MaxQueue = 1
  MaxLeases = 1
  MaxLeaks = 0
INVARIANTS
  CachedAreAlive
