SPECIFICATION FairBridgeSpec
CONSTANTS
  Object = {root, a, b, d}
  Root = root
  Null = Null
  a = a
  b = b
  d = d
  RefModulus = 10
  MaxLives = 1
  MayHold <- Managed
  Transient = {b}
  ManagesDescendants = {a}
  StartTrees <- RootAlone
  Reentrant = FALSE
  MaxQueue = 1
  MaxLeases = 1
  MaxLeaks = 1
PROPERTIES
  UnwantedAreFreed
