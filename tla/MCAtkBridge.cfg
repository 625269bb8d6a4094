SPECIFICATION BridgeSpec
CONSTANTS
  Object = {root, a, b}
  Root = root
  Null = Null
  a = a
  b = b
  d = d
  RefModulus = 10
  MaxLives = 2
  MayHold <- Chain
  Transient = {}
  ManagesDescendants = {}
  StartTrees <- RootAlone
  Reentrant = FALSE
  MaxQueue = 1
  MaxLeases = 1
  MaxLeaks = 0
INVARIANTS
  TableAgreesWithData
  PathsAreStable
  BridgeTypeOK
  RefsAccounted
  NothingDangles
  ViewIsCache
  LeasedResolve
PROPERTIES
  ImplementsDirectory
  ImplementsCache
