SPECIFICATION FairCacheSpec
CONSTANTS
  Object = {root, a, b}
  Root = root
  Null = Null
  a = a
  b = b
  d = d
  e = e
  MayHold <- Chain
  Transient = {}
  ManagesDescendants = {}
  StartTrees <- RootAlone
  Reentrant = TRUE
  MaxQueue = 2
PROPERTIES
  EventuallyCached
\* With its wakeup lost the callback waits for another signal, which need not come.
CHECK_DEADLOCK FALSE
