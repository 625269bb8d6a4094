SPECIFICATION FairCacheSpec
CONSTANTS
  Object = {root, a, b, d, e}
  Root = root
  Null = Null
  a = a
  b = b
  d = d
  e = e
  MayHold <- MixedTrees
  Transient = {e}
  ManagesDescendants = {d}
  StartTrees <- Forests
  Reentrant = FALSE
  MaxQueue = 2
INVARIANTS
  PendingHasIdle
  SubtreeCached
PROPERTIES
  EventuallyCached
