SPECIFICATION LifeSpec
CONSTANTS
  k1 = k1
  k2 = k2
  Key <- TwoKeys
INVARIANTS
  NullOnlyAfterShutdown
  OwnAnswer
  LeftListed
PROPERTIES
  KeysReturn
CHECK_DEADLOCK FALSE
