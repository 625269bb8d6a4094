SPECIFICATION FairLeaseSpec
CONSTANTS
  Object = {o}
  LEASE_TIME_S = 1
  TicksPerSecond = 4
  EarlyTicks = 1
  GuintModulus = 16
  MaxLeases = 2
  MaxSeconds = 5
  MaxStall = 4
  MaxSteps = 1
  StepSizes <- BackAndForth
INVARIANTS
  TimeoutScheduled
  QueueInExpiryOrder
  TimeoutCoversHead
PROPERTIES
  LeaseIsMinimum
  LeasesEnd
CHECK_DEADLOCK FALSE
