SPECIFICATION Spec
CONSTANTS
  Prime = 5
  N = 3
  Thresholds = {1, 2, 3}
  MaxFork = 1
CHECK_DEADLOCK FALSE
INVARIANT AnyThresholdAggregates
