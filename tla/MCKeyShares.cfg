SPECIFICATION Spec
CONSTANTS
  Prime = 7
  N = 5
  Thresholds = {1, 2, 3, 4}
  MaxFork = 2
CHECK_DEADLOCK FALSE
INVARIANTS InOrderAggregates OnlyFittingAggregate StrayAnswerSpoils FirstForkHarmless BelowThresholdNothing
