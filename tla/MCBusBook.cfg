CONSTANTS
  Times <- MCTimes
  Durations <- MCDurations
  Horizon = 9
SPECIFICATION BookSpec
INVARIANT Separated
PROPERTY EarliestIdleStretch
CHECK_DEADLOCK FALSE
