CONSTANTS
  Instances <- MCInstances
  Steps = 5
  Warmup = 3
SPECIFICATION BeladySpec
INVARIANT SteadyState
CHECK_DEADLOCK FALSE
