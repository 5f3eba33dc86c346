CONSTANTS
  Instances <- MCInstances
  Steps = 5
  Warmup = 3
SPECIFICATION BeladySpec
INVARIANT HitsFitCache
INVARIANT NeededNowIsHere
PROPERTY HitsStayedResident
PROPERTY PrefetchNotWasted
CHECK_DEADLOCK FALSE
