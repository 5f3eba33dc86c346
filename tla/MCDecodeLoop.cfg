CONSTANTS
  Plans <- MCPlans
  Tokens = 2
  Threads = 2
  Window = 2
  TxnOverhead = 1
  NoTask = NoTask
SPECIFICATION Spec
INVARIANT PinnedStayResident
INVARIANT CacheFits
INVARIANT NoPrefetchOverwritten
INVARIANT NandLinkSerial
INVARIANT WritesLandWithLayer
INVARIANT UtilizationIsShare
CHECK_DEADLOCK FALSE
