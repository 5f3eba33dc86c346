CONSTANTS
  Plans <- MCPlans
  Tokens = 2
  Threads = 2
  Window = 2
  TxnOverhead = 1
  NoTask = NoTask
SPECIFICATION Spec
INVARIANT PrefetchedNotReread
CHECK_DEADLOCK FALSE
