\* A pass ends with its last block.
CHECK_DEADLOCK FALSE
SPECIFICATION EngineSpec
CONSTANTS
  Calls <- MCCalls
  Settings <- MCSettings
  NoBudget = NoBudget
INVARIANT StagingFits
INVARIANT IssueInOrder
INVARIANT BlocksIssueTogether
INVARIANT ServesInOrder
INVARIANT FillConservesWork
INVARIANT FloorsHold
