\* The scripts end: a finished or aborted run has no next step.
CHECK_DEADLOCK FALSE
SPECIFICATION Spec
CONSTANTS
  Runs <- MCRuns
  PREFETCH_WINDOW <- MCLookahead
INVARIANT TypeOK
INVARIANT BytesAccounted
INVARIANT StagingIsBacked
INVARIANT ReadsCoverLayer
INVARIANT SpillIsOverflow
INVARIANT WaitsForArrival
