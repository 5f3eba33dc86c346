\* The script ends.
CHECK_DEADLOCK FALSE
SPECIFICATION Spec
CONSTANTS
  w1 = w1
  w2 = w2
  Workers = {w1, w2}
  Sweeps <- MCSweeps
  Earlier <- MCEarlier
  Answer <- MCAnswer
INVARIANT OwnResult
INVARIANT TablesAreTrue
PROPERTY Returns
