CONSTANTS
  Benches <- MCBenches
  Chunks = 2
  Threads = 2
  MayFail = TRUE
SPECIFICATION Spec
INVARIANT RightWeights
INVARIANT NextIsStaged
INVARIANT SlotsAccounted
INVARIANT QuietAtReturn
PROPERTY Returns
