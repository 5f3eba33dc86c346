CONSTANT Instances <- MCInstances
SPECIFICATION Spec
INVARIANT SharesFit
INVARIANT FasterFirst
INVARIANT NandBehindFastWork
PROPERTY SpreadKeepsTiers
CHECK_DEADLOCK FALSE
