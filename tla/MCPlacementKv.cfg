CONSTANT Instances <- MCInstances
SPECIFICATION Spec
INVARIANT KvIndivisible
CHECK_DEADLOCK FALSE
