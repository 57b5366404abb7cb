SPECIFICATION Spec
CONSTANTS
    NBins = 3
    Headers <- MCHeaders
    MaxRefs = 2
INVARIANT BssBaseRemapped
CHECK_DEADLOCK FALSE
