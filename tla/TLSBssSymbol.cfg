SPECIFICATION Spec
CONSTANTS
    NBins = 3
    Headers <- MCHeaders
    MaxRefs = 2
INVARIANT BssSymbolRemapped
CHECK_DEADLOCK FALSE
