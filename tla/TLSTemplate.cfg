SPECIFICATION Spec
CONSTANTS
    NBins = 3
    Headers <- MCHeaders
    MaxRefs = 2
INVARIANTS TypeOK DataReachesImage FixedOffsetsApart RightUnlessShifted
CHECK_DEADLOCK FALSE
