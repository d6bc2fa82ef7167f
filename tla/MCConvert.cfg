SPECIFICATION MCSpec
CONSTANTS
    NarrowHalf = 2
    WideHalf = 8
INVARIANTS
    ConversionComplete
CHECK_DEADLOCK FALSE
