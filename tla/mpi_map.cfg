SPECIFICATION Spec
CONSTANTS
    N = 3
    AccMode = 1
    Programs <- ThreeRanks
INVARIANT Matched
INVARIANT BurstsAddUp
PROPERTY AllServed
CHECK_DEADLOCK FALSE
