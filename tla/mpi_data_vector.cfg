SPECIFICATION Spec
CONSTANTS
    N = 3
    Programs <- VectorPrograms
INVARIANT VectorOfReceived
CHECK_DEADLOCK FALSE
