SPECIFICATION Spec
CONSTANTS
    N = 2
    AccMode = 1
    Programs <- SendIrecv
CHECK_DEADLOCK FALSE
PROPERTY AllServed
