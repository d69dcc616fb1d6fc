SPECIFICATION Spec
CONSTANTS
    P = 3
    T = 2
    Dump <- SampleDump
CHECK_DEADLOCK FALSE
INVARIANT Inv
INVARIANT ProtocolInStep
INVARIANT TurnAgreed
PROPERTY AllDone
PROPERTY WritesInOrder
