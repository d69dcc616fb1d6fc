SPECIFICATION Spec
CONSTANTS
    N = 2
    Script <- TwoBlocks
    ListenFirst = FALSE
CHECK_DEADLOCK FALSE
INVARIANT Inv
INVARIANT RoutedInOrder
INVARIANT Isolation
INVARIANT StopJustified
INVARIANT NoGaps
PROPERTY DumpAfterWork
