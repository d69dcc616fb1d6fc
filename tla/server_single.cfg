SPECIFICATION FairSpec
CONSTANTS
    N = 1
    Script <- Mixed
    ListenFirst = FALSE
CHECK_DEADLOCK FALSE
INVARIANT DumpsComplete
INVARIANT DumpBeforeExit
PROPERTY Termination
