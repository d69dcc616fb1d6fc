SPECIFICATION Spec
CONSTANTS
    N = 2
    Script <- OneBlock
    ListenFirst = TRUE
CHECK_DEADLOCK FALSE
INVARIANT DumpBeforeExit
