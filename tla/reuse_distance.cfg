SPECIFICATION ReuseSpec
CONSTANTS
    NThreads = 3
    Threads <- Prefixes
    Steps <- Walk
    LineSize = 2
    Resolution = 0
    FinalBin = 0
    InstsPerLine = 2
    MaxSteps <- Bound
CHECK_DEADLOCK FALSE
INVARIANT TreesSound
INVARIANT DistancesExact
INVARIANT SharedExact
