SPECIFICATION Spec
CONSTANTS
    N = 3
    Programs <- MCPrograms
INVARIANT MatrixExact
INVARIANT RequestsMirrored
INVARIANT VolumesBalance
CHECK_DEADLOCK FALSE
