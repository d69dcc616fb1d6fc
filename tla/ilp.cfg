SPECIFICATION Spec
CONSTANTS
    Setups <- MCSetups
    Addrs = {1, 2}
    Constants = {"k"}
    MaxIssued = 18
INVARIANT Inv
INVARIANT DependenciesRespected
INVARIANT InOrderNotFaster
INVARIANT WindowRespected
INVARIANT SpansCount
CHECK_DEADLOCK FALSE
