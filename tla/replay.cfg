SPECIFICATION Spec
CONSTANTS
    Funcs = {"main", "f", "g"}
    Setups <- MCSetups
    MainF = "main"
    MaxDepth = 5
CHECK_DEADLOCK FALSE
INVARIANT Inv
INVARIANT InStep
INVARIANT ExactlyOnce
INVARIANT StackMirrored
INVARIANT InFunctionFollows
PROPERTY HooksReturn
