SPECIFICATION Spec
CONSTANTS
    Instructions <- MCInstructions
    MaxExecuted = 2
INVARIANT MixAddsUp
INVARIANT MeansAgree
INVARIANT BreakdownComplete
INVARIANT CallsAddUp
CHECK_DEADLOCK FALSE
