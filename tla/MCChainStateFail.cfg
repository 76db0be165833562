CONSTANTS
    MaxWrites = 3
    MaxChainLen = 3
SPECIFICATION Spec
CHECK_DEADLOCK FALSE
INVARIANT ReadComplete
