CONSTANTS
    N = 2
    MaxInits = 2
SPECIFICATION Spec
INVARIANT InitReturnsAfterSetup
CHECK_DEADLOCK FALSE
