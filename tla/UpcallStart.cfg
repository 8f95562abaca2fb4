CONSTANTS
    N = 3
    MaxInits = 1
SPECIFICATION FairSpec
INVARIANTS InitReturnsAfterSetup LoopAfterSetup SlotsAgree
PROPERTIES StartCompletes ImplementsBarrier
CHECK_DEADLOCK FALSE
