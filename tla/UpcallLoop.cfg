CONSTANTS
    r1 = r1
    r2 = r2
    Req <- MCReq
    Kind <- MCKind
    BatchSz = 2
    EVTS = 1
    MaxBuf = 3
    SetupMayReturn = FALSE
SPECIFICATION FairSpec
INVARIANTS InBounds RequestOnce BufferOnce
PROPERTIES ImplementsService AnswerIsHandled
