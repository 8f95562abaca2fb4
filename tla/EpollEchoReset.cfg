CONSTANTS
    w1 = w1
    w2 = w2
    c1 = c1
    c2 = c2
    NULL = NULL
    Worker <- MCWorker
    Client <- MCOneClient
    Reach <- MCOneReach
    Resetter = {c1}
    Idler = {}
    NFd = 1
    msg_size = 2
    MaxMsgs = 1
SPECIFICATION Spec
INVARIANT BrokenIsClosed
CHECK_DEADLOCK FALSE
