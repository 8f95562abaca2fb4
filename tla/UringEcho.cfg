CONSTANTS
    w1 = w1
    w2 = w2
    c1 = c1
    c2 = c2
    NULL = NULL
    Worker <- MCWorker
    Client <- MCClient
    Reach <- MCReach
    Resetter = {c1}
    NFd = 2
    QUEUE_DEPTH = 4
    msg_size = 2
    MaxMsgs = 1
SPECIFICATION FairSpec
INVARIANTS OneOwner 
PROPERTIES HandsOver MessageEchoed DescriptorReleased
CHECK_DEADLOCK FALSE
