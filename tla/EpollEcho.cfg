CONSTANTS
    w1 = w1
    w2 = w2
    c1 = c1
    c2 = c2
    NULL = NULL
    Worker <- MCWorker
    Client <- MCClient
    Reach <- MCReach
    Resetter = {c1}
    Idler = {}
    NFd = 2
    msg_size = 2
    MaxMsgs = 1
SPECIFICATION FairSpec
INVARIANTS OneOwner HandOver EventsCurrent
PROPERTIES MessageEchoed DescriptorReleased
CHECK_DEADLOCK FALSE
