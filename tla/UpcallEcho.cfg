CONSTANTS
    c1 = c1
    c2 = c2
    NULL = NULL
    w1 = w1
    w2 = w2
    Worker <- MCWorker
    Reach <- MCReach
    Client <- MCClient
    MaxMsgs <- MCMaxMsgs
    NFd = 2
    msg_size = 2
SPECIFICATION FairSpec
INVARIANTS OneOwner NoOverrun EchoPrefix
PROPERTIES MessageEchoed DescriptorReleased
CHECK_DEADLOCK FALSE
