CONSTANTS
    NULL = NULL
    Client = {c1, c2, c3}
    Resetter = {c1}
    Idler = {c2}
    N = 2
    NFd = 2
    msg_size = 2
    MaxMsgs = 2
SPECIFICATION FairServerSpec
INVARIANT ExitsOnError
PROPERTIES ImplementsBarrier MessageEchoed DescriptorReleased
CHECK_DEADLOCK FALSE
