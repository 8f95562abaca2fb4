CONSTANTS
    N = 2
    batch_sz = 1
    UPCALL_TIME_BUCKETS = 1
    PerLine = 3
    MaxBatches <- MCMaxBatches
    MaxNs = 2
    MaxTicks = 1
    MaxResets = 1
SPECIFICATION StatsSpec
INVARIANTS CountsAgree NoUnderflow
CHECK_DEADLOCK FALSE
