CONSTANTS
    VmPages = 6
    MaxNearPages = 2
    MaxRandomJump = 20
    MaxCount = 3
    MaxThreads = 3
    PipeSize = 2
    MaxJobs = 3
    Mallocers = {1, 2}
    FirstThread = 1
    Blocks = {1, 2}
    Sizes = {1, 3, 4}
    WordSize = 2
    PrefixSize = 2
    SizeMod = 8
    StackThreads = {t1, t2}
    Nodes = {n1, n2}
    PoolNodes = {n1, n2}
    Values = {1}
    TagMod = 2
    NULL = NULL
    HtNodes = {1, 2, 3, 4}
    HtKeys = {0, 1, 3}
    HtHash <- MCHash
    HtSizes = {1, 2, 3}
SPECIFICATION MCSpec
INVARIANTS SearchSound PageTableExact ScanComplete HandoverSound UsedMemoryExact TableIntact
PROPERTIES SearchEnds LockFree OrderKept
