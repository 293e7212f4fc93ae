CONSTANTS
    k1 = k1
    k2 = k2
    c1 = c1
    NULL = NULL
    Keys = {k1}
    Clients = {c1}
    Commands <- MCSingle
    Data = {1}
    PagesOf <- MCPagesOf
    Objs = {1, 2, 3, 4, 5}
    VmPages = 2
    MaxThreads = 1
    Settings = {1}
    MaxMemory = 0
    PipeSize = 1
    SeekMayFail = FALSE
SPECIFICATION FairSpec
PROPERTIES BlockedClientsResume MainThreadReturns
