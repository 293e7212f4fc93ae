CONSTANTS
    k1 = k1
    k2 = k2
    c1 = c1
    NULL = NULL
    Keys = {k1, k2}
    Clients = {c1}
    Commands <- MCMulti
    Data = {1}
    PagesOf <- MCPagesOf
    Objs = {1, 2, 3, 4, 5, 6, 7}
    VmPages = 2
    MaxThreads = 1
    Settings = {0, 1}
    MaxMemory = 1
    PipeSize = 1
    SeekMayFail = FALSE
SPECIFICATION Spec
INVARIANTS NoAssertionFails JobsSound PageAccounting RefcountExact
           WaitersAreServed
