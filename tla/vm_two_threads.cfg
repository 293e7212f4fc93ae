CONSTANTS
    k1 = k1
    k2 = k2
    c1 = c1
    NULL = NULL
    Keys = {k1, k2}
    Clients = {c1}
    Commands <- MCSingle
    Data = {1, 2}
    PagesOf <- MCPagesOf
    Objs = {1, 2, 3, 4, 5, 6, 7}
    VmPages = 2
    MaxThreads = 2
    Settings = {0, 2}
    MaxMemory = 0
    PipeSize = 1
    SeekMayFail = TRUE
SPECIFICATION Spec
INVARIANTS DataIntegrity SnapshotIntact
PROPERTIES ImplementsQueue WorkUndisturbed
CHECK_DEADLOCK FALSE
SYMMETRY KeySymmetry
VIEW MCView
