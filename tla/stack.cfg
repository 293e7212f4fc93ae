CONSTANTS
    t1 = t1
    t2 = t2
    n1 = n1
    n2 = n2
    NULL = NULL
    Threads = {t1, t2}
    Nodes = {n1, n2}
    PoolNodes = {n1}
    Values = {1, 2}
    Pushes <- MCRange
    TagMod = 2
    SpThreads = {t1, t2}
    SpBlocks = {b1, b2}
    SpSlots = {p, q}
    SpNull = NULL
SPECIFICATION MCSpec
INVARIANTS StackSound CountsSound
PROPERTIES Linearizable
SYMMETRY ThreadSymmetry
