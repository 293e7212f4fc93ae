CONSTANTS
    t1 = t1
    t2 = t2
    t3 = t3
    t4 = t4
    NULL = NULL
    Dummy = Dummy
    Threads = {t1, t2, t3, t4}
    Programs <- MCContended
    Victims = {t2, t3}
    Drowsy = {}
SPECIFICATION MCFairSpec
INVARIANTS FIFO QueueSound
PROPERTIES EveryoneFinishes
