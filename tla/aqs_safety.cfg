CONSTANTS
    t1 = t1
    t2 = t2
    t3 = t3
    t4 = t4
    NULL = NULL
    Dummy = Dummy
    Threads = {t1, t2, t3}
    Programs <- MCPrograms
    Victims = {t2}
    Drowsy = {t3}
SPECIFICATION MCSpec
INVARIANTS NoLostWakeup ConditionSound
