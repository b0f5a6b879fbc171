CONSTANTS
    t1 = t1
    t2 = t2
    t3 = t3
    t4 = t4
    NULL = NULL
    Timer = {t1, t2, t3, t4}
    Lifetime = 2
    MaxTime = 5
SPECIFICATION TimerSpec
INVARIANT WellLinked
PROPERTY SetSpec
