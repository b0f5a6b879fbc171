CONSTANTS
    c1 = c1
    c2 = c2
    t1 = t1
    t2 = t2
    t3 = t3
    t4 = t4
    NULL = NULL
    Conn = {c1, c2}
    Thread = {t1, t2, t3, t4}
    MaxInterrupts = 2
SPECIFICATION FairSpec
INVARIANT Exclusive
INVARIANT Covered
INVARIANT OnlyInterrupted
PROPERTY WaitersServed
CHECK_DEADLOCK FALSE
