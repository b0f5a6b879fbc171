CONSTANTS
    t1 = t1
    t2 = t2
    Nobody = Nobody
    NULL = NULL
    Thread = {t1, t2}
    Options <- SomeOptions
SPECIFICATION Spec
SYMMETRY Symmetry
INVARIANT FileBounded
INVARIANT WrittenOnce
INVARIANT FileNamed
INVARIANT InOrder
CHECK_DEADLOCK FALSE
