CONSTANTS
    f1 = f1
    w1 = w1
    w2 = w2
    t1 = t1
    t2 = t2
    Fd = {f1}
    Worker = {w1, w2}
    Timer = {t1, t2}
    NoFd = NoFd
    Reactor = TRUE
    ListenET = FALSE
    ConnET = FALSE
    MaxRequests = 1
    MaxUsers = 2
    Lifetime = 2
    Stoppable = FALSE
    Stalls = FALSE
    MaxClients = 1
    MaxDrift = 0
SPECIFICATION Spec
SYMMETRY Symmetry
INVARIANT ShortClosed
