CONSTANTS
    f1 = f1
    f2 = f2
    f3 = f3
    w1 = w1
    w2 = w2
    t1 = t1
    t2 = t2
    Fd = {f1, f2, f3}
    Worker = {w1, w2}
    Timer = {t1, t2}
    NoFd = NoFd
    Reactor = FALSE
    ListenET = FALSE
    ConnET = TRUE
    MaxRequests = 1
    MaxUsers = 2
    Lifetime = 1
    Stoppable = FALSE
    Stalls = FALSE
    MaxClients = 3
    MaxDrift = 0
SPECIFICATION Spec
SYMMETRY Symmetry
INVARIANT OneOwner
INVARIANT NoneStranded
INVARIANT OneTimer
INVARIANT ShortClosed
