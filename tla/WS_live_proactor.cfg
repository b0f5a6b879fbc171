CONSTANTS
    f1 = f1
    f2 = f2
    w1 = w1
    t1 = t1
    t2 = t2
    Fd = {f1, f2}
    Worker = {w1}
    Timer = {t1, t2}
    NoFd = NoFd
    Reactor = FALSE
    ListenET = TRUE
    ConnET = FALSE
    MaxRequests = 1
    MaxUsers = 2
    Lifetime = 1
    Stoppable = FALSE
    Stalls = FALSE
    MaxClients = 2
    MaxDrift = 0
SPECIFICATION FairSpec
INVARIANT BacklogNoticed
PROPERTY IdleClosed
PROPERTY RefusedClosed
PROPERTY Served
PROPERTY ConnSpec
