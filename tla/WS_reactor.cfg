CONSTANTS
    f1 = f1
    w1 = w1
    t1 = t1
    t2 = t2
    Fd = {f1}
    Worker = {w1}
    Timer = {t1, t2}
    NoFd = NoFd
    Reactor = TRUE
    ListenET = FALSE
    ConnET = FALSE
    MaxRequests = 1
    MaxUsers = 2
    Lifetime = 1
    Stoppable = TRUE
    Stalls = TRUE
    MaxClients = 1
    MaxDrift = 0
SPECIFICATION FairSpec
INVARIANT TimerSafe
INVARIANT Handshake
INVARIANT NeverAborts
 
PROPERTY MainReturns
PROPERTY StopHonoured
