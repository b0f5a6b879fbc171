CONSTANTS
    r1 = r1
    r2 = r2
    r3 = r3
    r4 = r4
    w1 = w1
    w2 = w2
    w3 = w3
    NoRequest = NoRequest
    Request = {r1, r2, r3, r4}
    Worker = {w1, w2, w3}
    m_max_requests = 2
    Interrupts = TRUE
SPECIFICATION FairSpec
INVARIANT OnePlace
INVARIANT Awake
PROPERTY QueuedIsRun
