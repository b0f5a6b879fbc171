CONSTANTS
    x1 = x1
    x2 = x2
    x3 = x3
    x4 = x4
    k1 = k1
    k2 = k2
    k3 = k3
    Blank = Blank
    Item = {x1, x2, x3, x4}
    Consumer = {k1, k2, k3}
    m_max_size = 3
SPECIFICATION FairSpec
INVARIANT NoSleeper
PROPERTY PushedIsPopped
PROPERTY QueueSpec
