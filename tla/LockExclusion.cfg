SPECIFICATION LockSpec
CONSTANTS
    Procs = {p1, p2}
    Breakers = {}
    Requesters = {r1}
    Nobody = nobody
    Free = free
    Wedged = wedged
    Ttl = 1
    MaxTime = 2
    Timely = FALSE
INVARIANT MutualExclusion
PROPERTY ImplementsMutex
CHECK_DEADLOCK FALSE
