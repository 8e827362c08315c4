SPECIFICATION LockSpec
CONSTANTS
    Procs = {p1, p2, p3}
    Breakers = {p1}
    Requesters = {}
    Nobody = nobody
    Free = free
    Wedged = wedged
    Ttl = 1
    MaxTime = 3
    Timely = TRUE
PROPERTY LiveLockNeverBroken
CHECK_DEADLOCK FALSE
