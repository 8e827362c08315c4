\* Two dispatches over two resources; processes die.
SPECIFICATION FairSpec
CONSTANTS
    Workers = {w1, w2}
    NumResources = 2
    NoOne = noOne
    Wedged = wedged
    Ttl = 1
    MaxTime = 2
    CanCrash = TRUE
INVARIANTS ClaimsOnFile ExclusiveUse UsesAllItNeeds GuardNeverLeft
PROPERTIES ImplementsMutex DispatchEnds
CHECK_DEADLOCK FALSE
