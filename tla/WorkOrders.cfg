CONSTANTS
    post = post
    audit = audit
    Nodes = {post, audit}
    Effectful = {post}
    Judged = {post, audit}
    Audits = {audit}
    Shared = {audit}
    Orders = {1, 2, 3}
    For <- ForMC
    Operators = {p}
    MaxAttempts = 2
    MaxHistory <- HistoryMC
    Changeable = {post}
    MaxChanges = 1
    MaxCalls = 2
SPECIFICATION Spec
INVARIANTS OrderFollowsAttempt ProvedOnce OrderBounded RetryExplained
CHECK_DEADLOCK FALSE
