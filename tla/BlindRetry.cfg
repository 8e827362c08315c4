CONSTANTS
    post = post
    audit = audit
    Nodes = {post}
    Effectful = {post}
    Judged = {}
    Audits = {}
    Shared = {}
    Orders = {1}
    For <- ForMC
    Operators = {p}
    MaxAttempts = 2
    MaxHistory <- HistoryMC
    Changeable = {post}
    MaxChanges = 0
    MaxCalls = 2
SPECIFICATION Spec
INVARIANT NoBlindRetry
CHECK_DEADLOCK FALSE
