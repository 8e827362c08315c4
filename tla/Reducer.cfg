SPECIFICATION Spec
CONSTANTS
    Writers = {w1, w2}
    Sessions = {s1}
    Docs = {d1, d2}
    Missing = missing
    Untracked = untracked
    Free = free
    Wedged = wedged
    MaxVersion = 2
    MaxEdits = 1
    EditsMidCommit = FALSE
INVARIANTS TearExplained AuditGapExplained ForksExplained
PROPERTY ImplementsStore
CHECK_DEADLOCK FALSE
