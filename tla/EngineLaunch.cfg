SPECIFICATION Spec
CONSTANTS
    Nodes <- LaunchNodes
    Materials = {"brief"}
    Existing = {"brief"}
    NoNode = NoNode
    Rank <- LaunchRank
    Deps <- LaunchDeps
    Reads <- LaunchReads
    Consults <- LaunchConsults
    ReviewOf <- LaunchReviewOf
    Gated = {"audit", "publish"}
    Reviewed = {"spec", "audit"}
    Idempotent = {"spec", "audit"}
    Guarded = {}
    Recurring = {}
    NeedsApproval = {"publish"}
    Restricted = {"publish"}
    Priced = {"publish"}
    Conflicts = {}
    MaxConcurrency = 2
    MaxAttempts = 2
    Editable = {"brief", "spec"}
    MaxEdits = 1
INVARIANTS OneShot SucceededJudged InputsStand ApprovedWork
PROPERTIES AcceptedAsFound SessionEnds
