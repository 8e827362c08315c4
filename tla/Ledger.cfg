\* Two nodes, two waivers, two periods, two allocations.
CONSTANTS
    cheap = cheap
    dear = dear
    Unfunded = Unfunded
    Nodes = {cheap, dear}
    Cost <- CostMC
    Waivers = {1, 2}
    Cap <- CapMC
    Periods = {1, 2}
    Allocations = {2, 3}
    MaxEntries = 3
    MaxChanges = 4
SPECIFICATION Spec
INVARIANTS BooksBalance CapHeld BudgetHeld NothingBlind
