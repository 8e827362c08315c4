SPECIFICATION FairSpec
CONSTANTS
  Subs = {s1}
  Payers = {s1}
  Keys = {k1}
  Plans <- OnePlan
  Workers = {w1}
  Reading = FALSE
  Sweeping = TRUE
  Grace = 0
  Ceiling = 1
  MaxClock = 4
  MaxEvents = 2
  MaxFaults = 1
INVARIANTS OpenHonest
PROPERTIES ClaimStays StaleRefreshed GraceEnds
CHECK_DEADLOCK FALSE
