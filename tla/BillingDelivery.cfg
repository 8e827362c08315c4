SPECIFICATION Spec
CONSTANTS
  Subs = {s1}
  Payers = {s1, none}
  Keys = {k1, k2}
  Plans <- PlanSwitch
  Workers = {w1, w2}
  Reading = TRUE
  Sweeping = FALSE
  Grace = 1
  Ceiling = 1
  MaxClock = 2
  MaxEvents = 2
  MaxFaults = 0
SYMMETRY Symmetry
INVARIANTS OneHolder MirrorHonest OpenHonest
CHECK_DEADLOCK FALSE
