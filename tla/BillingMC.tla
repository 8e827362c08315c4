------------------------------ MODULE BillingMC ------------------------------
(* Plans for the instances of Billing that TLC checks.                     *)
EXTENDS Billing, TLC

\* One price, or the in-place switch between two.
OnePlan == {Keys}
PlanSwitch == {{k} : k \in Keys}

Symmetry == Permutations(Workers) \cup Permutations(Keys)
==============================================================================
