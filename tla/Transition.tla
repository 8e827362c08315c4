----------------------------- MODULE Transition -----------------------------
(***************************************************************************)
(* What a journaled change of a workspace promises its readers: they find  *)
(* all of its files as they were before, or all as they are after, and are *)
(* refused while the journal says that the change is pending, whatever     *)
(* process died in it.  Erasure (which is never undone) and Activation     *)
(* (which may be) implement it.                                            *)
(***************************************************************************)
CONSTANT CanUndo

VARIABLE phase

TypeOK == phase \in {"before", "pending", "after"}

Init == phase = "before"

Intend == phase = "before" /\ phase' = "pending"

Complete == phase = "pending" /\ phase' = "after"

Undo == CanUndo /\ phase = "pending" /\ phase' = "before"

Next == Intend \/ Complete \/ Undo

Spec == Init /\ [][Next]_phase
=============================================================================
