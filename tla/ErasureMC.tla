------------------------------ MODULE ErasureMC ------------------------------
(***************************************************************************)
(* A proof file that is deleted, the business state, which a reducer       *)
(* commits, and the run state, which the verification CLI rewrites without *)
(* a lock and a session, started by hand, with one.                        *)
(***************************************************************************)
EXTENDS Erasure, TLC

CONSTANTS reducer, verifier, session

LockTable == reducer :> "manifest" @@ verifier :> "none" @@ session :> "session"
DocTable == reducer :> "state" @@ verifier :> "run" @@ session :> "run"
Order == "proof" :> 1 @@ "run" :> 2 @@ "state" :> 3

Symmetry == Permutations(Erasers)
=============================================================================
