------------------------------- MODULE Mutex --------------------------------
(***************************************************************************)
(* What kernel/reducer/lock.ts promises to a caller that never passes      *)
(* breakStale: one owner at a time, and a lock whose owner died stays      *)
(* taken until somebody deletes the file by hand.  AdvisoryLock implements *)
(* this specification step by step; Reducer relies on it for the manifest  *)
(* lock, which is always acquired without breakStale.                      *)
(***************************************************************************)
CONSTANTS Procs,     \* every process that may ask for the lock
          Free,      \* the lock file is absent
          Wedged     \* the lock file is present and nobody owns it

VARIABLE lock

TypeOK == lock \in Procs \cup {Free, Wedged}

Init == lock = Free

Acquire(p) == lock = Free /\ lock' = p

Release(p) == lock = p /\ lock' = Free

\* The owner dies, or finds a file that names another owner and gives up: the
\* file outlives its ownership.
Abandon(p) == lock = p /\ lock' = Wedged

\* A late write by an interactive caller puts back the file of an owner that
\* has already released it.
Resurrect == lock = Free /\ lock' = Wedged

Next == Resurrect \/ \E p \in Procs : Acquire(p) \/ Release(p) \/ Abandon(p)

Spec == Init /\ [][Next]_lock
=============================================================================
