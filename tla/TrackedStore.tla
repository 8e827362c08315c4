---------------------------- MODULE TrackedStore ----------------------------
(***************************************************************************)
(* What the reducer promises of the documents it tracks: the manifest of   *)
(* each document moves only by adopting a file nobody tracks yet or by one *)
(* patch applied to the content tracked before it, one at a time and       *)
(* whatever the processes, crashes and edits of the files do meanwhile.    *)
(***************************************************************************)
CONSTANTS Docs, Untracked, Adoptable, After(_)

VARIABLE tracked

Init == tracked = [d \in Docs |-> Untracked]

\* The migration bootstrap: a pre-existing file becomes the baseline.
Adopt(d) == /\ tracked[d] = Untracked
            /\ tracked'[d] \in Adoptable
            /\ tracked' = [tracked EXCEPT ![d] = tracked'[d]]

\* A patch (or a reconciliation) of the tracked content.
Commit(d) == tracked' = [tracked EXCEPT ![d] = After(tracked[d])]

Next == \E d \in Docs : Adopt(d) \/ Commit(d)

Spec == Init /\ [][Next]_tracked
=============================================================================
