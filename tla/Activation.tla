----------------------------- MODULE Activation ------------------------------
(***************************************************************************)
(* kernel/composition/activation.ts: a previewed recipe replaces the pin   *)
(* of a workspace (catalog, runtime) and its reconciled run (run state,    *)
(* checkpoint) under a journal, and is resumed or restored after an        *)
(* interruption; beside it the sessions that execute the pin.  A public    *)
(* request reads the pin under the session lock, a session started by hand *)
(* before it.                                                              *)
(***************************************************************************)
EXTENDS Naturals, Sequences, FiniteSets

CONSTANTS Activators, Sessions,
          Requests,        \* sessions started by a public request
          Free, Wedged,    \* lock: absent; left by a dead owner
          MaxEdits         \* bound on edits of the files by hand

ASSUME ActivationAssumption ==
    /\ Requests \subseteq Sessions /\ Activators \cap Sessions = {}
    /\ {Free, Wedged} \cap (Activators \cup Sessions) = {} /\ Free # Wedged
    /\ MaxEdits \in Nat

Surfaces == <<"catalog", "runtime", "run", "checkpoint">>
Files == {"catalog", "runtime", "run", "checkpoint"}
Locks == <<"session", "manifest", "document">>

VARIABLES surface,     \* the files, compared with the preview's
          inputs,      \* the other files of the preview's revision are as it saw them
          config,      \* so is b2c.yaml
          packages,    \* the package store still loads
          journal,
          lock,
          pc,
          held,        \* locks an activator has
          mode,        \* what it is about
          written,     \* surfaces it has replaced
          plan,        \* the pin a session compiled
          strayed,     \* run files written by a session with another pin, or a pending one
          edits

checked == <<inputs, config, packages>>
own == <<held, mode, written>>
vars == <<surface, checked, journal, lock, pc, own, plan, strayed, edits>>

\* "before" and "after" are the preview's bytes; a changed file keeps its plan.
OldPlan == {"before", "oldChanged"}
NewPlan == {"after", "newChanged"}
PlanOf(content) == IF content \in OldPlan THEN "old" ELSE "new"
Rewritten(p) == IF p = "old" THEN "oldChanged" ELSE "newChanged"

Init == /\ surface = [f \in Files |-> "before"]
        /\ inputs = TRUE /\ config = TRUE /\ packages = TRUE
        /\ journal = FALSE
        /\ lock = [l \in {"session", "manifest", "document"} |-> Free]
        /\ pc = [p \in Activators \cup Sessions |-> "idle"]
        /\ held = [a \in Activators |-> 0] /\ written = [a \in Activators |-> 0]
        /\ mode = [a \in Activators |-> "apply"]
        /\ plan = [s \in Sessions |-> "old"]
        /\ strayed = {} /\ edits = 0

Step(p, from, to) == pc[p] = from /\ pc' = [pc EXCEPT ![p] = to]
-----------------------------------------------------------------------------
(* withLease: three locks in order, given back in reverse *)

Lock(a) ==
    LET l == Locks[held[a] + 1]
    IN  /\ pc[a] \in {"idle", "lock"}
        /\ \/ /\ lock[l] = Free
              /\ lock' = [lock EXCEPT ![l] = a] /\ held' = [held EXCEPT ![a] = @ + 1]
              /\ pc' = [pc EXCEPT ![a] = IF held[a] = 2 THEN "begin" ELSE "lock"]
           \/ /\ lock[l] # Free /\ Step(a, "lock", "unlock") /\ UNCHANGED <<lock, held>>
        /\ UNCHANGED <<surface, checked, journal, mode, written, plan, strayed, edits>>

Unlock(a) ==
    /\ pc[a] = "unlock"
    /\ lock' = [lock EXCEPT ![Locks[held[a]]] = Free]
    /\ held' = [held EXCEPT ![a] = @ - 1]
    /\ pc' = [pc EXCEPT ![a] = IF held[a] = 1 THEN "idle" ELSE "unlock"]
    /\ UNCHANGED <<surface, checked, journal, mode, written, plan, strayed, edits>>

\* A check or a call that fails, with the journal as it is.
Throw(a) == /\ pc[a] \in {"begin", "intend", "compare", "write", "remove"}
            /\ pc' = [pc EXCEPT ![a] = "unlock"]
            /\ UNCHANGED <<surface, checked, journal, lock, own, plan, strayed, edits>>
-----------------------------------------------------------------------------
(* applyCompositionActivation, recoverCompositionActivation *)

Staged(f) == surface[f] \in {"before", "after"}

\* A run or checkpoint that is staged already counts as it was.
Revision == inputs /\ Staged("run") /\ Staged("checkpoint")

\* Does not compare the workspace with the preview.
ApplyUnvalidated(a) ==
    /\ Step(a, "begin", "intend")
    /\ ~journal /\ config /\ packages
    /\ mode' = [mode EXCEPT ![a] = "apply"]
    /\ UNCHANGED <<surface, checked, journal, lock, held, written, plan, strayed, edits>>

\* The preview is recomputed and must be the same.
Apply(a) ==
    /\ Step(a, "begin", "intend")
    /\ ~journal /\ config /\ packages /\ Revision
    /\ \A f \in Files : surface[f] = "before"
    /\ mode' = [mode EXCEPT ![a] = "apply"]
    /\ UNCHANGED <<surface, checked, journal, lock, held, written, plan, strayed, edits>>

Intend(a) ==
    /\ Step(a, "intend", "compare")
    /\ journal' = TRUE
    /\ UNCHANGED <<surface, checked, lock, own, plan, strayed, edits>>

Resume(a) ==
    /\ Step(a, "begin", "compare")
    /\ journal /\ config /\ packages /\ Revision
    /\ mode' = [mode EXCEPT ![a] = "resume"]
    /\ UNCHANGED <<surface, checked, journal, lock, held, written, plan, strayed, edits>>

\* Needs neither the packages nor the configuration.
Restore(a) ==
    /\ Step(a, "begin", "compare")
    /\ journal /\ Revision
    /\ mode' = [mode EXCEPT ![a] = "restore"]
    /\ UNCHANGED <<surface, checked, journal, lock, held, written, plan, strayed, edits>>

\* Starts at the surface where the interrupted activation stopped.
CompareSkipping(a) ==
    /\ Step(a, "compare", "write")
    /\ \A f \in Files : Staged(f)
    /\ written' = [written EXCEPT ![a] = Cardinality({f \in Files : surface[f] = "after"})]
    /\ UNCHANGED <<surface, checked, journal, lock, held, mode, plan, strayed, edits>>

Compare(a) ==
    /\ Step(a, "compare", "write")
    /\ \A f \in Files : Staged(f)
    /\ written' = [written EXCEPT ![a] = 0]
    /\ UNCHANGED <<surface, checked, journal, lock, held, mode, plan, strayed, edits>>

Replace(a) ==
    /\ pc[a] = "write" /\ written[a] < 4
    /\ surface' = [surface EXCEPT ![Surfaces[written[a] + 1]] = IF mode[a] = "restore" THEN "before" ELSE "after"]
    /\ written' = [written EXCEPT ![a] = @ + 1]
    /\ UNCHANGED <<checked, journal, lock, pc, held, mode, plan, strayed, edits>>

Remove(a) ==
    /\ written[a] = 4 /\ Step(a, "write", "unlock")
    /\ journal' = FALSE
    /\ UNCHANGED <<surface, checked, lock, own, plan, strayed, edits>>

Activate(a) == \/ Lock(a) \/ Unlock(a) \/ Throw(a) \/ Apply(a) \/ Intend(a) \/ Resume(a) \/ Restore(a)
               \/ Compare(a) \/ Replace(a) \/ Remove(a)

\* previewCompositionActivation of the same change, with what is on disk now
\* (one taken during an activation is another preview, and stale).
Preview ==
    /\ ~journal /\ \A a \in Activators : pc[a] # "intend"
    /\ \A f \in Files : surface[f] \in OldPlan
    /\ surface' = [f \in Files |-> "before"]
    /\ inputs' = TRUE /\ config' = TRUE /\ packages' = TRUE
    /\ UNCHANGED <<journal, lock, pc, own, plan, strayed, edits>>
-----------------------------------------------------------------------------
(* Sessions *)

\* loadWorkspaceCatalog: no journal, then the catalog.
Read(s) ==
    /\ ~journal
    /\ Step(s, "idle", "lock")
    /\ plan' = [plan EXCEPT ![s] = PlanOf(surface["catalog"])]
    /\ UNCHANGED <<surface, checked, journal, lock, own, strayed, edits>>

\* Takes the pin as it was before the lock, like a session started by hand.
EnterStale(s) ==
    /\ lock["session"] = Free /\ Step(s, "lock", "load")
    /\ lock' = [lock EXCEPT !["session"] = s]
    /\ UNCHANGED <<surface, checked, journal, own, plan, strayed, edits>>

\* A public request asks for the journal again, and reads the catalog again.
Enter(s) ==
    /\ lock["session"] = Free /\ Step(s, "lock", "load")
    /\ lock' = [lock EXCEPT !["session"] = s]
    /\ s \in Requests => ~journal
    /\ plan' = [plan EXCEPT ![s] = IF s \in Requests THEN PlanOf(surface["catalog"]) ELSE @]
    /\ UNCHANGED <<surface, checked, journal, own, strayed, edits>>

Strays(s) == journal \/ plan[s] # PlanOf(surface["catalog"])

SaveAs(s, f) == /\ surface' = [surface EXCEPT ![f] = Rewritten(plan[s])]
                /\ strayed' = IF Strays(s) THEN strayed \cup {f} ELSE strayed

\* A run of another plan is reconciled with the pin, whichever that is.
Work(s) ==
    /\ pc[s] \in {"load", "work"} /\ pc' = [pc EXCEPT ![s] = "work"]
    /\ SaveAs(s, "run")
    /\ UNCHANGED <<checked, journal, lock, own, plan, edits>>

Close(s) ==
    /\ Step(s, "work", "release")
    /\ SaveAs(s, "checkpoint")
    /\ UNCHANGED <<checked, journal, lock, own, plan, edits>>

\* At the end of its work, or where it fails.
Release(s) ==
    /\ pc[s] \in {"load", "work", "release"} /\ pc' = [pc EXCEPT ![s] = "done"]
    /\ lock' = [lock EXCEPT !["session"] = Free]
    /\ UNCHANGED <<surface, checked, journal, own, plan, strayed, edits>>
-----------------------------------------------------------------------------
(* The environment *)

\* The locks of a dead process stay until the operator deletes them.
Die(p) ==
    /\ pc[p] \notin {"idle", "done"} /\ pc' = [pc EXCEPT ![p] = IF p \in Activators THEN "idle" ELSE "done"]
    /\ lock' = [l \in DOMAIN lock |-> IF lock[l] = p THEN Wedged ELSE lock[l]]
    /\ held' = [a \in Activators |-> IF a = p THEN 0 ELSE held[a]]
    /\ UNCHANGED <<surface, checked, journal, mode, written, plan, strayed, edits>>

ClearLock(l) ==
    /\ lock[l] = Wedged /\ lock' = [lock EXCEPT ![l] = Free]
    /\ UNCHANGED <<surface, checked, journal, pc, own, plan, strayed, edits>>

\* A reducer changes the business state, journal or not.
Commit ==
    /\ lock["manifest"] = Free /\ lock["document"] = Free /\ inputs' = FALSE
    /\ UNCHANGED <<surface, config, packages, journal, lock, pc, own, plan, strayed, edits>>

Edit == /\ edits < MaxEdits /\ edits' = edits + 1
        /\ \/ /\ \E f \in Files : surface' = [surface EXCEPT ![f] = Rewritten(PlanOf(@))]
              /\ UNCHANGED <<config, packages>>
           \/ config' = FALSE /\ UNCHANGED <<surface, packages>>
           \/ packages' = FALSE /\ UNCHANGED <<surface, config>>
        /\ UNCHANGED <<inputs, journal, lock, pc, own, plan, strayed>>

Next == \/ \E a \in Activators : Activate(a) \/ Die(a)
        \/ \E s \in Sessions : Read(s) \/ Enter(s) \/ Work(s) \/ Close(s) \/ Release(s) \/ Die(s)
        \/ \E l \in DOMAIN lock : ClearLock(l)
        \/ Preview \/ Commit \/ Edit

Spec == Init /\ [][Next]_vars
-----------------------------------------------------------------------------
(* Properties *)

TypeOK == /\ surface \in [Files -> OldPlan \cup NewPlan]
          /\ inputs \in BOOLEAN /\ config \in BOOLEAN /\ packages \in BOOLEAN /\ journal \in BOOLEAN
          /\ lock \in [{"session", "manifest", "document"} -> Activators \cup Sessions \cup {Free, Wedged}]
          /\ pc \in [Activators \cup Sessions ->
                      {"idle", "lock", "begin", "intend", "compare", "write", "unlock", "load", "work", "release", "done"}]
          /\ held \in [Activators -> 0..3] /\ written \in [Activators -> 0..4]
          /\ mode \in [Activators -> {"apply", "resume", "restore"}]
          /\ plan \in [Sessions -> {"old", "new"}]
          /\ strayed \subseteq {"run", "checkpoint"} /\ edits \in Nat

(* Readers that respect the journal find the pin and its run all of the old  *)
(* composition or all of the new one, apart from run files that a session    *)
(* with an outdated pin has written.                                         *)
All(contents) == \A f \in Files \ strayed : surface[f] \in contents

Phase == IF journal THEN "pending" ELSE IF All(OldPlan) THEN "before" ELSE IF All(NewPlan) THEN "after" ELSE "torn"

T == INSTANCE Transition WITH CanUndo <- TRUE, phase <- Phase

ImplementsTransition == T!Spec

(* Whatever died where, a pending activation can be restored, and resumed if *)
(* its packages and configuration are there: unless somebody committed to    *)
(* the business state, edited the files or let a session stray meanwhile.    *)
Recoverable ==
    journal /\ inputs /\ edits = 0 /\ strayed = {} => Revision /\ \A f \in Files : Staged(f)

(* assertCompositionActivationComplete: "All execution/read owners call this *)
(* before reading either active pin".  What a session that was started by a  *)
(* public request executes is the pin on disk, and complete.                 *)
RequestPinHeld == \A s \in Requests : pc[s] = "work" => ~journal /\ plan[s] = PlanOf(surface["catalog"])
=============================================================================
