-------------------------- MODULE ActivationProofs ---------------------------
(***************************************************************************)
(* Proofs about Activation, for any number of activators and sessions and  *)
(* any bound on edits: the three locks exclude, so what one activator or   *)
(* session has established about journal and files lasts until it leaves.  *)
(***************************************************************************)
EXTENDS Activation, TLAPS

Inside == {"begin", "intend", "compare", "write"}

(* Who is where owns what.                                                   *)
HeldByPc ==
    \A a \in Activators :
        /\ pc[a] \in Inside \cup {"idle", "lock", "unlock"}
        /\ pc[a] = "idle" => held[a] = 0
        /\ pc[a] = "lock" => held[a] \in {1, 2}
        /\ pc[a] = "unlock" => held[a] \in {1, 2, 3}
        /\ pc[a] \in Inside => held[a] = 3

LockedByHeld ==
    \A a \in Activators :
        /\ lock["session"] = a <=> held[a] \in {1, 2, 3}
        /\ lock["manifest"] = a <=> held[a] \in {2, 3}
        /\ lock["document"] = a <=> held[a] = 3

Running(s) == pc[s] \in {"load", "work", "release"}

LockedBySession ==
    \A s \in Sessions : /\ pc[s] \in {"idle", "lock", "load", "work", "release", "done"}
                        /\ lock["session"] = s <=> Running(s)

Owners == HeldByPc /\ LockedByHeld /\ LockedBySession

(* What the holders of the locks may rely on.                                *)
Whole == ~journal => All(OldPlan) \/ All(NewPlan)

Journaled ==
    \A a \in Activators :
        /\ pc[a] = "intend" => ~journal /\ \A f \in Files : surface[f] \in OldPlan
        /\ pc[a] \in {"compare", "write"} => journal

Replaced(a) == {f \in Files : \/ f = "catalog" /\ written[a] >= 1
                              \/ f = "runtime" /\ written[a] >= 2
                              \/ f = "run" /\ written[a] >= 3
                              \/ f = "checkpoint" /\ written[a] >= 4}

Wanted(a) == IF mode[a] = "restore" THEN OldPlan ELSE NewPlan

Progressed == \A a \in Activators : pc[a] = "write" => \A f \in Replaced(a) \ strayed : surface[f] \in Wanted(a)

Intending == \E a \in Activators : pc[a] = "intend"

AllStaged == (journal \/ Intending) /\ edits = 0 /\ strayed = {} => \A f \in Files : Staged(f)

Pinned == \A s \in Requests : Running(s) => ~journal /\ plan[s] = PlanOf(surface["catalog"])

Contents == Whole /\ Journaled /\ Progressed /\ AllStaged /\ Pinned

IInv == TypeOK /\ Owners /\ Contents

USE DEF Step, checked, own, Inside, OldPlan, NewPlan, PlanOf, Rewritten
-----------------------------------------------------------------------------
(* Types *)

LEMMA InitInv == Init => IInv
<1> SUFFICES ASSUME Init PROVE IInv
  OBVIOUS
<1> USE ActivationAssumption DEF Init
<1>1. TypeOK
  <2>1. inputs \in BOOLEAN /\ config \in BOOLEAN /\ packages \in BOOLEAN /\ journal \in BOOLEAN
    OBVIOUS
  <2>2. surface \in [Files -> OldPlan \cup NewPlan]
    OBVIOUS
  <2>3. /\ lock \in [{"session", "manifest", "document"} -> Activators \cup Sessions \cup {Free, Wedged}]
        /\ pc \in [Activators \cup Sessions ->
                      {"idle", "lock", "begin", "intend", "compare", "write", "unlock", "load", "work", "release", "done"}]
    OBVIOUS
  <2>4. /\ held \in [Activators -> 0..3] /\ written \in [Activators -> 0..4]
        /\ mode \in [Activators -> {"apply", "resume", "restore"}] /\ plan \in [Sessions -> {"old", "new"}]
        /\ strayed \subseteq {"run", "checkpoint"} /\ edits \in Nat
    OBVIOUS
  <2>5. QED
    BY <2>1, <2>2, <2>3, <2>4 DEF TypeOK
<1>2. Owners
  BY DEF Owners, HeldByPc, LockedByHeld, LockedBySession, Running
<1>3. Whole /\ Journaled /\ Progressed
  BY DEF Whole, All, Journaled, Progressed
<1>4. AllStaged /\ Pinned
  BY DEF AllStaged, Staged, Pinned, Running
<1>5. QED
  BY <1>1, <1>2, <1>3, <1>4 DEF IInv, Contents

LEMMA ActivateTypes == ASSUME TypeOK, Owners, NEW a \in Activators, Activate(a) PROVE TypeOK'
<1> USE DEF TypeOK
<1>1. CASE Lock(a)
  BY <1>1 DEF Lock, Locks, Owners, HeldByPc
<1>2. CASE Unlock(a)
  BY <1>2 DEF Unlock, Locks, Owners, HeldByPc
<1>3. CASE Throw(a)
  BY <1>3 DEF Throw
<1>4. CASE Apply(a) \/ Resume(a) \/ Restore(a)
  BY <1>4 DEF Apply, Resume, Restore
<1>5. CASE Intend(a)
  BY <1>5 DEF Intend
<1>6. CASE Remove(a)
  BY <1>6 DEF Remove
<1>7. CASE Compare(a)
  BY <1>7 DEF Compare
<1>8. CASE Replace(a)
  BY <1>8 DEF Replace, Surfaces, Files
<1>9. QED
  BY <1>1, <1>2, <1>3, <1>4, <1>5, <1>7, <1>8, <1>6 DEF Activate

SessionSteps(s) == Read(s) \/ Enter(s) \/ Work(s) \/ Close(s) \/ Release(s)

LEMMA SessionTypes == ASSUME TypeOK, NEW s \in Sessions, SessionSteps(s) PROVE TypeOK'
<1> USE DEF TypeOK
<1>1. CASE Read(s)
  BY <1>1 DEF Read
<1>2. CASE Enter(s)
  BY <1>2 DEF Enter
<1>3. ASSUME Work(s) \/ Close(s) PROVE TypeOK'
  <2>1. PICK f \in {"run", "checkpoint"} : SaveAs(s, f)
    BY <1>3 DEF Work, Close
  <2>2. surface' \in [Files -> OldPlan \cup NewPlan] /\ strayed' \subseteq {"run", "checkpoint"}
    BY <2>1 DEF SaveAs
  <2>3. pc' = [pc EXCEPT ![s] = "work"] \/ pc' = [pc EXCEPT ![s] = "release"]
    BY <1>3 DEF Work, Close
  <2>4. UNCHANGED <<checked, journal, lock, own, plan, edits>>
    BY <1>3 DEF Work, Close
  <2>5. QED
    BY <2>2, <2>3, <2>4
<1>4. CASE Release(s)
  BY <1>4 DEF Release
<1>5. QED
  BY <1>1, <1>2, <1>3, <1>4 DEF SessionSteps

LEMMA DieTypes == ASSUME TypeOK, NEW p \in Activators \cup Sessions, Die(p) PROVE TypeOK'
BY DEF TypeOK, Die

Around == (\E l \in DOMAIN lock : ClearLock(l)) \/ Preview \/ Commit \/ Edit

LEMMA AroundTypes == ASSUME TypeOK, Around PROVE TypeOK'
<1> USE DEF TypeOK
<1>1. CASE \E l \in DOMAIN lock : ClearLock(l)
  BY <1>1 DEF ClearLock
<1>2. CASE Preview \/ Commit
  BY <1>2 DEF Preview, Commit
<1>3. CASE Edit
  <2>1. surface' \in [Files -> OldPlan \cup NewPlan]
    BY <1>3 DEF Edit
  <2>2. config' \in BOOLEAN /\ packages' \in BOOLEAN
    BY <1>3 DEF Edit
  <2>3. edits' \in Nat /\ UNCHANGED <<inputs, journal, lock, pc, own, plan, strayed>>
    BY <1>3, ActivationAssumption DEF Edit
  <2>4. QED
    BY <2>1, <2>2, <2>3
<1>4. QED
  BY <1>1, <1>2, <1>3 DEF Around
-----------------------------------------------------------------------------
(* withLease: who is where owns what *)

LEMMA ActivateOwners ==
    ASSUME TypeOK, Owners, NEW a \in Activators, Activate(a) PROVE Owners'
<1> USE ActivationAssumption DEF TypeOK, Owners, HeldByPc, LockedByHeld, LockedBySession, Running
<1>1. CASE Lock(a)
  BY <1>1 DEF Lock, Locks
<1>2. CASE Unlock(a)
  BY <1>2 DEF Unlock, Locks
<1>3. CASE Throw(a) \/ Apply(a) \/ Resume(a) \/ Restore(a) \/ Intend(a) \/ Remove(a) \/ Compare(a) \/ Replace(a)
  BY <1>3 DEF Throw, Apply, Resume, Restore, Intend, Remove, Compare, Replace
<1>4. QED
  BY <1>1, <1>2, <1>3 DEF Activate

LEMMA SessionOwners ==
    ASSUME TypeOK, Owners, NEW s \in Sessions, SessionSteps(s) PROVE Owners'
BY ActivationAssumption
   DEF TypeOK, Owners, HeldByPc, LockedByHeld, LockedBySession, Running, SessionSteps, Read, Enter, Work, Close, Release

LEMMA DieOwners ==
    ASSUME TypeOK, Owners, NEW p \in Activators \cup Sessions, Die(p) PROVE Owners'
BY ActivationAssumption DEF TypeOK, Owners, HeldByPc, LockedByHeld, LockedBySession, Running, Die

LEMMA AroundOwners == ASSUME TypeOK, Owners, Around PROVE Owners'
BY ActivationAssumption
   DEF TypeOK, Owners, HeldByPc, LockedByHeld, LockedBySession, Running, Around, ClearLock, Preview, Commit, Edit

(* The session lock excludes: an activator that is inside is alone there,    *)
(* and no session runs beside it.                                            *)
LEMMA Alone ==
    ASSUME Owners, NEW a \in Activators, pc[a] \in Inside
    PROVE  /\ \A b \in Activators : pc[b] \in Inside => b = a
           /\ \A s \in Sessions : ~Running(s)
BY ActivationAssumption DEF Owners, HeldByPc, LockedByHeld, LockedBySession

LEMMA NobodyInside ==
    ASSUME Owners, NEW s \in Sessions, Running(s)
    PROVE  /\ \A a \in Activators : pc[a] \notin Inside
           /\ \A r \in Sessions : Running(r) => r = s
BY ActivationAssumption DEF Owners, HeldByPc, LockedByHeld, LockedBySession
-----------------------------------------------------------------------------
(* The files, the journal and the pin *)

LEMMA LockContents ==
    ASSUME IInv, NEW a \in Activators, Lock(a) \/ Unlock(a) \/ Throw(a)
    PROVE  Contents'
<1> USE DEF IInv, TypeOK, Contents, Whole, All, Journaled, Progressed, Replaced, Wanted, AllStaged, Staged, Intending, Pinned, Running
<1>1. UNCHANGED <<surface, journal, edits, strayed, plan, written, mode>>
  BY DEF Lock, Unlock, Throw
<1>2. /\ \A b \in Activators : pc'[b] \in {"intend", "compare", "write"} => pc'[b] = pc[b]
      /\ \A s \in Sessions : pc'[s] = pc[s]
  BY ActivationAssumption DEF Lock, Unlock, Throw
<1>3. QED
  BY <1>1, <1>2, ActivationAssumption

LEMMA ChooseContents ==
    ASSUME IInv, NEW a \in Activators, Apply(a) \/ Resume(a) \/ Restore(a)
    PROVE  Contents'
<1> USE DEF IInv, TypeOK, Contents
<1>1. /\ UNCHANGED <<surface, journal, edits, strayed, plan>>
      /\ pc[a] = "begin" /\ pc' = [pc EXCEPT ![a] = pc'[a]] /\ pc'[a] \in {"intend", "compare"}
      /\ pc'[a] = "intend" => ~journal /\ \A f \in Files : surface[f] = "before"
      /\ pc'[a] = "compare" => journal
  BY DEF Apply, Resume, Restore
<1>2. \A b \in Activators : pc[b] \in Inside => b = a
  BY <1>1, Alone
<1>3. Whole'
  BY <1>1 DEF Whole, All
<1>4. Journaled'
  BY <1>1 DEF Journaled
<1>5. Progressed'
  BY <1>1, <1>2 DEF Progressed
<1>6. AllStaged'
  BY <1>1 DEF AllStaged, Intending, Staged
<1>7. Pinned'
  BY <1>1, ActivationAssumption DEF Pinned, Running
<1>8. QED
  BY <1>3, <1>4, <1>5, <1>6, <1>7

LEMMA IntendContents == ASSUME IInv, NEW a \in Activators, Intend(a) PROVE Contents'
<1> USE DEF IInv, TypeOK, Contents, Intend
<1>1. /\ \A b \in Activators : pc[b] \in Inside => b = a
      /\ \A s \in Sessions : ~Running(s)
  BY Alone
<1>2. Whole' /\ Journaled' /\ Progressed'
  BY <1>1 DEF Whole, Journaled, Progressed
<1>3. AllStaged'
  BY DEF AllStaged, Intending, Staged
<1>4. Pinned'
  BY <1>1, ActivationAssumption DEF Pinned, Running
<1>5. QED
  BY <1>2, <1>3, <1>4

LEMMA CompareContents == ASSUME IInv, NEW a \in Activators, Compare(a) PROVE Contents'
<1> USE DEF IInv, TypeOK, Contents, Compare
<1>1. Whole' /\ Journaled'
  BY DEF Whole, All, Journaled
<1>2. Progressed'
  <2>1. SUFFICES ASSUME NEW b \in Activators, pc'[b] = "write" PROVE \A f \in Replaced(b)' \ strayed' : surface'[f] \in Wanted(b)'
    BY DEF Progressed
  <2>2. CASE b = a
    BY <2>2 DEF Replaced
  <2>3. CASE b # a
    BY <2>1, <2>3 DEF Progressed, Replaced, Wanted
  <2>4. QED
    BY <2>2, <2>3
<1>3. AllStaged' /\ Pinned'
  BY ActivationAssumption DEF AllStaged, Intending, Staged, Pinned, Running
<1>4. QED
  BY <1>1, <1>2, <1>3

LEMMA ReplaceContents == ASSUME IInv, NEW a \in Activators, Replace(a) PROVE Contents'
<1> USE DEF IInv, TypeOK, Contents, Replace
<1>1. /\ \A b \in Activators : pc[b] \in Inside => b = a
      /\ \A s \in Sessions : ~Running(s)
  BY Alone
<1>2. /\ journal /\ pc' = pc /\ mode' = mode /\ strayed' = strayed
      /\ \A f \in Files : surface'[f] = surface[f] \/ surface'[f] \in {"before", "after"}
  BY DEF Journaled
<1>3. Whole' /\ Journaled'
  BY <1>1, <1>2 DEF Whole, Journaled
<1>4. Progressed'
  <2>1. SUFFICES ASSUME NEW b \in Activators, pc'[b] = "write" PROVE \A f \in Replaced(b)' \ strayed' : surface'[f] \in Wanted(b)'
    BY DEF Progressed
  <2>2. b = a /\ Wanted(b)' = Wanted(b)
    BY <1>1, <1>2, <2>1 DEF Wanted
  <2>3. SUFFICES ASSUME NEW f \in Replaced(a)' \ strayed PROVE surface'[f] \in Wanted(a)
    BY <1>2, <2>2
  <2>4. CASE f = Surfaces[written[a] + 1]
    BY <2>4, <2>3 DEF Wanted, Replaced
  <2>5. CASE f # Surfaces[written[a] + 1]
    <3>1. f \in Replaced(a)
      BY <2>3, <2>5 DEF Replaced, Surfaces, Files
    <3>2. surface'[f] = surface[f]
      BY <2>5, <2>3 DEF Replaced
    <3>3. QED
      BY <3>1, <3>2, <2>3 DEF Progressed
  <2>6. QED
    BY <2>4, <2>5
<1>5. AllStaged'
  BY <1>2 DEF AllStaged, Intending, Staged
<1>6. Pinned'
  BY <1>1, <1>2, ActivationAssumption DEF Pinned, Running
<1>7. QED
  BY <1>3, <1>4, <1>5, <1>6

LEMMA RemoveContents == ASSUME IInv, NEW a \in Activators, Remove(a) PROVE Contents' /\ (All(OldPlan) \/ All(NewPlan))
<1> USE DEF IInv, TypeOK, Contents, Remove
<1>1. \A b \in Activators : pc[b] \in Inside => b = a
  BY Alone
<1>2. Replaced(a) = Files
  BY DEF Replaced, Files
<1>3. All(OldPlan) \/ All(NewPlan)
  BY <1>2 DEF Progressed, All, Wanted
<1>4. Whole'
  BY <1>3 DEF Whole, All
<1>5. Journaled' /\ Progressed'
  BY <1>1 DEF Journaled, Progressed
<1>6. AllStaged' /\ Pinned'
  BY <1>1, ActivationAssumption DEF AllStaged, Intending, Staged, Pinned, Running
<1>7. QED
  BY <1>3, <1>4, <1>5, <1>6

LEMMA SessionContents ==
    ASSUME IInv, NEW s \in Sessions, SessionSteps(s) PROVE Contents'
<1> USE DEF IInv, TypeOK, Contents
<1>1. CASE Read(s)
  BY <1>1, ActivationAssumption
     DEF Read, Whole, All, Journaled, Progressed, Replaced, Wanted, AllStaged, Intending, Staged, Pinned, Running
<1>2. CASE Enter(s)
  BY <1>2, ActivationAssumption
     DEF Enter, Whole, All, Journaled, Progressed, Replaced, Wanted, AllStaged, Intending, Staged, Pinned, Running
<1>3. ASSUME Work(s) \/ Close(s) PROVE Contents'
  <2>1. PICK f \in {"run", "checkpoint"} : SaveAs(s, f)
    BY <1>3 DEF Work, Close
  <2>2. /\ UNCHANGED <<journal, plan, written, mode, edits>>
        /\ Running(s) /\ pc' = [pc EXCEPT ![s] = pc'[s]] /\ Running(s)'
    BY <1>3 DEF Work, Close, Running
  <2>3. \A a \in Activators : pc[a] \notin Inside /\ pc'[a] = pc[a]
    BY <2>2, NobodyInside, ActivationAssumption
  <2>4. /\ surface' = [surface EXCEPT ![f] = Rewritten(plan[s])]
        /\ f \in Files /\ f # "catalog" /\ surface'["catalog"] = surface["catalog"]
    BY <2>1 DEF SaveAs, Files
  <2>5. Whole'
    <3>1. SUFFICES ASSUME ~journal PROVE All(OldPlan)' \/ All(NewPlan)'
      BY <2>2 DEF Whole
    <3>2. CASE Strays(s)
      BY <2>1, <2>4, <3>1, <3>2 DEF SaveAs, Whole, All
    <3>3. CASE ~Strays(s)
      <4>1. plan[s] = PlanOf(surface["catalog"]) /\ strayed' = strayed
        BY <2>1, <3>3 DEF Strays, SaveAs
      <4>2. "catalog" \in Files \ strayed
        BY DEF Files
      <4>3. CASE All(OldPlan)
        BY <2>4, <4>1, <4>2, <4>3 DEF All
      <4>4. CASE All(NewPlan)
        BY <2>4, <4>1, <4>2, <4>4 DEF All
      <4>5. QED
        BY <3>1, <4>3, <4>4 DEF Whole
    <3>4. QED
      BY <3>2, <3>3
  <2>6. Journaled' /\ Progressed'
    BY <2>3 DEF Journaled, Progressed
  <2>7. AllStaged'
    BY <2>1, <2>2, <2>3 DEF AllStaged, Intending, SaveAs, Strays
  <2>8. Pinned'
    BY <2>2, <2>4, ActivationAssumption DEF Pinned, Running
  <2>9. QED
    BY <2>5, <2>6, <2>7, <2>8
<1>4. CASE Release(s)
  BY <1>4, ActivationAssumption
     DEF Release, Whole, All, Journaled, Progressed, Replaced, Wanted, AllStaged, Intending, Staged, Pinned, Running
<1>5. QED
  BY <1>1, <1>2, <1>3, <1>4 DEF SessionSteps

LEMMA DieContents ==
    ASSUME IInv, NEW p \in Activators \cup Sessions, Die(p) PROVE Contents'
BY ActivationAssumption
   DEF IInv, TypeOK, Contents, Die, Whole, All, Journaled, Progressed, Replaced, Wanted, AllStaged, Intending, Staged, Pinned, Running

LEMMA AroundContents == ASSUME IInv, Around PROVE Contents'
<1> USE DEF IInv, TypeOK, Contents
<1>1. CASE (\E l \in DOMAIN lock : ClearLock(l)) \/ Commit
  BY <1>1 DEF ClearLock, Commit, Whole, All, Journaled, Progressed, Replaced, Wanted, AllStaged, Intending, Staged, Pinned, Running
<1>2. CASE Preview
  <2>1. /\ ~journal /\ ~Intending /\ UNCHANGED <<journal, pc, own, plan, strayed, edits>>
        /\ \A f \in Files : surface[f] \in OldPlan /\ surface'[f] = "before"
    BY <1>2 DEF Preview, Intending
  <2>2. "catalog" \in Files
    BY DEF Files
  <2>3. Whole' /\ Journaled'
    BY <2>1 DEF Whole, All, Journaled
  <2>4. Progressed' /\ AllStaged'
    BY <2>1 DEF Progressed, Journaled, AllStaged, Intending
  <2>5. Pinned'
    BY <2>1, <2>2 DEF Pinned, Running
  <2>6. QED
    BY <2>3, <2>4, <2>5
<1>3. CASE Edit
  <2>1. /\ UNCHANGED <<journal, pc, own, plan, strayed>> /\ edits' # 0
        /\ \A f \in Files : PlanOf(surface'[f]) = PlanOf(surface[f]) /\ surface'[f] \in OldPlan \cup NewPlan
    BY <1>3 DEF Edit
  <2>2. "catalog" \in Files
    BY DEF Files
  <2>3. Whole' /\ Journaled'
    BY <2>1 DEF Whole, All, Journaled
  <2>4. Progressed' /\ AllStaged'
    BY <2>1 DEF Progressed, Replaced, Wanted, AllStaged
  <2>5. Pinned'
    BY <2>1, <2>2 DEF Pinned, Running
  <2>6. QED
    BY <2>3, <2>4, <2>5
<1>4. QED
  BY <1>1, <1>2, <1>3 DEF Around
-----------------------------------------------------------------------------
(* The theorems *)

LEMMA StepInv == ASSUME IInv, [Next]_vars PROVE IInv'
<1>1. ASSUME NEW a \in Activators, Activate(a) PROVE IInv'
  <2>1. TypeOK' /\ Owners'
    BY <1>1, ActivateTypes, ActivateOwners DEF IInv
  <2>2. Contents'
    BY <1>1, LockContents, ChooseContents, IntendContents, CompareContents, ReplaceContents, RemoveContents DEF Activate
  <2>3. QED
    BY <2>1, <2>2 DEF IInv
<1>2. ASSUME NEW s \in Sessions, SessionSteps(s) PROVE IInv'
  BY <1>2, SessionTypes, SessionOwners, SessionContents DEF IInv
<1>3. ASSUME NEW p \in Activators \cup Sessions, Die(p) PROVE IInv'
  BY <1>3, DieTypes, DieOwners, DieContents DEF IInv
<1>4. CASE Around
  BY <1>4, AroundTypes, AroundOwners, AroundContents DEF IInv
<1>5. CASE UNCHANGED vars
  BY <1>5
     DEF vars, IInv, TypeOK, Owners, HeldByPc, LockedByHeld, LockedBySession, Running, Contents, Whole,
         Journaled, Progressed, AllStaged, Pinned, Intending, All, Replaced, Wanted, Staged
<1>6. QED
  BY <1>1, <1>2, <1>3, <1>4, <1>5 DEF Next, SessionSteps, Around

THEOREM Invariance == Spec => []IInv
BY InitInv, StepInv, PTL DEF Spec

(* The files, the locks and every process's local state keep their types.    *)
THEOREM TypeCorrect == Spec => []TypeOK
<1>1. IInv => TypeOK
  BY DEF IInv
<1>2. QED
  BY Invariance, <1>1, PTL

(* What a session of a public request works on is the pin on disk.           *)
THEOREM RequestsPinned == Spec => []RequestPinHeld
<1>1. IInv => RequestPinHeld
  BY DEF IInv, Contents, Pinned, Running, RequestPinHeld
<1>2. QED
  BY Invariance, <1>1, PTL

(* A pending activation can be taken up again after any crash, unless        *)
(* somebody outside of the protocol has changed what it compares.            *)
THEOREM PendingRecoverable == Spec => []Recoverable
<1>1. IInv => Recoverable
  BY DEF IInv, Contents, AllStaged, Recoverable, Revision, Files
<1>2. QED
  BY Invariance, <1>1, PTL

LEMMA PhaseOf ==
    ASSUME IInv
    PROVE  /\ Phase = "pending" <=> journal
           /\ Phase = "before" <=> ~journal /\ All(OldPlan)
           /\ Phase = "after" <=> ~journal /\ All(NewPlan)
<1>1. "catalog" \in Files \ strayed
  BY DEF IInv, TypeOK, Files
<1>2. ~(All(OldPlan) /\ All(NewPlan))
  BY <1>1 DEF All
<1>3. QED
  BY <1>2 DEF IInv, Contents, Whole, Phase

(* Readers that respect the journal see the old composition or the new one,  *)
(* whatever dies, fails, is resumed or restored.                             *)
THEOREM ActivationImplementsTransition == Spec => ImplementsTransition
<1>1. Init => T!Init
  BY DEF Init, T!Init, Phase, All
<1>2. IInv /\ IInv' /\ [Next]_vars => [T!Next]_Phase
  <2> SUFFICES ASSUME IInv, IInv', [Next]_vars PROVE [T!Next]_Phase
    OBVIOUS
  <2>a. /\ Phase \in {"before", "pending", "after"} /\ Phase' \in {"before", "pending", "after"}
        /\ Phase = "pending" <=> journal
        /\ Phase' = "pending" <=> journal'
    BY PhaseOf DEF IInv, Contents, Whole, Phase
  <2>1. CASE journal # journal'
    <3>1. CASE journal
      BY <2>1, <2>a, <3>1 DEF T!Next, T!Complete, T!Undo, IInv, TypeOK
    <3>2. CASE ~journal
      <4>1. PICK a \in Activators : Intend(a)
        BY <2>1, <3>2
           DEF Next, Activate, Lock, Unlock, Throw, Apply, Resume, Restore, Compare, Replace, Remove, Read, Enter,
               Work, Close, Release, Die, ClearLock, Preview, Commit, Edit, vars, IInv, TypeOK
      <4>2. All(OldPlan)
        BY <4>1 DEF Intend, IInv, Contents, Journaled, All
      <4>3. Phase = "before"
        BY <4>2, <3>2, PhaseOf
      <4>4. QED
        BY <4>3, <2>1, <2>a, <3>2 DEF T!Next, T!Intend, IInv, TypeOK
    <3>3. QED
      BY <3>1, <3>2
  <2>2. CASE journal /\ journal'
    BY <2>2, <2>a
  <2>3. CASE ~journal /\ ~journal'
    <3>1. "catalog" \in Files /\ "catalog" \notin strayed /\ "catalog" \notin strayed'
      BY DEF IInv, TypeOK, Files
    <3>2. surface["catalog"] \in OldPlan <=> surface'["catalog"] \in OldPlan
      BY <2>3, <3>1
         DEF Next, Activate, Lock, Unlock, Throw, Apply, Intend, Resume, Restore, Compare, Replace, Remove, Read, Enter,
             Work, Close, Release, SaveAs, Die, ClearLock, Preview, Commit, Edit, vars, IInv, TypeOK, Contents, Journaled
    <3>3. /\ Phase = "before" <=> surface["catalog"] \in OldPlan
          /\ Phase' = "before" <=> surface'["catalog"] \in OldPlan
      BY <2>3, <3>1 DEF Phase, IInv, Contents, Whole, All
    <3>4. Phase' = Phase
      BY <2>3, <2>a, <3>2, <3>3
    <3>5. QED
      BY <3>4
  <2>4. QED
    BY <2>1, <2>2, <2>3 DEF IInv, TypeOK
<1>3. QED
  BY <1>1, <1>2, Invariance, PTL DEF Spec, ImplementsTransition, T!Spec
=============================================================================
