--------------------------- MODULE RunEngineProofs ---------------------------
(***************************************************************************)
(* Theorems about RunEngine, for every plan, every bound and every order   *)
(* of verdicts, failures, edits and crashes: it is well typed, work that   *)
(* must not be repeated is attempted once, what runs is approved, what has *)
(* succeeded was judged, and cascades take all that relied on what fell.   *)
(***************************************************************************)
EXTENDS RunEngine, TLAPS

-----------------------------------------------------------------------------
\* The run-state operators.

\* invalidateDescendants leaves a node as it was or reopens it, and accepts nothing.
LEMMA InvalidateTypes ==
    ASSUME NEW st \in [Nodes -> Statuses], NEW acc \in SUBSET Artifacts, NEW changed, NEW spared
    PROVE  /\ Invalidate(st, acc, changed, spared).status \in [Nodes -> Statuses]
           /\ Invalidate(st, acc, changed, spared).accepted \subseteq Artifacts
<1>1. \A n \in Nodes : Reopened(n) \in Statuses
  BY DEF Reopened, Statuses
<1>2. [n \in Nodes |-> IF n \in Hit(st, changed, spared) THEN Reopened(n) ELSE st[n]] \in [Nodes -> Statuses]
  BY <1>1
<1>3. Invalidate(st, acc, changed, spared).accepted \subseteq acc
  BY DEF Invalidate
<1>4. Invalidate(st, acc, changed, spared).status \in [Nodes -> Statuses]
  BY <1>2 DEF Invalidate
<1> QED BY <1>3, <1>4

\* Statuses from which no step of the loop begins a node again.
AtRest(s) == s \notin {"pending", "stale", "waiting_founder"}

\* Work at rest that needs a read-back stays at rest when its inputs change.
LEMMA InvalidateRests ==
    ASSUME NEW st, NEW acc, NEW changed, NEW spared,
           NEW n \in Nodes, NeedsReadback(n), n \in tried, AtRest(st[n])
    PROVE  AtRest(Invalidate(st, acc, changed, spared).status[n])
<1>1. Reopened(n) = "needs_readback"
  BY DEF Reopened
<1>2. AtRest(IF n \in Hit(st, changed, spared) THEN Reopened(n) ELSE st[n])
  BY <1>1 DEF AtRest
<1>3. Invalidate(st, acc, changed, spared).status[n] = IF n \in Hit(st, changed, spared) THEN Reopened(n) ELSE st[n]
  BY DEF Invalidate
<1> QED BY <1>2, <1>3

\* requestVerificationRepair, likewise, whatever it was asked to reopen.
LEMMA RepairTypes ==
    ASSUME NEW st \in [Nodes -> Statuses], NEW acc \in SUBSET Artifacts,
           NEW n \in Nodes, NEW targets \in SUBSET Nodes
    PROVE  /\ Repair(st, acc, n, targets).status \in [Nodes -> Statuses]
           /\ Repair(st, acc, n, targets).accepted \subseteq Artifacts
<1> DEFINE fallen == Invalidate(st, acc \ targets, targets, {})
<1>1. fallen.status \in [Nodes -> Statuses] /\ fallen.accepted \subseteq Artifacts
  <2>1. acc \ targets \in SUBSET Artifacts
    OBVIOUS
  <2> QED BY <2>1, InvalidateTypes
<1>2. {"blocked", "needs_readback", "stale"} \subseteq Statuses
  BY DEF Statuses
<1> HIDE DEF fallen
<1> QED BY <1>1, <1>2 DEF Repair, fallen

LEMMA RepairRests ==
    ASSUME NEW st, NEW acc, NEW n \in Nodes, NEW targets \in SUBSET Nodes,
           DOMAIN st = Nodes, st = [m \in Nodes |-> st[m]],
           NEW m \in Nodes, NeedsReadback(m), m \in tried, AtRest(st[m])
    PROVE  AtRest(Repair(st, acc, n, targets).status[m])
<1> DEFINE fallen == Invalidate(st, acc \ targets, targets, {})
<1>1. AtRest(fallen.status[m])
  BY InvalidateRests
<1>2. AtRest("blocked") /\ AtRest("needs_readback")
  BY DEF AtRest
<1> HIDE DEF fallen, AtRest
<1> QED BY <1>1, <1>2 DEF Repair, fallen, AtRest

-----------------------------------------------------------------------------
\* Types.

LEMMA ClassifiedTypes ==
    ASSUME NEW st \in [Nodes -> Statuses], NEW acc, NEW refused
    PROVE  Classified(st, acc, refused) \in [Nodes -> Statuses]
BY DEF Classified, Statuses

LEMMA InitTypes == Init => TypeOK
<1> SUFFICES ASSUME Init PROVE TypeOK
  OBVIOUS
<1>1. status \in [Nodes -> Statuses] /\ used \in [Nodes -> 0..MaxAttempts]
  BY PlanAssumption DEF Init, Statuses
<1>2. decision \in [Nodes -> {"pending", "approved", "rejected"}] /\ gates \in [Nodes -> {"none", "passed", "failed"}]
  BY DEF Init
<1>3. /\ bound \in [Artifacts -> {"none", "given", "unjudged", "judged"}]
      /\ onDisk \in [Artifacts -> {"same", "edited", "leftover", "absent"}]
  BY DEF Init
<1>4. edits \in 0..MaxEdits
  BY PlanAssumption DEF Init
<1> QED BY <1>1, <1>2, <1>3, <1>4 DEF Init, TypeOK

\* A session's start, which is in three parts: orphans, files, recurrence.
LEMMA OpenTypes == ASSUME TypeOK, Open PROVE TypeOK'
<1>1. PICK expired \in SUBSET {n \in Nodes : status[n] = "running"},
           due \in SUBSET {n \in Recurring : status[n] = "succeeded"} :
        LET orphaned == [n \in Nodes |-> IF n \notin expired THEN status[n]
                                         ELSE IF n \in Idempotent THEN "pending" ELSE "needs_readback"]
            changed == {a \in Found \cap accepted : onDisk[a] # "same"}
            fallen == Invalidate(orphaned, accepted \cup Found, changed, {})
            recur == {n \in due : fallen.status[n] = "succeeded"}
        IN  /\ status' = [n \in Nodes |-> IF n \in recur THEN "stale" ELSE fallen.status[n]]
            /\ used' = [n \in Nodes |-> IF n \in recur THEN 0 ELSE used[n]]
            /\ accepted' = fallen.accepted
            /\ bound' = [a \in Artifacts |->
                           CASE a \notin Found -> bound[a]
                             [] a \in Found /\ onDisk[a] = "same" -> bound[a]
                             [] a \in Found /\ onDisk[a] = "leftover" -> "unjudged"
                             [] OTHER -> "given"]
            /\ onDisk' = [a \in Artifacts |-> IF a \in Found THEN "same" ELSE onDisk[a]]
  BY DEF Open
<1> DEFINE orphaned == [n \in Nodes |-> IF n \notin expired THEN status[n]
                                        ELSE IF n \in Idempotent THEN "pending" ELSE "needs_readback"]
           fallen == Invalidate(orphaned, accepted \cup Found, {a \in Found \cap accepted : onDisk[a] # "same"}, {})
<1>2. orphaned \in [Nodes -> Statuses] /\ accepted \cup Found \in SUBSET Artifacts
  BY DEF TypeOK, Statuses, Found
<1>3. fallen.status \in [Nodes -> Statuses] /\ fallen.accepted \subseteq Artifacts
  <2> HIDE DEF orphaned
  <2> QED BY <1>2, InvalidateTypes
<1>4. "stale" \in Statuses
  BY DEF Statuses
<1>5. status' \in [Nodes -> Statuses] /\ accepted' \subseteq Artifacts
  <2>1. accepted' = fallen.accepted
    BY <1>1
  <2>2. \E R : status' = [n \in Nodes |-> IF n \in R THEN "stale" ELSE fallen.status[n]]
    BY <1>1
  <2> HIDE DEF fallen
  <2> QED BY <1>3, <1>4, <2>1, <2>2
<1>6. used' \in [Nodes -> 0..MaxAttempts]
  <2>1. \E R : used' = [n \in Nodes |-> IF n \in R THEN 0 ELSE used[n]]
    BY <1>1
  <2> QED BY <2>1, PlanAssumption DEF TypeOK
<1>7. bound' \in [Artifacts -> {"none", "given", "unjudged", "judged"}]
  <2>1. bound' = [a \in Artifacts |->
                           CASE a \notin Found -> bound[a]
                             [] a \in Found /\ onDisk[a] = "same" -> bound[a]
                             [] a \in Found /\ onDisk[a] = "leftover" -> "unjudged"
                             [] OTHER -> "given"]
    BY <1>1
  <2> QED BY <2>1 DEF TypeOK
<1>8. onDisk' \in [Artifacts -> {"same", "edited", "leftover", "absent"}]
  <2>1. onDisk' = [a \in Artifacts |-> IF a \in Found THEN "same" ELSE onDisk[a]]
    BY <1>1
  <2> QED BY <2>1 DEF TypeOK
<1>9. phase' = "loop" /\ UNCHANGED <<tried, decision, produced, gates, attested, offered, executing, gating,
                                      queue, progress, doomed, edits>>
  BY DEF Open
<1> QED BY <1>5, <1>6, <1>7, <1>8, <1>9 DEF TypeOK

LEMMA DropReviewTypes == ASSUME TypeOK, NEW n \in Nodes, DropReview(n) PROVE TypeOK'
<1> DEFINE reopened == [status EXCEPT ![n] = Reopened(n)]
           fallen == Invalidate(reopened, accepted \ {n}, {n}, ReviewOf[n])
<1>1. reopened \in [Nodes -> Statuses] /\ accepted \ {n} \in SUBSET Artifacts
  BY DEF TypeOK, Statuses, Reopened
<1>2. fallen.status \in [Nodes -> Statuses] /\ fallen.accepted \subseteq Artifacts
  <2> HIDE DEF reopened
  <2> QED BY <1>1, InvalidateTypes
<1>3. status' = fallen.status /\ accepted' = fallen.accepted
  BY DEF DropReview
<1> HIDE DEF fallen
<1> QED BY <1>2, <1>3 DEF DropReview, TypeOK, session

LEMMA FrontierTypes == ASSUME TypeOK, ComputeFrontier PROVE TypeOK'
<1>1. status' \in [Nodes -> Statuses]
  BY ClassifiedTypes DEF ComputeFrontier, TypeOK
<1>2. offered' \subseteq Nodes
  BY DEF ComputeFrontier, Frontier
<1>3. queue' \subseteq Nodes
  <2>1. queue' = {} \/ queue' = PendingReviews(status')
    BY DEF ComputeFrontier
  <2>2. PendingReviews(status') \subseteq Nodes
    BY PlanAssumption DEF PendingReviews
  <2> QED BY <2>1, <2>2
<1> QED BY <1>1, <1>2, <1>3 DEF ComputeFrontier, TypeOK

LEMMA StartBatchTypes == ASSUME TypeOK, StartBatch PROVE TypeOK'
<1>1. PICK begun : /\ begun \subseteq Batch
                   /\ \A n \in begun : ~Exhausted(n)
                   /\ executing' = begun /\ tried' = tried \cup begun /\ attested' = attested \ begun
                   /\ used' = [n \in Nodes |-> IF n \in begun THEN used[n] + 1 ELSE used[n]]
                   /\ gates' = [n \in Nodes |-> IF n \in begun THEN "none" ELSE gates[n]]
  BY DEF StartBatch, DispatchBatch
<1>2. Batch \subseteq Nodes
  BY DEF Batch, TypeOK
<1>3. used' \in [Nodes -> 0..MaxAttempts]
  BY <1>1, PlanAssumption DEF TypeOK, Exhausted
<1>4. status' \in [Nodes -> Statuses]
  BY DEF StartBatch, DispatchBatch, TypeOK, Statuses
<1>5. gates' \in [Nodes -> {"none", "passed", "failed"}]
  BY <1>1 DEF TypeOK
<1> QED BY <1>1, <1>2, <1>3, <1>4, <1>5 DEF StartBatch, DispatchBatch, TypeOK

LEMMA CompleteTypes == ASSUME TypeOK, NEW n \in Nodes, Complete(n) PROVE TypeOK'
<1>1. PICK differs \in BOOLEAN :
        LET landed == [status EXCEPT ![n] = IF Plain(n) THEN "succeeded" ELSE "unverified"]
            kept == IF Plain(n) THEN accepted \cup {n} ELSE accepted \ {n}
            changed == IF n \in accepted /\ differs THEN {n} ELSE {}
            fallen == Invalidate(landed, kept, changed, {})
        IN  /\ status' = fallen.status /\ accepted' = fallen.accepted
            /\ attested' = IF differs THEN attested \ Touched({n}) ELSE attested
  BY DEF Complete
<1> DEFINE landed == [status EXCEPT ![n] = IF Plain(n) THEN "succeeded" ELSE "unverified"]
           kept == IF Plain(n) THEN accepted \cup {n} ELSE accepted \ {n}
           fallen == Invalidate(landed, kept, IF n \in accepted /\ differs THEN {n} ELSE {}, {})
<1>2. landed \in [Nodes -> Statuses] /\ kept \in SUBSET Artifacts
  BY DEF TypeOK, Statuses, Artifacts
<1>3. fallen.status \in [Nodes -> Statuses] /\ fallen.accepted \subseteq Artifacts
  <2> HIDE DEF landed, kept
  <2> QED BY <1>2, InvalidateTypes
<1>4. status' = fallen.status /\ accepted' = fallen.accepted /\ attested' \subseteq attested
  BY <1>1
<1>5. /\ bound' \in [Artifacts -> {"none", "given", "unjudged", "judged"}]
      /\ onDisk' \in [Artifacts -> {"same", "edited", "leftover", "absent"}]
  BY DEF Complete, TypeOK
<1> HIDE DEF fallen
<1> QED BY <1>3, <1>4, <1>5 DEF Complete, TypeOK

LEMMA LeftoverTypes ==
    ASSUME TypeOK, NEW S, LeavesFiles(S)
    PROVE  onDisk' \in [Artifacts -> {"same", "edited", "leftover", "absent"}] /\ attested' \subseteq attested
BY DEF LeavesFiles, TypeOK

LEMMA FailTypes == ASSUME TypeOK, NEW n \in Nodes, Fail(n) \/ Throw(n) PROVE TypeOK'
<1>1. onDisk' \in [Artifacts -> {"same", "edited", "leftover", "absent"}] /\ attested' \subseteq attested
  BY LeftoverTypes DEF Fail, Throw
<1>2. CASE Fail(n)
  <2>1. status' \in [Nodes -> Statuses]
    BY <1>2 DEF Fail, TypeOK, Statuses
  <2> QED BY <1>1, <1>2, <2>1 DEF Fail, TypeOK
<1>3. CASE Throw(n)
  BY <1>1, <1>3 DEF Throw, TypeOK
<1> QED BY <1>2, <1>3

LEMMA CrashTypes == ASSUME TypeOK, Crash PROVE TypeOK'
<1>1. onDisk' \in [Artifacts -> {"same", "edited", "leftover", "absent"}] /\ attested' \subseteq attested
  BY LeftoverTypes DEF Crash
<1> QED BY <1>1 DEF Crash, Closed, TypeOK

LEMMA CheckedTypes ==
    ASSUME TypeOK, NEW rewrote \in BOOLEAN
    PROVE  Checked(rewrote).status \in [Nodes -> Statuses] /\ Checked(rewrote).accepted \subseteq Artifacts
<1>1. status \in [Nodes -> Statuses] /\ accepted \in SUBSET Artifacts
  BY DEF TypeOK
<1> QED BY <1>1, InvalidateTypes DEF Checked

LEMMA ProducersIn == ASSUME NEW n \in Nodes PROVE Producers(n) \in SUBSET Nodes
BY PlanAssumption DEF Producers

LEMMA GateTypes ==
    ASSUME TypeOK, NEW passed \in BOOLEAN, NEW rewrote \in BOOLEAN, Gate(passed, rewrote)
    PROVE  TypeOK'
<1> DEFINE checked == Checked(rewrote)
           rejected == Repair(checked.status, checked.accepted, gating, Producers(gating))
<1>1. gating \in Nodes
  BY DEF Gate, TypeOK
<1>2. checked.status \in [Nodes -> Statuses] /\ checked.accepted \in SUBSET Artifacts
  BY CheckedTypes
<1>3. rejected.status \in [Nodes -> Statuses] /\ rejected.accepted \subseteq Artifacts
  <2> HIDE DEF checked
  <2> QED BY <1>1, <1>2, RepairTypes, ProducersIn
<1>4. \/ status' = checked.status /\ accepted' = checked.accepted /\ bound' = bound
      \/ /\ status' = [checked.status EXCEPT ![gating] = "succeeded"]
         /\ accepted' = checked.accepted \cup {gating}
         /\ bound' = [bound EXCEPT ![gating] = "judged"]
      \/ status' = rejected.status /\ accepted' = rejected.accepted /\ bound' = bound
  BY DEF Gate
<1>5. /\ status' \in [Nodes -> Statuses] /\ accepted' \subseteq Artifacts
      /\ bound' \in [Artifacts -> {"none", "given", "unjudged", "judged"}]
  <2> HIDE DEF checked, rejected
  <2> QED BY <1>1, <1>2, <1>3, <1>4 DEF TypeOK, Statuses, Artifacts
<1>6. gates' \in [Nodes -> {"none", "passed", "failed"}] /\ attested' \subseteq attested
  BY DEF Gate, TypeOK
<1>7. onDisk' \in [Artifacts -> {"same", "edited", "leftover", "absent"}]
  BY DEF Gate, TypeOK
<1>8. gating' = NoNode /\ UNCHANGED <<used, tried, decision, produced, phase, offered, executing, queue, progress,
                                       doomed, edits>>
  BY DEF Gate
<1> QED BY <1>5, <1>6, <1>7, <1>8 DEF TypeOK

LEMMA GateThrowsTypes ==
    ASSUME TypeOK, NEW rewrote \in BOOLEAN, GateThrows(rewrote)
    PROVE  TypeOK'
<1>1. \/ status' = Checked(rewrote).status /\ accepted' = Checked(rewrote).accepted
      \/ status' = status /\ accepted' = accepted
  BY DEF GateThrows
<1>2. status' \in [Nodes -> Statuses] /\ accepted' \subseteq Artifacts
  BY <1>1, CheckedTypes DEF TypeOK
<1>3. onDisk' \in [Artifacts -> {"same", "edited", "leftover", "absent"}] /\ attested' \subseteq attested
  BY DEF GateThrows, TypeOK
<1>4. /\ gating' = NoNode /\ doomed' = TRUE
      /\ UNCHANGED <<used, tried, decision, produced, bound, gates, phase, offered, executing, queue, progress, edits>>
  BY DEF GateThrows
<1> QED BY <1>2, <1>3, <1>4 DEF TypeOK

LEMMA ReviewTypes ==
    ASSUME TypeOK, NEW n \in Nodes,
           PassOver(n) \/ EvidenceChanged(n) \/ Reject(n) \/ Misdirect(n) \/ Accept(n) \/ OperatorAccepts(n)
    PROVE  TypeOK'
<1>1. CASE PassOver(n)
  BY <1>1 DEF PassOver, Reviewing, TypeOK, run
<1> DEFINE Outcome(st, acc) == /\ Reviewing(n)
                               /\ status' = st /\ accepted' = acc /\ progress' \in BOOLEAN
                               /\ UNCHANGED <<used, tried, decision, produced, bound, gates, attested, onDisk,
                                              phase, offered, executing, gating, doomed, edits>>
<1>2. ASSUME NEW st \in [Nodes -> Statuses], NEW acc \in SUBSET Artifacts, Outcome(st, acc)
      PROVE  TypeOK'
  BY <1>2 DEF Reviewing, TypeOK
<1>3. Rejected(n) \in [Nodes -> Statuses] /\ status \in [Nodes -> Statuses] /\ accepted \in SUBSET Artifacts
  BY DEF Rejected, TypeOK, Statuses
<1>4. ASSUME NEW st \in [Nodes -> Statuses], NEW targets \in SUBSET Nodes,
             Reviewing(n), ReviewChanges(Repair(st, accepted, n, targets))
      PROVE  TypeOK'
  <2> DEFINE repair == Repair(st, accepted, n, targets)
  <2>1. repair.status \in [Nodes -> Statuses] /\ repair.accepted \in SUBSET Artifacts
    BY <1>3, RepairTypes
  <2>2. Outcome(repair.status, repair.accepted)
    <3> HIDE DEF repair
    <3> QED BY <1>4 DEF ReviewChanges, repair, TypeOK
  <2> HIDE DEF repair, Outcome
  <2> QED BY <1>2, <2>1, <2>2
<1>5. CASE EvidenceChanged(n)
  BY <1>3, <1>4, <1>5, ProducersIn DEF EvidenceChanged
<1>6. CASE Reject(n)
  <2>1. PICK targets \in SUBSET Producers(n) : ReviewChanges(Repair(Rejected(n), accepted, n, targets))
    BY <1>6 DEF Reject
  <2>2. targets \in SUBSET Nodes /\ Reviewing(n)
    BY <1>6, ProducersIn DEF Reject
  <2> QED BY <1>3, <1>4, <2>1, <2>2
<1>7. CASE Misdirect(n)
  <2>1. Outcome(Rejected(n), accepted)
    BY <1>7 DEF Misdirect, ReviewChanges, TypeOK
  <2> QED BY <1>2, <1>3, <2>1
<1>8. CASE Accept(n) \/ OperatorAccepts(n)
  <2>1. n \in Reviewed /\ AcceptVerification(n)
    BY <1>8 DEF Accept, OperatorAccepts, AcceptVerification, PendingReviews
  <2>2. /\ status' \in [Nodes -> Statuses] /\ accepted' \subseteq Artifacts /\ attested' \subseteq Reviewed
        /\ bound' \in [Artifacts -> {"none", "given", "unjudged", "judged"}]
    BY <2>1 DEF AcceptVerification, TypeOK, Statuses, Artifacts
  <2>3. UNCHANGED <<used, tried, decision, produced, gates, onDisk, offered, executing, gating, doomed, edits>>
    BY <2>1 DEF AcceptVerification
  <2>4. phase' = phase /\ progress' \in BOOLEAN /\ queue' \subseteq queue
    BY <1>8 DEF Accept, OperatorAccepts, Reviewing, TypeOK
  <2> QED BY <2>2, <2>3, <2>4 DEF TypeOK
<1> QED BY <1>1, <1>5, <1>6, <1>7, <1>8

LEMMA PhaseTypes ==
    ASSUME TypeOK, BatchesDone \/ EndSweep \/ Halt \/ End \/ Abort
    PROVE  TypeOK'
<1>1. CASE BatchesDone \/ EndSweep \/ Halt
  BY <1>1 DEF BatchesDone, EndSweep, Halt, TypeOK, run
<1>2. CASE End
  <2>1. status' \in [Nodes -> Statuses]
    BY <1>2, ClassifiedTypes DEF End, TypeOK
  <2> QED BY <1>2, <2>1 DEF End, Closed, TypeOK
<1>3. CASE Abort
  BY <1>3 DEF Abort, Closed, TypeOK, run
<1> QED BY <1>1, <1>2, <1>3

LEMMA OutsideTypes ==
    ASSUME TypeOK,
           \/ \E n \in Nodes : \E verdict \in {"approved", "rejected"} : Decide(n, verdict)
           \/ \E a \in Editable : Edit(a)
    PROVE  TypeOK'
<1>1. ASSUME NEW n \in Nodes, NEW verdict \in {"approved", "rejected"}, Decide(n, verdict)
      PROVE  TypeOK'
  <2>1. status' \in [Nodes -> Statuses] /\ decision' \in [Nodes -> {"pending", "approved", "rejected"}]
    BY <1>1 DEF Decide, Decided, TypeOK, Statuses
  <2> QED BY <1>1, <2>1 DEF Decide, Decided, TypeOK, session
<1>2. ASSUME NEW a \in Editable, Edit(a)
      PROVE  TypeOK'
  BY <1>2, PlanAssumption DEF Edit, TypeOK, session
<1> QED BY <1>1, <1>2

\* Every step keeps every type.
LEMMA StepTypes == TypeOK /\ [Next]_vars => TypeOK'
<1> SUFFICES ASSUME TypeOK, [Next]_vars PROVE TypeOK'
  OBVIOUS
<1>1. CASE Open
  BY <1>1, OpenTypes
<1>2. CASE Work
  <2>1. CASE ComputeFrontier \/ StartBatch
    BY <2>1, FrontierTypes, StartBatchTypes
  <2>2. CASE BatchesDone \/ EndSweep \/ End \/ Abort
    BY <2>2, PhaseTypes
  <2>3. ASSUME NEW rewrote \in BOOLEAN, GateThrows(rewrote) \/ \E passed \in BOOLEAN : Gate(passed, rewrote)
        PROVE  TypeOK'
    BY <2>3, GateTypes, GateThrowsTypes
  <2>4. ASSUME NEW n \in Nodes, DropReview(n) \/ Complete(n) \/ Fail(n) \/ Throw(n)
        PROVE  TypeOK'
    BY <2>4, DropReviewTypes, CompleteTypes, FailTypes
  <2>5. ASSUME NEW n \in Nodes, PassOver(n) \/ Accept(n) \/ EvidenceChanged(n) \/ Reject(n) \/ Misdirect(n)
        PROVE  TypeOK'
    BY <2>5, ReviewTypes
  <2> QED BY <1>2, <2>1, <2>2, <2>3, <2>4, <2>5 DEF Work
<1>3. CASE Halt
  BY <1>3, PhaseTypes
<1>4. CASE Crash
  BY <1>4, CrashTypes
<1>5. ASSUME NEW n \in Nodes, OperatorAccepts(n)
      PROVE  TypeOK'
  BY <1>5, ReviewTypes
<1>6. CASE \/ \E n \in Nodes : \E verdict \in {"approved", "rejected"} : Decide(n, verdict)
           \/ \E a \in Editable : Edit(a)
  BY <1>6, OutsideTypes
<1>7. CASE UNCHANGED vars
  BY <1>7 DEF vars, run, session, TypeOK
<1> QED BY <1>1, <1>2, <1>3, <1>4, <1>5, <1>6, <1>7 DEF Next

\* The run, its artifacts and the session keep their types.
THEOREM TypeCorrect == Spec => []TypeOK
<1>1. Init => TypeOK
  BY InitTypes
<1>2. TypeOK /\ [Next]_vars => TypeOK'
  BY StepTypes
<1> QED BY <1>1, <1>2, PTL DEF Spec

-----------------------------------------------------------------------------
\* Attempts that must not be repeated blindly.

\* Such a node is untouched in this cycle, or was attempted once and is at
\* rest: on record, not offered, in no status a frontier would take it from.
Spent(n) == used[n] = 1 /\ n \in tried /\ n \notin offered /\ AtRest(status[n])
OneShotInv == \A n \in Nodes \ Idempotent : used[n] = 0 \/ Spent(n)

\* Steps that begin nothing have only to leave at rest what is at rest.
LEMMA QuietStep ==
    ASSUME OneShotInv, used' = used, tried' = tried, offered' \subseteq offered,
           \A m \in Nodes : NeedsReadback(m) /\ m \in tried /\ AtRest(status[m]) => AtRest(status'[m])
    PROVE  OneShotInv'
<1> SUFFICES ASSUME NEW m \in Nodes \ Idempotent, used[m] # 0 PROVE Spent(m)'
  BY DEF OneShotInv
<1>1. Spent(m) /\ NeedsReadback(m)
  BY DEF OneShotInv, NeedsReadback
<1>2. AtRest(status'[m])
  BY <1>1 DEF Spent
<1> QED BY <1>1, <1>2 DEF Spent, AtRest

LEMMA OpenOnce == ASSUME TypeOK, OneShotInv, Open PROVE OneShotInv'
<1>1. PICK expired \in SUBSET {n \in Nodes : status[n] = "running"},
           due \in SUBSET {n \in Recurring : status[n] = "succeeded"} :
        LET orphaned == [n \in Nodes |-> IF n \notin expired THEN status[n]
                                         ELSE IF n \in Idempotent THEN "pending" ELSE "needs_readback"]
            changed == {a \in Found \cap accepted : onDisk[a] # "same"}
            fallen == Invalidate(orphaned, accepted \cup Found, changed, {})
            recur == {n \in due : fallen.status[n] = "succeeded"}
        IN  /\ status' = [n \in Nodes |-> IF n \in recur THEN "stale" ELSE fallen.status[n]]
            /\ used' = [n \in Nodes |-> IF n \in recur THEN 0 ELSE used[n]]
  BY ZenonT(30) DEF Open
<1> DEFINE orphaned == [n \in Nodes |-> IF n \notin expired THEN status[n]
                                        ELSE IF n \in Idempotent THEN "pending" ELSE "needs_readback"]
           fallen == Invalidate(orphaned, accepted \cup Found, {a \in Found \cap accepted : onDisk[a] # "same"}, {})
           recur == {n \in due : fallen.status[n] = "succeeded"}
<1>2. tried' = tried /\ offered' = offered
  BY DEF Open
<1> SUFFICES ASSUME NEW m \in Nodes \ Idempotent, m \notin recur, used[m] # 0 PROVE Spent(m)'
  BY <1>1 DEF OneShotInv
<1>3. Spent(m) /\ NeedsReadback(m)
  BY DEF OneShotInv, NeedsReadback
<1>4. AtRest(orphaned[m])
  BY <1>3 DEF Spent, AtRest
<1>5. AtRest(fallen.status[m])
  <2> HIDE DEF orphaned
  <2> QED BY <1>3, <1>4, InvalidateRests DEF Spent
<1>6. status'[m] = fallen.status[m] /\ used'[m] = used[m]
  BY <1>1
<1> HIDE DEF fallen
<1> QED BY <1>2, <1>3, <1>5, <1>6 DEF Spent, AtRest

LEMMA DropReviewOnce == ASSUME TypeOK, OneShotInv, NEW n \in Nodes, DropReview(n) PROVE OneShotInv'
<1> DEFINE reopened == [status EXCEPT ![n] = Reopened(n)]
           fallen == Invalidate(reopened, accepted \ {n}, {n}, ReviewOf[n])
<1>1. status' = fallen.status /\ used' = used /\ tried' = tried /\ offered' = offered
  BY DEF DropReview, session
<1>2. ASSUME NEW m \in Nodes, NeedsReadback(m), m \in tried, AtRest(status[m])
      PROVE  AtRest(status'[m])
  <2>1. AtRest(reopened[m])
    BY <1>2 DEF TypeOK, Reopened, AtRest
  <2>2. AtRest(fallen.status[m])
    <3> HIDE DEF reopened
    <3> QED BY <1>2, <2>1, InvalidateRests
  <2> QED BY <1>1, <2>2
<1> QED BY <1>1, <1>2, QuietStep

\* computeFrontier touches and offers only what is pending or stale.
LEMMA FrontierOnce == ASSUME TypeOK, OneShotInv, ComputeFrontier PROVE OneShotInv'
<1>1. used' = used /\ tried' = tried
  BY DEF ComputeFrontier
<1>2. ASSUME NEW m \in Nodes, AtRest(status[m])
      PROVE  AtRest(status'[m]) /\ m \notin offered'
  BY <1>2 DEF ComputeFrontier, Classified, Frontier, ReadyFor, Eligible, AtRest
<1> SUFFICES ASSUME NEW m \in Nodes \ Idempotent, used[m] # 0 PROVE Spent(m)'
  BY <1>1 DEF OneShotInv
<1>3. Spent(m)
  BY DEF OneShotInv
<1> QED BY <1>1, <1>2, <1>3 DEF Spent, AtRest

\* What begins was offered, hence untouched.
LEMMA StartBatchOnce == ASSUME TypeOK, OneShotInv, StartBatch PROVE OneShotInv'
<1>1. PICK begun : /\ begun \subseteq Batch
                   /\ tried' = tried \cup begun
                   /\ used' = [n \in Nodes |-> IF n \in begun THEN used[n] + 1 ELSE used[n]]
                   /\ \A n \in Nodes : n \in begun => status'[n] = "running"
                   /\ \A n \in Nodes \ Batch : status'[n] = status[n]
  BY DEF StartBatch, DispatchBatch
<1>2. Batch \subseteq offered /\ offered' = offered \ Batch
  BY DEF Batch, StartBatch, DispatchBatch
<1> SUFFICES ASSUME NEW m \in Nodes \ Idempotent, used'[m] # 0 PROVE Spent(m)'
  BY DEF OneShotInv
<1>3. CASE m \in begun
  <2>1. used[m] = 0
    BY <1>1, <1>2, <1>3 DEF OneShotInv, Spent
  <2>2. used'[m] = 1 /\ status'[m] = "running"
    BY <1>1, <1>3, <2>1
  <2> QED BY <1>1, <1>2, <1>3, <2>2 DEF Spent, AtRest
<1>4. CASE m \notin begun
  <2>1. Spent(m) /\ used'[m] = used[m]
    BY <1>1, <1>4 DEF OneShotInv
  <2>2. status'[m] = status[m]
    BY <1>1, <1>2, <2>1 DEF Spent
  <2> QED BY <1>1, <1>2, <2>1, <2>2 DEF Spent, AtRest
<1> QED BY <1>3, <1>4

LEMMA AttemptOnce ==
    ASSUME TypeOK, OneShotInv, NEW n \in Nodes, Complete(n) \/ Fail(n) \/ Throw(n)
    PROVE  OneShotInv'
<1>1. used' = used /\ tried' = tried /\ offered' = offered
  BY DEF Complete, Fail, Throw
<1>2. CASE Complete(n)
  <2> DEFINE landed == [status EXCEPT ![n] = IF Plain(n) THEN "succeeded" ELSE "unverified"]
             kept == IF Plain(n) THEN accepted \cup {n} ELSE accepted \ {n}
  <2>1. PICK changed : status' = Invalidate(landed, kept, changed, {}).status
    BY <1>2 DEF Complete
  <2>2. ASSUME NEW m \in Nodes, NeedsReadback(m), m \in tried, AtRest(status[m])
        PROVE  AtRest(status'[m])
    <3>1. AtRest(landed[m])
      BY <2>2 DEF TypeOK, AtRest
    <3> HIDE DEF landed, kept
    <3> QED BY <2>1, <2>2, <3>1, InvalidateRests
  <2> QED BY <1>1, <2>2, QuietStep
<1>3. CASE Fail(n)
  <2>1. \A m \in Nodes : AtRest(status[m]) => AtRest(status'[m])
    BY <1>3 DEF Fail, TypeOK, AtRest
  <2> QED BY <1>1, <2>1, QuietStep
<1>4. CASE Throw(n)
  <2>1. status' = status
    BY <1>4 DEF Throw
  <2> QED BY <1>1, <2>1, QuietStep
<1> QED BY <1>2, <1>3, <1>4

LEMMA GateOnce ==
    ASSUME TypeOK, OneShotInv, NEW rewrote \in BOOLEAN,
           GateThrows(rewrote) \/ \E passed \in BOOLEAN : Gate(passed, rewrote)
    PROVE  OneShotInv'
<1> DEFINE checked == Checked(rewrote)
           rejected == Repair(checked.status, checked.accepted, gating, Producers(gating))
<1>1. used' = used /\ tried' = tried /\ offered' = offered
  BY DEF Gate, GateThrows
<1>2. checked.status \in [Nodes -> Statuses]
  BY CheckedTypes
<1>3. \/ status' \in {status, checked.status}
      \/ gating \in Nodes /\ status' \in {[checked.status EXCEPT ![gating] = "succeeded"], rejected.status}
  BY DEF Gate, GateThrows, TypeOK
<1>4. ASSUME NEW m \in Nodes, NeedsReadback(m), m \in tried, AtRest(status[m])
      PROVE  AtRest(status'[m])
  <2>1. AtRest(checked.status[m])
    BY <1>4, InvalidateRests DEF Checked
  <2>2. AtRest([checked.status EXCEPT ![gating] = "succeeded"][m])
    <3> HIDE DEF checked
    <3> QED BY <1>2, <2>1 DEF AtRest
  <2>3. ASSUME gating \in Nodes PROVE AtRest(rejected.status[m])
    <3> HIDE DEF checked
    <3>1. DOMAIN checked.status = Nodes /\ checked.status = [k \in Nodes |-> checked.status[k]]
      BY <1>2
    <3>2. Producers(gating) \in SUBSET Nodes
      BY <2>3, ProducersIn
    <3> QED BY <1>4, <2>1, <2>3, <3>1, <3>2, RepairRests
  <2> HIDE DEF checked, rejected
  <2> QED BY <1>3, <1>4, <2>1, <2>2, <2>3
<1> QED BY <1>1, <1>4, QuietStep

LEMMA ReviewOnce ==
    ASSUME TypeOK, OneShotInv, NEW n \in Nodes,
           PassOver(n) \/ EvidenceChanged(n) \/ Reject(n) \/ Misdirect(n) \/ Accept(n) \/ OperatorAccepts(n)
    PROVE  OneShotInv'
<1>1. used' = used /\ tried' = tried /\ offered' = offered
  BY DEF PassOver, EvidenceChanged, Reject, Misdirect, Accept, OperatorAccepts, AcceptVerification, ReviewChanges, run
<1>2. \A m \in Nodes : AtRest(status[m]) => AtRest(Rejected(n)[m])
  BY DEF Rejected, TypeOK, AtRest
<1>3. Rejected(n) \in [Nodes -> Statuses] /\ status \in [Nodes -> Statuses]
  BY DEF Rejected, TypeOK, Statuses
<1>4. ASSUME NEW st \in {status, Rejected(n)}, NEW targets \in SUBSET Nodes,
             NEW m \in Nodes, NeedsReadback(m), m \in tried, AtRest(status[m])
      PROVE  AtRest(Repair(st, accepted, n, targets).status[m])
  <2>1. DOMAIN st = Nodes /\ st = [k \in Nodes |-> st[k]]
    BY <1>3
  <2>2. AtRest(st[m])
    BY <1>2, <1>4
  <2> QED BY <1>4, <2>1, <2>2, RepairRests
<1>5. CASE EvidenceChanged(n)
  <2>1. status' = Repair(status, accepted, n, Producers(n)).status
    BY <1>5 DEF EvidenceChanged, ReviewChanges
  <2> QED BY <1>1, <1>4, <2>1, ProducersIn, QuietStep
<1>6. CASE Reject(n)
  <2>1. PICK targets \in SUBSET Producers(n) : status' = Repair(Rejected(n), accepted, n, targets).status
    BY <1>6 DEF Reject, ReviewChanges
  <2>2. targets \in SUBSET Nodes
    BY ProducersIn
  <2> QED BY <1>1, <1>4, <2>1, <2>2, QuietStep
<1>7. CASE PassOver(n) \/ Misdirect(n) \/ Accept(n) \/ OperatorAccepts(n)
  <2>1. status' \in {status, Rejected(n), [status EXCEPT ![n] = "succeeded"]}
    BY <1>7 DEF PassOver, Misdirect, ReviewChanges, Accept, OperatorAccepts, AcceptVerification, run
  <2>2. \A m \in Nodes : AtRest(status[m]) => AtRest([status EXCEPT ![n] = "succeeded"][m])
    BY DEF TypeOK, AtRest
  <2> QED BY <1>1, <1>2, <2>1, <2>2, QuietStep
<1> QED BY <1>5, <1>6, <1>7

LEMMA OtherOnce ==
    ASSUME TypeOK, OneShotInv,
           \/ BatchesDone \/ EndSweep \/ Halt \/ End \/ Abort \/ Crash \/ UNCHANGED vars
           \/ \E n \in Nodes : \E verdict \in {"approved", "rejected"} : Decide(n, verdict)
           \/ \E a \in Editable : Edit(a)
    PROVE  OneShotInv'
<1>1. used' = used /\ tried' = tried /\ (offered' = offered \/ offered' = {})
  BY DEF BatchesDone, EndSweep, Halt, End, Abort, Crash, Closed, Decide, Decided, Edit, vars, run, session
<1>2. CASE End
  <2>1. \A m \in Nodes : AtRest(status[m]) => status'[m] = status[m]
    BY <1>2 DEF End, Classified, ReadyFor, Eligible, AtRest
  <2> QED BY <1>1, <2>1, QuietStep
<1>3. CASE \E n \in Nodes : \E verdict \in {"approved", "rejected"} : Decide(n, verdict)
  <2>1. \A m \in Nodes : AtRest(status[m]) => status'[m] = status[m]
    BY <1>3 DEF Decide, Decided, TypeOK, AtRest
  <2> QED BY <1>1, <2>1, QuietStep
<1>4. CASE BatchesDone \/ EndSweep \/ Halt \/ Abort \/ Crash \/ UNCHANGED vars \/ \E a \in Editable : Edit(a)
  <2>1. status' = status
    BY <1>4 DEF BatchesDone, EndSweep, Halt, Abort, Crash, Edit, vars, run
  <2> QED BY <1>1, <2>1, QuietStep
<1> QED BY <1>2, <1>3, <1>4

LEMMA StepOnce == TypeOK /\ OneShotInv /\ [Next]_vars => OneShotInv'
<1> SUFFICES ASSUME TypeOK, OneShotInv, [Next]_vars PROVE OneShotInv'
  OBVIOUS
<1>1. CASE Open
  BY <1>1, OpenOnce
<1>2. CASE Work
  <2>1. CASE ComputeFrontier \/ StartBatch
    BY <2>1, FrontierOnce, StartBatchOnce
  <2>2. CASE BatchesDone \/ EndSweep \/ End \/ Abort
    BY <2>2, OtherOnce
  <2>3. ASSUME NEW rewrote \in BOOLEAN, GateThrows(rewrote) \/ \E passed \in BOOLEAN : Gate(passed, rewrote)
        PROVE  OneShotInv'
    BY <2>3, GateOnce
  <2>4. ASSUME NEW n \in Nodes, DropReview(n) \/ Complete(n) \/ Fail(n) \/ Throw(n)
        PROVE  OneShotInv'
    BY <2>4, DropReviewOnce, AttemptOnce
  <2>5. ASSUME NEW n \in Nodes, PassOver(n) \/ Accept(n) \/ EvidenceChanged(n) \/ Reject(n) \/ Misdirect(n)
        PROVE  OneShotInv'
    BY <2>5, ReviewOnce
  <2> QED BY <1>2, <2>1, <2>2, <2>3, <2>4, <2>5 DEF Work
<1>3. ASSUME NEW n \in Nodes, OperatorAccepts(n)
      PROVE  OneShotInv'
  BY <1>3, ReviewOnce
<1>4. CASE \/ Halt \/ Crash \/ UNCHANGED vars
           \/ \E n \in Nodes : \E verdict \in {"approved", "rejected"} : Decide(n, verdict)
           \/ \E a \in Editable : Edit(a)
  BY <1>4, OtherOnce
<1> QED BY <1>1, <1>2, <1>3, <1>4 DEF Next

\* Whatever is rejected, edited, refused, retried or killed, work that must not
\* be repeated blindly is begun at most once in a cycle (beginAttempt,
\* detectOrphans, invalidateDescendants and requestVerificationRepair together).
THEOREM AttemptedOnce == Spec => []OneShot
<1>1. Init => OneShotInv
  BY DEF Init, OneShotInv
<1>2. OneShotInv => OneShot
  BY DEF OneShotInv, OneShot, Spent
<1> QED BY <1>1, <1>2, InitTypes, StepTypes, StepOnce, PTL DEF Spec

-----------------------------------------------------------------------------
\* Approvals.

\* Outside the dispatch nothing executes, and decisions are made between sessions.
ApprovedInv == ApprovedWork /\ (phase # "dispatch" => executing = {})

LEMMA StepApproved == TypeOK /\ ApprovedInv /\ [Next]_vars => ApprovedInv'
<1> SUFFICES ASSUME TypeOK, ApprovedInv, [Next]_vars PROVE ApprovedInv'
  OBVIOUS
<1>1. CASE StartBatch
  <2>1. executing' \subseteq {n \in Batch : decision[n] = "approved"} /\ decision' = decision /\ phase' = "dispatch"
    BY <1>1 DEF StartBatch, DispatchBatch
  <2> QED BY <2>1 DEF ApprovedInv, ApprovedWork
<1>2. ASSUME decision' = decision, executing' \subseteq executing, phase' = phase \/ executing' = {}
      PROVE  ApprovedInv'
  BY <1>2 DEF ApprovedInv, ApprovedWork
<1>3. CASE Open \/ ComputeFrontier \/ EndSweep \/ End
  <2>1. executing' = executing /\ executing = {} /\ decision' = decision
    BY <1>3 DEF Open, ComputeFrontier, EndSweep, End, Closed, ApprovedInv, run
  <2> QED BY <1>2, <2>1
<1>4. CASE BatchesDone \/ Halt \/ Abort \/ Crash \/ UNCHANGED vars \/ \E a \in Editable : Edit(a)
  BY <1>2, <1>4 DEF BatchesDone, Halt, Abort, Crash, Closed, Edit, Idle, vars, run, session
<1>5. ASSUME NEW rewrote \in BOOLEAN, GateThrows(rewrote) \/ \E passed \in BOOLEAN : Gate(passed, rewrote)
      PROVE  ApprovedInv'
  BY <1>2, <1>5 DEF Gate, GateThrows
<1>6. ASSUME NEW n \in Nodes, DropReview(n) \/ Complete(n) \/ Fail(n) \/ Throw(n)
      PROVE  ApprovedInv'
  BY <1>2, <1>6 DEF DropReview, Complete, Fail, Throw, session
<1>7. ASSUME NEW n \in Nodes,
             \/ PassOver(n) \/ Accept(n) \/ EvidenceChanged(n) \/ Reject(n) \/ Misdirect(n)
             \/ OperatorAccepts(n)
      PROVE  ApprovedInv'
  BY <1>2, <1>7 DEF PassOver, Accept, OperatorAccepts, AcceptVerification, EvidenceChanged, Reject, Misdirect,
                    ReviewChanges, run
<1>8. ASSUME NEW n \in Nodes, NEW verdict \in {"approved", "rejected"}, Decide(n, verdict)
      PROVE  ApprovedInv'
  <2>1. executing' = {}
    BY <1>8 DEF Decide, Decided, ApprovedInv, session
  <2> QED BY <2>1 DEF ApprovedInv, ApprovedWork
<1> QED BY <1>1, <1>3, <1>4, <1>5, <1>6, <1>7, <1>8 DEF Next, Work

\* What executes is approved, whenever decisions are made (approve.ts under the
\* session's lock, the dispatch seam of run.ts asking again).
THEOREM ApprovedThroughout == Spec => []ApprovedWork
<1>1. Init => ApprovedInv
  BY DEF Init, ApprovedInv, ApprovedWork
<1>2. ApprovedInv => ApprovedWork
  BY DEF ApprovedInv
<1> QED BY <1>1, <1>2, InitTypes, StepTypes, StepApproved, PTL DEF Spec

-----------------------------------------------------------------------------
\* Judgments.

\* What waits for a judgment has its output on record.
JudgedInv == SucceededJudged /\ \A n \in Nodes : status[n] = "unverified" => n \in produced

Landed == {"succeeded", "unverified"}

\* An audit is itself judged in a fresh context (compile.ts:343).
AuditsReviewed == \A n \in Nodes : ReviewOf[n] # {} => n \in Reviewed

\* A node that has landed after a step had landed before it and kept what it
\* had, or lands in this step with an output that is what was judged.
StaysLanded(n) == /\ status'[n] = status[n]
                  /\ n \in accepted => n \in accepted'
                  /\ n \in produced => bound'[n] = bound[n]
Lands(n) == /\ n \in produced'
            /\ status'[n] = "succeeded" =>
                 /\ n \in accepted' /\ bound'[n] = "judged"
                 /\ AuditsReviewed => \A a \in Subjects(n) : onDisk'[a] = "same" /\ bound'[a] # "none"
Settles == /\ produced \subseteq produced'
           /\ \A n \in Nodes : status'[n] \in Landed => StaysLanded(n) \/ Lands(n)

LEMMA NodesAreArtifacts == \A n \in Nodes : n \in Artifacts
BY DEF Artifacts

\* invalidateDescendants and requestVerificationRepair let nothing land.
LEMMA InvalidateLands ==
    ASSUME NEW st, NEW acc, NEW changed, NEW spared, NEW m \in Nodes,
           Invalidate(st, acc, changed, spared).status[m] \in Landed
    PROVE  /\ st[m] = Invalidate(st, acc, changed, spared).status[m]
           /\ m \in acc => m \in Invalidate(st, acc, changed, spared).accepted
<1>1. /\ Invalidate(st, acc, changed, spared).status[m] = IF m \in Hit(st, changed, spared) THEN Reopened(m) ELSE st[m]
      /\ Invalidate(st, acc, changed, spared).accepted = acc \ Hit(st, changed, spared)
  BY DEF Invalidate
<1>2. Reopened(m) \notin Landed
  BY DEF Reopened, Landed
<1> QED BY <1>1, <1>2

LEMMA RepairLands ==
    ASSUME NEW st, NEW acc, NEW n \in Nodes, NEW targets \in SUBSET Nodes,
           DOMAIN st = Nodes, st = [m \in Nodes |-> st[m]],
           NEW m \in Nodes, Repair(st, acc, n, targets).status[m] \in Landed
    PROVE  /\ st[m] = Repair(st, acc, n, targets).status[m]
           /\ m \in acc => m \in Repair(st, acc, n, targets).accepted
<1> DEFINE fallen == Invalidate(st, acc \ targets, targets, {})
           Target(t) == IF NeedsReadback(t) THEN "needs_readback"
                        ELSE IF Exhausted(t) THEN "blocked" ELSE "stale"
           repaired == [k \in Nodes |-> IF k \in targets THEN Target(k) ELSE fallen.status[k]]
           reopened == {t \in targets : Target(t) = "stale"}
           repair == Repair(st, acc, n, targets)
<1>1. CASE Exhausted(n)
  <2>1. repair.status = [st EXCEPT ![n] = "blocked"] /\ repair.accepted = acc
    BY <1>1 DEF Repair
  <2> HIDE DEF repair
  <2>2. repair.status[m] \in Landed
    BY DEF repair
  <2>3. m # n
    BY <2>1, <2>2 DEF Landed
  <2>4. st[m] = repair.status[m] /\ (m \in acc => m \in repair.accepted)
    BY <2>1, <2>3
  <2> QED BY <2>4 DEF repair
<1>2. CASE ~Exhausted(n)
  <2>1. /\ repair.accepted = fallen.accepted
        /\ repair.status = repaired \/ repair.status = [repaired EXCEPT ![n] = "blocked"]
    <3> HIDE DEF fallen
    <3> QED BY <1>2 DEF Repair, fallen
  <2> HIDE DEF repair, fallen
  <2>2. repair.status[m] \in Landed
    BY DEF repair
  <2>3. repair.status[m] = repaired[m]
    BY <2>1, <2>2 DEF Landed
  <2>4. m \notin targets /\ repaired[m] = fallen.status[m]
    BY <2>2, <2>3 DEF Landed
  <2>5. st[m] = fallen.status[m] /\ (m \in acc \ targets => m \in fallen.accepted)
    <3>1. fallen.status[m] \in Landed
      BY <2>2, <2>3, <2>4
    <3> QED BY <3>1, InvalidateLands DEF fallen
  <2>6. st[m] = repair.status[m] /\ (m \in acc => m \in repair.accepted)
    BY <2>1, <2>3, <2>4, <2>5
  <2> QED BY <2>6 DEF repair
<1> QED BY <1>1, <1>2

\* Files taken in at a session's start have no producer.
LEMMA OpenSettles == ASSUME TypeOK, JudgedInv, Open PROVE Settles
<1>1. PICK expired \in SUBSET {n \in Nodes : status[n] = "running"},
           due \in SUBSET {n \in Recurring : status[n] = "succeeded"} :
        LET orphaned == [n \in Nodes |-> IF n \notin expired THEN status[n]
                                         ELSE IF n \in Idempotent THEN "pending" ELSE "needs_readback"]
            changed == {a \in Found \cap accepted : onDisk[a] # "same"}
            fallen == Invalidate(orphaned, accepted \cup Found, changed, {})
            recur == {n \in due : fallen.status[n] = "succeeded"}
        IN  /\ status' = [n \in Nodes |-> IF n \in recur THEN "stale" ELSE fallen.status[n]]
            /\ accepted' = fallen.accepted
            /\ bound' = [a \in Artifacts |->
                           CASE a \notin Found -> bound[a]
                             [] a \in Found /\ onDisk[a] = "same" -> bound[a]
                             [] a \in Found /\ onDisk[a] = "leftover" -> "unjudged"
                             [] OTHER -> "given"]
  BY ZenonT(30) DEF Open
<1> DEFINE orphaned == [n \in Nodes |-> IF n \notin expired THEN status[n]
                                        ELSE IF n \in Idempotent THEN "pending" ELSE "needs_readback"]
           fallen == Invalidate(orphaned, accepted \cup Found, {a \in Found \cap accepted : onDisk[a] # "same"}, {})
<1>2. produced' = produced
  BY DEF Open
<1>3. ASSUME NEW n \in Nodes, status'[n] \in Landed PROVE StaysLanded(n)
  <2>1. status'[n] = fallen.status[n] /\ accepted' = fallen.accepted
    BY <1>1, <1>3 DEF Landed
  <2>2. orphaned[n] = fallen.status[n] /\ (n \in accepted \cup Found => n \in fallen.accepted)
    <3> HIDE DEF orphaned
    <3>1. fallen.status[n] \in Landed
      BY <1>3, <2>1
    <3> QED BY <3>1, InvalidateLands
  <2> HIDE DEF fallen
  <2>3. orphaned[n] = status[n]
    BY <1>3, <2>1, <2>2 DEF Landed
  <2>4. n \in produced => bound'[n] = bound[n]
    <3>1. n \in produced => n \notin Found
      BY DEF Found
    <3> QED BY <1>1, <3>1, NodesAreArtifacts
  <2> QED BY <2>1, <2>2, <2>3, <2>4 DEF StaysLanded
<1> QED BY <1>2, <1>3 DEF Settles

LEMMA DropReviewSettles == ASSUME TypeOK, NEW n \in Nodes, DropReview(n) PROVE Settles
<1> DEFINE reopened == [status EXCEPT ![n] = Reopened(n)]
           fallen == Invalidate(reopened, accepted \ {n}, {n}, ReviewOf[n])
<1>1. status' = fallen.status /\ accepted' = fallen.accepted /\ produced' = produced /\ bound' = bound
  BY DEF DropReview
<1>2. ASSUME NEW m \in Nodes, status'[m] \in Landed PROVE StaysLanded(m)
  <2>1. reopened[m] = fallen.status[m] /\ (m \in accepted \ {n} => m \in fallen.accepted)
    <3> HIDE DEF reopened
    <3> QED BY <1>1, <1>2, InvalidateLands
  <2> HIDE DEF fallen
  <2>2. m # n /\ reopened[m] = status[m]
    BY <1>1, <1>2, <2>1 DEF Landed, Reopened, TypeOK
  <2> QED BY <1>1, <2>1, <2>2 DEF StaysLanded
<1> QED BY <1>1, <1>2 DEF Settles

\* What lands without gates or review is recorded as it landed.
LEMMA CompleteSettles == ASSUME TypeOK, NEW n \in Nodes, Complete(n) PROVE Settles
<1> DEFINE landed == [status EXCEPT ![n] = IF Plain(n) THEN "succeeded" ELSE "unverified"]
           kept == IF Plain(n) THEN accepted \cup {n} ELSE accepted \ {n}
<1>1. PICK changed : /\ status' = Invalidate(landed, kept, changed, {}).status
                     /\ accepted' = Invalidate(landed, kept, changed, {}).accepted
  BY DEF Complete
<1>2. /\ produced' = produced \cup {n}
      /\ bound' = [bound EXCEPT ![n] = IF Plain(n) THEN "judged" ELSE "unjudged"]
      /\ onDisk' = [onDisk EXCEPT ![n] = "same"]
  BY DEF Complete
<1>3. ASSUME NEW m \in Nodes, status'[m] \in Landed PROVE StaysLanded(m) \/ Lands(m)
  <2>1. landed[m] = status'[m] /\ (m \in kept => m \in accepted')
    <3> HIDE DEF landed, kept
    <3> QED BY <1>1, <1>3, InvalidateLands
  <2>2. CASE m # n
    <3>1. landed[m] = status[m] /\ (m \in accepted => m \in kept) /\ bound'[m] = bound[m]
      BY <1>2, <2>2 DEF TypeOK
    <3> QED BY <2>1, <3>1 DEF StaysLanded
  <2>3. CASE m = n
    <3>1. landed[n] = (IF Plain(n) THEN "succeeded" ELSE "unverified") /\ n \in Artifacts
      BY NodesAreArtifacts DEF TypeOK
    <3>2. bound'[n] = (IF Plain(n) THEN "judged" ELSE "unjudged") /\ onDisk'[n] = "same"
      BY <1>2, <3>1 DEF TypeOK
    <3>3. status'[n] = "succeeded" => Plain(n)
      BY <2>1, <2>3, <3>1
    <3>4. AuditsReviewed /\ Plain(n) => Subjects(n) = {n}
      BY DEF AuditsReviewed, Plain, Subjects
    <3>5. Plain(n) => n \in accepted'
      BY <2>1, <2>3
    <3> QED BY <1>2, <2>3, <3>2, <3>3, <3>4, <3>5 DEF Lands
  <2> QED BY <2>2, <2>3
<1> QED BY <1>2, <1>3 DEF Settles

\* A gate receipt: only gates with nobody to review after them accept.
LEMMA GateSettles ==
    ASSUME TypeOK, JudgedInv, NEW rewrote \in BOOLEAN, NEW passed \in BOOLEAN, Gate(passed, rewrote)
    PROVE  Settles
<1> DEFINE checked == Checked(rewrote)
           rejected == Repair(checked.status, checked.accepted, gating, Producers(gating))
<1>1. /\ gating \in Nodes /\ checked.status[gating] = "unverified" /\ produced' = produced
      /\ onDisk' = [onDisk EXCEPT ![gating] = "same"]
  BY DEF Gate, TypeOK
<1>2. checked.status \in [Nodes -> Statuses]
  BY CheckedTypes
<1>3. ASSUME NEW m \in Nodes, checked.status[m] \in Landed
      PROVE  checked.status[m] = status[m] /\ (m \in accepted => m \in checked.accepted)
  BY <1>3, InvalidateLands DEF Checked
<1>4. gating \in produced
  BY <1>1, <1>3 DEF Landed, JudgedInv
<1>5. CASE status' = checked.status /\ accepted' = checked.accepted /\ bound' = bound
  <2> HIDE DEF checked
  <2> QED BY <1>1, <1>3, <1>5 DEF Settles, StaysLanded
<1>6. CASE status' = rejected.status /\ accepted' = rejected.accepted /\ bound' = bound
  <2>1. ASSUME NEW m \in Nodes, status'[m] \in Landed PROVE StaysLanded(m)
    <3>1. checked.status[m] = rejected.status[m] /\ (m \in checked.accepted => m \in rejected.accepted)
      <4>1. DOMAIN checked.status = Nodes /\ checked.status = [k \in Nodes |-> checked.status[k]]
        BY <1>2
      <4>2. Producers(gating) \in SUBSET Nodes
        BY <1>1, ProducersIn
      <4>3. rejected.status[m] \in Landed
        BY <1>6, <2>1
      <4> HIDE DEF checked
      <4> QED BY <1>1, <4>1, <4>2, <4>3, RepairLands
    <3> HIDE DEF checked, rejected
    <3> QED BY <1>3, <1>6, <2>1, <3>1 DEF StaysLanded
  <2> QED BY <1>1, <2>1 DEF Settles
<1>7. CASE /\ passed /\ ~(gating \in Reviewed /\ (passed \/ ReviewOf[gating] # {}))
           /\ status' = [checked.status EXCEPT ![gating] = "succeeded"]
           /\ accepted' = checked.accepted \cup {gating}
           /\ bound' = [bound EXCEPT ![gating] = "judged"]
  <2>1. ASSUME NEW m \in Nodes, m # gating, status'[m] \in Landed PROVE StaysLanded(m)
    <3>1. status'[m] = checked.status[m] /\ bound'[m] = bound[m]
      <4> HIDE DEF checked
      <4> QED BY <1>1, <1>2, <1>7, <2>1 DEF TypeOK
    <3> HIDE DEF checked
    <3> QED BY <1>3, <1>7, <2>1, <3>1 DEF StaysLanded
  <2>2. gating \in Artifacts /\ (AuditsReviewed => Subjects(gating) = {gating})
    BY <1>1, <1>7, NodesAreArtifacts DEF AuditsReviewed, Subjects
  <2>3. bound'[gating] = "judged" /\ onDisk'[gating] = "same"
    BY <1>1, <1>7, <2>2 DEF TypeOK
  <2>4. Lands(gating)
    BY <1>1, <1>4, <1>7, <2>2, <2>3 DEF Lands
  <2> QED BY <1>1, <2>1, <2>4 DEF Settles
<1>8. \/ status' = checked.status /\ accepted' = checked.accepted /\ bound' = bound
      \/ /\ passed /\ ~(gating \in Reviewed /\ (passed \/ ReviewOf[gating] # {}))
         /\ status' = [checked.status EXCEPT ![gating] = "succeeded"]
         /\ accepted' = checked.accepted \cup {gating}
         /\ bound' = [bound EXCEPT ![gating] = "judged"]
      \/ status' = rejected.status /\ accepted' = rejected.accepted /\ bound' = bound
  BY DEF Gate
<1> QED BY <1>5, <1>6, <1>7, <1>8

LEMMA GateThrowsSettles == ASSUME TypeOK, NEW rewrote \in BOOLEAN, GateThrows(rewrote) PROVE Settles
<1>1. /\ produced' = produced /\ bound' = bound
      /\ \/ status' = Checked(rewrote).status /\ accepted' = Checked(rewrote).accepted
         \/ status' = status /\ accepted' = accepted
  BY DEF GateThrows
<1>2. ASSUME NEW m \in Nodes, status'[m] \in Landed PROVE StaysLanded(m)
  BY <1>1, <1>2, InvalidateLands DEF Checked, StaysLanded
<1> QED BY <1>1, <1>2 DEF Settles

\* acceptVerification: the files are compared once more.
LEMMA AcceptSettles == ASSUME TypeOK, JudgedInv, NEW n \in Nodes, AcceptVerification(n) PROVE Settles
<1>1. /\ status[n] = "unverified" /\ EvidenceHolds(n)
      /\ status' = [status EXCEPT ![n] = "succeeded"] /\ accepted' = accepted \cup {n}
      /\ bound' = [bound EXCEPT ![n] = "judged"] /\ produced' = produced /\ onDisk' = onDisk
  BY DEF AcceptVerification, PendingReviews
<1>2. \A m \in Nodes : m # n => StaysLanded(m)
  BY <1>1 DEF StaysLanded, TypeOK
<1>3. n \in Artifacts /\ n \in produced /\ Subjects(n) \subseteq Artifacts
  BY <1>1, NodesAreArtifacts, PlanAssumption DEF JudgedInv, Subjects
<1>4. /\ bound'[n] = "judged" /\ n \in accepted'
      /\ \A a \in Subjects(n) : onDisk'[a] = "same" /\ bound'[a] # "none"
  BY <1>1, <1>3 DEF EvidenceHolds, TypeOK
<1>5. Lands(n)
  BY <1>1, <1>3, <1>4 DEF Lands
<1> QED BY <1>1, <1>2, <1>5 DEF Settles

LEMMA ReviewSettles ==
    ASSUME TypeOK, JudgedInv, NEW n \in Nodes,
           PassOver(n) \/ EvidenceChanged(n) \/ Reject(n) \/ Misdirect(n) \/ Accept(n) \/ OperatorAccepts(n)
    PROVE  Settles
<1>1. ASSUME NEW st \in [Nodes -> Statuses], \A m \in Nodes : st[m] \in Landed => st[m] = status[m],
             NEW targets \in SUBSET Nodes, ReviewChanges(Repair(st, accepted, n, targets))
      PROVE  Settles
  <2>1. /\ status' = Repair(st, accepted, n, targets).status /\ accepted' = Repair(st, accepted, n, targets).accepted
        /\ produced' = produced /\ bound' = bound
    BY <1>1 DEF ReviewChanges
  <2>2. DOMAIN st = Nodes /\ st = [k \in Nodes |-> st[k]]
    OBVIOUS
  <2>3. ASSUME NEW m \in Nodes, status'[m] \in Landed PROVE StaysLanded(m)
    <3>1. st[m] = status'[m] /\ (m \in accepted => m \in accepted')
      BY <2>1, <2>2, <2>3, RepairLands
    <3> QED BY <1>1, <2>1, <2>3, <3>1 DEF StaysLanded
  <2> QED BY <2>1, <2>3 DEF Settles
<1>2. /\ Rejected(n) \in [Nodes -> Statuses] /\ status \in [Nodes -> Statuses]
      /\ \A m \in Nodes : Rejected(n)[m] \in Landed => Rejected(n)[m] = status[m]
  BY DEF Rejected, TypeOK, Statuses, Landed
<1>3. CASE EvidenceChanged(n)
  BY <1>1, <1>2, <1>3, ProducersIn DEF EvidenceChanged
<1>4. CASE Reject(n)
  <2>1. PICK targets \in SUBSET Producers(n) : ReviewChanges(Repair(Rejected(n), accepted, n, targets))
    BY <1>4 DEF Reject
  <2>2. targets \in SUBSET Nodes
    BY ProducersIn
  <2> QED BY <1>1, <1>2, <2>1, <2>2
<1>5. CASE Misdirect(n)
  <2>1. status' = Rejected(n) /\ accepted' = accepted /\ produced' = produced /\ bound' = bound
    BY <1>5 DEF Misdirect, ReviewChanges
  <2> QED BY <1>2, <2>1 DEF Settles, StaysLanded
<1>6. CASE PassOver(n)
  BY <1>6 DEF PassOver, run, Settles, StaysLanded
<1>7. CASE Accept(n) \/ OperatorAccepts(n)
  BY <1>7, AcceptSettles DEF Accept, OperatorAccepts
<1> QED BY <1>3, <1>4, <1>5, <1>6, <1>7

LEMMA OtherSettles ==
    ASSUME TypeOK,
           \/ ComputeFrontier \/ StartBatch \/ BatchesDone \/ EndSweep \/ Halt \/ End \/ Abort \/ Crash
           \/ UNCHANGED vars
           \/ \E n \in Nodes : Fail(n) \/ Throw(n) \/ \E verdict \in {"approved", "rejected"} : Decide(n, verdict)
           \/ \E a \in Editable : Edit(a)
    PROVE  Settles
<1>1. accepted' = accepted /\ produced' = produced /\ bound' = bound
  BY DEF ComputeFrontier, StartBatch, DispatchBatch, BatchesDone, EndSweep, Halt, End, Abort, Crash, Fail, Throw,
         Decide, Decided, Edit, vars, run
<1>2. ASSUME NEW m \in Nodes, status'[m] \in Landed PROVE status'[m] = status[m]
  <2>1. CASE ComputeFrontier \/ End
    BY <1>2, <2>1 DEF ComputeFrontier, End, Classified, Landed
  <2>2. CASE StartBatch
    BY <1>2, <2>2 DEF StartBatch, DispatchBatch, Landed
  <2>3. CASE \E n \in Nodes : Fail(n) \/ \E verdict \in {"approved", "rejected"} : Decide(n, verdict)
    BY <1>2, <2>3 DEF Fail, Decide, Decided, Landed, TypeOK
  <2>4. CASE \/ BatchesDone \/ EndSweep \/ Halt \/ Abort \/ Crash \/ UNCHANGED vars
             \/ \E n \in Nodes : Throw(n)
             \/ \E a \in Editable : Edit(a)
    BY <2>4 DEF BatchesDone, EndSweep, Halt, Abort, Crash, Throw, Edit, vars, run
  <2> QED BY <2>1, <2>2, <2>3, <2>4
<1> QED BY <1>1, <1>2 DEF Settles, StaysLanded

LEMMA StepSettles == ASSUME TypeOK, JudgedInv, [Next]_vars PROVE Settles
<1>1. CASE Work
  <2>1. ASSUME NEW rewrote \in BOOLEAN, GateThrows(rewrote) \/ \E passed \in BOOLEAN : Gate(passed, rewrote)
        PROVE  Settles
    BY <2>1, GateSettles, GateThrowsSettles
  <2>2. ASSUME NEW n \in Nodes, DropReview(n) \/ Complete(n)
        PROVE  Settles
    BY <2>2, DropReviewSettles, CompleteSettles
  <2>3. ASSUME NEW n \in Nodes, PassOver(n) \/ Accept(n) \/ EvidenceChanged(n) \/ Reject(n) \/ Misdirect(n)
        PROVE  Settles
    BY <2>3, ReviewSettles
  <2> QED BY <1>1, <2>1, <2>2, <2>3, OtherSettles DEF Work
<1>2. ASSUME NEW n \in Nodes, OperatorAccepts(n) PROVE Settles
  BY <1>2, ReviewSettles
<1> QED BY <1>1, <1>2, OpenSettles, OtherSettles DEF Next

LEMMA StepJudged == TypeOK /\ JudgedInv /\ [Next]_vars => JudgedInv'
<1> SUFFICES ASSUME TypeOK, JudgedInv, [Next]_vars PROVE JudgedInv'
  OBVIOUS
<1>1. Settles
  BY StepSettles
<1> QED BY <1>1 DEF Settles, StaysLanded, Lands, Landed, JudgedInv, SucceededJudged

LEMMA InitJudged == Init => JudgedInv
BY DEF Init, JudgedInv, SucceededJudged

\* A node that succeeded has an accepted output of its own making, recorded as
\* it was judged: no material of the workspace, no cascade and no retry puts
\* another in its place (reconcilePatch, recordGateResult, acceptVerification).
THEOREM SucceededAsJudged == Spec => []SucceededJudged
<1>1. JudgedInv => SucceededJudged
  BY DEF JudgedInv
<1> QED BY <1>1, InitJudged, InitTypes, StepTypes, StepJudged, PTL DEF Spec

\* If audits are themselves reviewed, a node becomes succeeded only while its
\* output and every output it judges are on disk as recorded.
THEOREM AcceptedOnlyAsFound == ASSUME AuditsReviewed PROVE Spec => AcceptedAsFound
<1>1. ASSUME TypeOK, JudgedInv, [Next]_vars
      PROVE  [\A n \in Nodes : status[n] # "succeeded" /\ status'[n] = "succeeded" =>
                \A a \in Subjects(n) : onDisk'[a] = "same" /\ bound'[a] # "none"]_vars
  <2>1. Settles
    BY <1>1, StepSettles
  <2>2. \A n \in Nodes : status[n] # "succeeded" /\ status'[n] = "succeeded" =>
          \A a \in Subjects(n) : onDisk'[a] = "same" /\ bound'[a] # "none"
    BY <2>1 DEF Settles, StaysLanded, Lands, Landed
  <2> QED BY <2>2
<1> QED BY <1>1, InitJudged, InitTypes, StepTypes, StepJudged, PTL DEF Spec, AcceptedAsFound

-----------------------------------------------------------------------------
\* Inputs.

Succeeded == {n \in Nodes : status[n] = "succeeded"}

\* A node stands on statuses st and accepted bindings acc.
StandsOn(m, st, acc) == (\A d \in Deps[m] : st[d] = "succeeded") /\ Inputs(m) \subseteq acc

\* What is offered or executes has not landed, the output under its gates has
\* not succeeded, and both are there in the dispatch only.
BatchInv ==
    /\ \A n \in offered \cup executing : status[n] \notin Landed /\ n # gating
    /\ offered \cap executing = {}
    /\ gating # NoNode => status[gating] # "succeeded"
    /\ phase # "dispatch" => executing = {} /\ gating = NoNode
    /\ phase \notin {"dispatch", "ending"} => offered = {}

\* What has landed stands on its inputs, and so does what is about to land:
\* the status of a node at work may have fallen, its inputs have not.
StandInv == \A n \in Nodes : status[n] \in Landed \/ n \in offered \cup executing =>
                StandsOn(n, status, accepted)

LEMMA PlanFacts ==
    \A m \in Nodes : /\ Deps[m] \subseteq Nodes /\ ReviewOf[m] \subseteq Nodes
                     /\ Deps[m] \subseteq Inputs(m) /\ Inputs(m) \subseteq Watched(m)
                     /\ Inputs(m) \cap Nodes = Deps[m] \cup (Reads[m] \cap Nodes)
BY PlanAssumption DEF Inputs, Watched

\* The ancestors of a node are its dependencies and their ancestors.
LEMMA AncestorsAre ==
    ASSUME NEW m \in Nodes
    PROVE  /\ Ancestors(m) \subseteq Nodes /\ Deps[m] \subseteq Ancestors(m)
           /\ \A u \in Ancestors(m) : Ancestors(u) \subseteq Ancestors(m)
<1>1. Ancestors(m) \subseteq Nodes /\ Deps[m] \subseteq Ancestors(m)
  BY PlanFacts DEF Ancestors
<1>2. ASSUME NEW u \in Ancestors(m), NEW v \in Ancestors(u) PROVE v \in Ancestors(m)
  <2>1. v \in Nodes
    BY <1>2 DEF Ancestors
  <2>2. ASSUME NEW S \in SUBSET Nodes, Deps[m] \subseteq S, \A s \in S : Deps[s] \subseteq S PROVE v \in S
    <3>1. u \in S
      BY <1>2, <2>2 DEF Ancestors
    <3>2. Deps[u] \subseteq S
      BY <2>2, <3>1
    <3> QED BY <1>2, <2>2, <3>2 DEF Ancestors
  <2> QED BY <2>1, <2>2 DEF Ancestors
<1> QED BY <1>1, <1>2

\* If what succeeded stands, all ancestors of a node that stands have succeeded.
LEMMA AncestorsSucceeded ==
    ASSUME StandInv, NEW m \in Nodes, StandsOn(m, status, accepted)
    PROVE  Ancestors(m) \subseteq Succeeded
<1>1. Deps[m] \subseteq Succeeded
  BY PlanFacts DEF StandsOn, Succeeded
<1>2. \A s \in Succeeded : Deps[s] \subseteq Succeeded
  BY PlanFacts DEF StandInv, StandsOn, Succeeded, Landed
<1>3. Succeeded \in SUBSET Nodes
  BY DEF Succeeded
<1> QED BY <1>1, <1>2, <1>3 DEF Ancestors

LEMMA InputsAreAncestors ==
    ASSUME PlanFlows, NEW m \in Nodes PROVE Inputs(m) \cap Nodes \subseteq Ancestors(m)
<1>1. Deps[m] \subseteq Ancestors(m)
  BY AncestorsAre
<1>2. Reads[m] \cap Nodes \subseteq Ancestors(m)
  BY DEF PlanFlows
<1> QED BY <1>1, <1>2, PlanFacts

\* The cascade leaves out no node that watches what it fells ...
LEMMA HitCloses ==
    ASSUME NEW st, NEW changed, NEW spared, NEW m \in Nodes \ spared, st[m] # "stale",
           m \notin Hit(st, changed, spared)
    PROVE  Watched(m) \cap (changed \cup Hit(st, changed, spared)) = {}
<1> DEFINE Sealed(S) == \A n \in Nodes \ spared :
                           st[n] # "stale" /\ Watched(n) \cap (changed \cup S) # {} => n \in S
<1>1. PICK S \in SUBSET Nodes : Sealed(S) /\ m \notin S
  BY DEF Hit
<1>2. Hit(st, changed, spared) \subseteq S
  BY <1>1 DEF Hit
<1>3. Watched(m) \cap (changed \cup S) = {}
  BY <1>1
<1> QED BY <1>2, <1>3

\* ... and reaches no part of the plan that watches only itself.
LEMMA HitStaysOut ==
    ASSUME NEW st, NEW changed, NEW spared, NEW K \in SUBSET Nodes, ClosedPlan(K), changed \cap K = {},
           changed \subseteq Nodes
    PROVE  Hit(st, changed, spared) \cap K = {}
<1> DEFINE S == Nodes \ K
<1>1. \A n \in Nodes \ spared : st[n] # "stale" /\ Watched(n) \cap (changed \cup S) # {} => n \in S
  BY DEF ClosedPlan
<1>2. S \in SUBSET Nodes
  OBVIOUS
<1>3. Hit(st, changed, spared) \subseteq S
  BY <1>1, <1>2 DEF Hit
<1> QED BY <1>3

\* A cascade that hits no input of a node leaves it standing.
LEMMA InvalidateStands ==
    ASSUME NEW st, NEW acc, NEW changed, NEW spared, NEW m \in Nodes, StandsOn(m, st, acc),
           Inputs(m) \cap Hit(st, changed, spared) = {}
    PROVE  /\ StandsOn(m, Invalidate(st, acc, changed, spared).status, Invalidate(st, acc, changed, spared).accepted)
           /\ \A d \in Deps[m] : Invalidate(st, acc, changed, spared).status[d] = st[d]
<1> DEFINE hit == Hit(st, changed, spared)
<1>1. /\ Invalidate(st, acc, changed, spared).status = [n \in Nodes |-> IF n \in hit THEN Reopened(n) ELSE st[n]]
      /\ Invalidate(st, acc, changed, spared).accepted = acc \ hit
  BY DEF Invalidate
<1> HIDE DEF hit
<1>2. Inputs(m) \cap hit = {}
  BY DEF hit
<1> QED BY <1>1, <1>2, PlanFacts DEF StandsOn

\* What has landed after a cascade had landed before it, and watches nothing that fell.
LEMMA InvalidateMisses ==
    ASSUME NEW st, NEW acc, NEW changed, NEW spared, NEW m \in Nodes \ spared,
           Invalidate(st, acc, changed, spared).status[m] \in Landed
    PROVE  /\ st[m] = Invalidate(st, acc, changed, spared).status[m]
           /\ Inputs(m) \cap changed = {} /\ Inputs(m) \cap Hit(st, changed, spared) = {}
<1>1. st[m] = Invalidate(st, acc, changed, spared).status[m]
  BY InvalidateLands
<1>2. m \notin Hit(st, changed, spared)
  <2>1. Invalidate(st, acc, changed, spared).status[m] = IF m \in Hit(st, changed, spared) THEN Reopened(m) ELSE st[m]
    BY DEF Invalidate
  <2>2. Reopened(m) \notin Landed
    BY DEF Reopened, Landed
  <2> QED BY <2>1, <2>2
<1>3. Watched(m) \cap (changed \cup Hit(st, changed, spared)) = {}
  BY <1>1, <1>2, HitCloses DEF Landed
<1> QED BY <1>1, <1>3, PlanFacts

\* A cascade from outside a node's ancestry leaves it standing ...
LEMMA InvalidateSpares ==
    ASSUME PlanFlows, NEW st, NEW acc, NEW changed \in SUBSET Nodes, NEW spared, NEW m \in Nodes,
           StandsOn(m, st, acc), changed \cap (Ancestors(m) \cup {m}) = {}
    PROVE  /\ StandsOn(m, Invalidate(st, acc, changed, spared).status, Invalidate(st, acc, changed, spared).accepted)
           /\ \A d \in Deps[m] : Invalidate(st, acc, changed, spared).status[d] = st[d]
<1>1. PICK K \in SUBSET Nodes : Ancestors(m) \subseteq K /\ K \subseteq Ancestors(m) \cup {m} /\ ClosedPlan(K)
  <2>1. Ancestors(m) \in SUBSET Nodes /\ Ancestors(m) \cup {m} \in SUBSET Nodes
    BY AncestorsAre
  <2>2. ClosedPlan(Ancestors(m)) \/ ClosedPlan(Ancestors(m) \cup {m})
    BY DEF PlanFlows
  <2> QED BY <2>1, <2>2
<1>2. changed \cap K = {}
  BY <1>1
<1>3. Hit(st, changed, spared) \cap K = {}
  BY <1>1, <1>2, HitStaysOut
<1>4. Hit(st, changed, spared) \subseteq Nodes
  BY DEF Hit
<1>5. Inputs(m) \cap Hit(st, changed, spared) = {}
  BY <1>1, <1>3, <1>4, InputsAreAncestors
<1> QED BY <1>5, InvalidateStands

\* ... and so does a rejection.
LEMMA RepairStands ==
    ASSUME NEW st, NEW acc, NEW n \in Nodes, NEW targets \in SUBSET Nodes, NEW m \in Nodes,
           DOMAIN st = Nodes, st[n] # "succeeded", StandsOn(m, st, acc), Inputs(m) \cap targets = {},
           LET fallen == Invalidate(st, acc \ targets, targets, {})
           IN  /\ StandsOn(m, fallen.status, fallen.accepted)
               /\ \A d \in Deps[m] : fallen.status[d] = st[d]
    PROVE  StandsOn(m, Repair(st, acc, n, targets).status, Repair(st, acc, n, targets).accepted)
<1> DEFINE fallen == Invalidate(st, acc \ targets, targets, {})
           Target(t) == IF NeedsReadback(t) THEN "needs_readback"
                        ELSE IF Exhausted(t) THEN "blocked" ELSE "stale"
           repaired == [k \in Nodes |-> IF k \in targets THEN Target(k) ELSE fallen.status[k]]
           repair == Repair(st, acc, n, targets)
<1>1. n \notin Deps[m]
  BY DEF StandsOn
<1>2. CASE Exhausted(n)
  <2>1. repair.status = [st EXCEPT ![n] = "blocked"] /\ repair.accepted = acc
    BY <1>2 DEF Repair
  <2> HIDE DEF repair
  <2>2. StandsOn(m, repair.status, repair.accepted)
    BY <1>1, <2>1, PlanFacts DEF StandsOn
  <2> QED BY <2>2 DEF repair
<1>3. CASE ~Exhausted(n)
  <2>1. /\ repair.accepted = fallen.accepted
        /\ repair.status = repaired \/ repair.status = [repaired EXCEPT ![n] = "blocked"]
    <3> HIDE DEF fallen
    <3> QED BY <1>3 DEF Repair, fallen
  <2> HIDE DEF repair, fallen
  <2>2. StandsOn(m, fallen.status, fallen.accepted)
    BY DEF fallen
  <2>3. \A d \in Deps[m] : d \in Nodes /\ d \notin targets /\ d # n
    BY <1>1, PlanFacts
  <2>4. \A d \in Deps[m] : repair.status[d] = fallen.status[d]
    BY <2>1, <2>3
  <2>5. StandsOn(m, repair.status, repair.accepted)
    BY <2>1, <2>2, <2>4 DEF StandsOn
  <2> QED BY <2>5 DEF repair
<1> QED BY <1>2, <1>3

LEMMA RepairSpares ==
    ASSUME PlanFlows, NEW st, NEW acc, NEW n \in Nodes, NEW targets \in SUBSET Nodes, NEW m \in Nodes,
           DOMAIN st = Nodes, st[n] # "succeeded", StandsOn(m, st, acc),
           targets \cap (Ancestors(m) \cup {m}) = {}
    PROVE  StandsOn(m, Repair(st, acc, n, targets).status, Repair(st, acc, n, targets).accepted)
<1>1. Inputs(m) \cap targets = {}
  BY InputsAreAncestors
<1>2. StandsOn(m, st, acc \ targets)
  BY <1>1 DEF StandsOn
<1> DEFINE rest == acc \ targets
           none == {}
           fallen == Invalidate(st, rest, targets, none)
<1> HIDE DEF rest, none
<1>3. /\ StandsOn(m, fallen.status, fallen.accepted)
      /\ \A d \in Deps[m] : fallen.status[d] = st[d]
  <2>1. StandsOn(m, st, rest)
    BY <1>2 DEF rest
  <2> QED BY <2>1, InvalidateSpares
<1> QED BY <1>1, <1>3, RepairStands DEF rest, none

\* What has landed after a rejection stands, if it stood before.
LEMMA RepairFlows ==
    ASSUME NEW st, NEW acc, NEW n \in Nodes, NEW targets \in SUBSET Nodes, NEW m \in Nodes,
           DOMAIN st = Nodes, st = [k \in Nodes |-> st[k]], st[n] # "succeeded",
           st[m] \in Landed => StandsOn(m, st, acc),
           Repair(st, acc, n, targets).status[m] \in Landed
    PROVE  StandsOn(m, Repair(st, acc, n, targets).status, Repair(st, acc, n, targets).accepted)
<1> DEFINE fallen == Invalidate(st, acc \ targets, targets, {})
           Target(t) == IF NeedsReadback(t) THEN "needs_readback"
                        ELSE IF Exhausted(t) THEN "blocked" ELSE "stale"
           repaired == [k \in Nodes |-> IF k \in targets THEN Target(k) ELSE fallen.status[k]]
           repair == Repair(st, acc, n, targets)
<1>1. st[m] \in Landed /\ StandsOn(m, st, acc)
  BY RepairLands
<1>2. CASE Exhausted(n)
  <2>1. repair.status = [st EXCEPT ![n] = "blocked"] /\ repair.accepted = acc
    BY <1>2 DEF Repair
  <2> HIDE DEF repair
  <2>2. StandsOn(m, repair.status, repair.accepted)
    BY <1>1, <2>1, PlanFacts DEF StandsOn
  <2> QED BY <2>2 DEF repair
<1>3. CASE ~Exhausted(n)
  <2>1. repair.status = repaired \/ repair.status = [repaired EXCEPT ![n] = "blocked"]
    <3> HIDE DEF fallen
    <3> QED BY <1>3 DEF Repair, fallen
  <2>2. repair.status[m] \in Landed
    OBVIOUS
  <2>3. fallen.status[m] \in Landed
    <3> HIDE DEF repair, fallen
    <3> QED BY <2>1, <2>2 DEF Landed
  <2>4. m \notin Hit(st, targets, {})
    <3>1. fallen.status[m] = IF m \in Hit(st, targets, {}) THEN Reopened(m) ELSE st[m]
      BY DEF Invalidate
    <3>2. Reopened(m) \notin Landed
      BY DEF Reopened, Landed
    <3> HIDE DEF fallen
    <3> QED BY <2>3, <3>1, <3>2
  <2>5. Watched(m) \cap (targets \cup Hit(st, targets, {})) = {}
    BY <1>1, <2>4, HitCloses DEF Landed
  <2>6. Inputs(m) \cap targets = {} /\ Inputs(m) \cap Hit(st, targets, {}) = {}
    BY <2>5, PlanFacts
  <2>7. StandsOn(m, st, acc \ targets)
    BY <1>1, <2>6 DEF StandsOn
  <2>8. /\ StandsOn(m, fallen.status, fallen.accepted)
        /\ \A d \in Deps[m] : fallen.status[d] = st[d]
    <3> DEFINE rest == acc \ targets
               none == {}
    <3> HIDE DEF rest, none
    <3>1. StandsOn(m, st, rest) /\ Inputs(m) \cap Hit(st, targets, none) = {}
      BY <2>6, <2>7 DEF rest, none
    <3>2. /\ StandsOn(m, Invalidate(st, rest, targets, none).status, Invalidate(st, rest, targets, none).accepted)
          /\ \A d \in Deps[m] : Invalidate(st, rest, targets, none).status[d] = st[d]
      BY <3>1, InvalidateStands
    <3> QED BY <3>2 DEF rest, none
  <2> QED BY <1>1, <2>6, <2>8, RepairStands
<1> QED BY <1>2, <1>3

\* Nothing at work: the other clauses are empty.
LEMMA IdleBatch == ASSUME offered' = {}, executing' = {}, gating' = NoNode PROVE BatchInv'
BY DEF BatchInv

LEMMA GateBatch ==
    ASSUME TypeOK, BatchInv, NEW rewrote \in BOOLEAN,
           GateThrows(rewrote) \/ \E passed \in BOOLEAN : Gate(passed, rewrote)
    PROVE  /\ BatchInv' /\ gating \in Nodes /\ status[gating] # "succeeded" /\ phase = "dispatch"
           /\ offered' = offered /\ executing' = executing
<1> DEFINE checked == Checked(rewrote)
           rejected == Repair(checked.status, checked.accepted, gating, Producers(gating))
<1>1. /\ gating \in Nodes /\ gating # NoNode /\ gating' = NoNode /\ phase' = phase
      /\ offered' = offered /\ executing' = executing
  BY PlanAssumption DEF Gate, GateThrows, TypeOK
<1>2. phase = "dispatch" /\ status[gating] # "succeeded"
  BY <1>1 DEF BatchInv
<1>3. ASSUME NEW m \in Nodes, m # gating, status'[m] \in Landed PROVE status[m] \in Landed
  <2>1. checked.status[m] \in Landed => status[m] \in Landed
    BY InvalidateLands DEF Checked
  <2>2. checked.status \in [Nodes -> Statuses]
    BY CheckedTypes
  <2>3. rejected.status[m] \in Landed => checked.status[m] \in Landed
    <3>1. DOMAIN checked.status = Nodes /\ checked.status = [k \in Nodes |-> checked.status[k]]
      BY <2>2
    <3>2. Producers(gating) \in SUBSET Nodes
      BY <1>1, ProducersIn
    <3> HIDE DEF checked
    <3> QED BY <1>1, <3>1, <3>2, RepairLands
  <2>4. \/ status' = checked.status \/ status' = rejected.status \/ status' = status
        \/ status' = [checked.status EXCEPT ![gating] = "succeeded"]
    BY DEF Gate, GateThrows
  <2> HIDE DEF checked, rejected
  <2> QED BY <1>3, <2>1, <2>2, <2>3, <2>4
<1>4. \A n \in offered \cup executing : n \in Nodes /\ n # gating /\ status[n] \notin Landed
  BY DEF BatchInv, TypeOK
<1>5. \A n \in offered \cup executing : status'[n] \notin Landed /\ n # gating'
  BY <1>1, <1>3, <1>4, PlanAssumption
<1> QED BY <1>1, <1>2, <1>5 DEF BatchInv

LEMMA CompleteBatch ==
    ASSUME TypeOK, BatchInv, NEW n \in Nodes, Complete(n) PROVE BatchInv' /\ phase = "dispatch"
<1> DEFINE landed == [status EXCEPT ![n] = IF Plain(n) THEN "succeeded" ELSE "unverified"]
<1>1. PICK kept, changed : status' = Invalidate(landed, kept, changed, {}).status
  BY DEF Complete
<1>2. /\ n \in executing /\ executing' = executing \ {n} /\ offered' = offered /\ phase' = phase
      /\ gating' = (IF n \in Gated THEN n ELSE NoNode)
  BY DEF Complete
<1>3. phase = "dispatch" /\ n \notin offered
  BY <1>2 DEF BatchInv
<1>4. ASSUME NEW m \in Nodes, status'[m] \in Landed PROVE status'[m] = landed[m]
  <2> HIDE DEF landed
  <2> QED BY <1>1, <1>4, InvalidateLands
<1>5. ASSUME NEW m \in (offered \cup executing)' PROVE status'[m] \notin Landed /\ m # gating'
  <2>1. m \in Nodes /\ m # n /\ status[m] \notin Landed /\ m # NoNode
    BY <1>2, <1>3, <1>5, PlanAssumption DEF BatchInv, TypeOK
  <2>2. landed[m] = status[m]
    BY <2>1 DEF TypeOK
  <2> QED BY <1>2, <1>4, <2>1, <2>2
<1>6. gating' # NoNode => status'[gating'] # "succeeded"
  <2>1. CASE n \in Gated
    <3>1. landed[n] = "unverified"
      BY <2>1 DEF Plain, TypeOK
    <3> QED BY <1>2, <1>4, <2>1, <3>1 DEF Landed
  <2>2. CASE n \notin Gated
    BY <1>2, <2>2
  <2> QED BY <2>1, <2>2
<1>7. (offered \cap executing)' = {}
  BY <1>2 DEF BatchInv
<1> QED BY <1>2, <1>3, <1>5, <1>6, <1>7 DEF BatchInv

LEMMA StartBatchBatch == ASSUME TypeOK, BatchInv, StartBatch PROVE BatchInv'
<1>1. /\ gating = NoNode /\ gating' = NoNode /\ phase = "dispatch" /\ phase' = phase
      /\ executing' \subseteq Batch /\ offered' = offered \ Batch /\ Batch \subseteq offered
      /\ \A m \in Nodes : m \in executing' => status'[m] = "running"
      /\ \A m \in Nodes \ Batch : status'[m] = status[m]
  BY DEF StartBatch, DispatchBatch, Idle, Batch
<1>2. \A n \in offered : n \in Nodes /\ status[n] \notin Landed /\ n # NoNode
  BY PlanAssumption DEF BatchInv, TypeOK
<1>3. \A n \in (offered \cup executing)' : status'[n] \notin Landed /\ n # gating'
  BY <1>1, <1>2 DEF Landed
<1> QED BY <1>1, <1>3 DEF BatchInv

LEMMA FrontierBatch ==
    ASSUME TypeOK, BatchInv, ComputeFrontier
    PROVE  /\ BatchInv'
           /\ \A m \in Nodes : status[m] \in {"succeeded", "unverified"} => status'[m] = status[m]
           /\ \A m \in Nodes : status'[m] \in Landed => status'[m] = status[m]
           /\ \A m \in offered' : StandsOn(m, status, accepted)
<1>1. PICK refused \in SUBSET Restricted : /\ status' = Classified(status, accepted, refused)
                                           /\ offered' = Frontier(status, accepted, refused)
  BY DEF ComputeFrontier
<1>2. /\ executing' = {} /\ gating' = NoNode
      /\ phase' = "dispatch" \/ offered' = {}
  BY DEF ComputeFrontier, BatchInv
<1>3. \A m \in Nodes : status[m] \in Landed => status'[m] = status[m]
  BY <1>1 DEF Classified, ReadyFor, Eligible, Landed
<1>4. \A m \in Nodes : status'[m] \in Landed => status'[m] = status[m]
  BY <1>1 DEF Classified, Landed
<1>5. \A m \in offered' : m \in Nodes /\ status'[m] = "pending" /\ StandsOn(m, status, accepted)
  BY <1>1 DEF Frontier, Classified, ReadyFor, StandsOn
<1>6. \A m \in (offered \cup executing)' : status'[m] \notin Landed /\ m # gating'
  BY <1>2, <1>5, PlanAssumption DEF Landed
<1>7. BatchInv'
  BY <1>2, <1>6 DEF BatchInv
<1> QED BY <1>3, <1>4, <1>5, <1>7 DEF Landed

LEMMA StepBatch == TypeOK /\ BatchInv /\ [Next]_vars => BatchInv'
<1> SUFFICES ASSUME TypeOK, BatchInv, [Next]_vars PROVE BatchInv'
  OBVIOUS
<1>1. CASE Open \/ BatchesDone \/ EndSweep \/ End \/ Abort \/ Crash
  BY <1>1, IdleBatch DEF Open, BatchesDone, EndSweep, End, Abort, Crash, Closed, Idle, BatchInv, run
<1>2. ASSUME NEW n \in Nodes, DropReview(n) PROVE BatchInv'
  BY <1>2, IdleBatch DEF DropReview, BatchInv, session
<1>3. ASSUME NEW n \in Nodes, PassOver(n) \/ Accept(n) \/ EvidenceChanged(n) \/ Reject(n) \/ Misdirect(n)
      PROVE  BatchInv'
  <2>1. phase = "sweep" /\ offered' = offered /\ executing' = executing /\ gating' = gating
    BY <1>3 DEF PassOver, Accept, AcceptVerification, EvidenceChanged, Reject, Misdirect, Reviewing, ReviewChanges
  <2> QED BY <2>1, IdleBatch DEF BatchInv
<1>4. ASSUME NEW n \in Nodes, OperatorAccepts(n) \/ \E verdict \in {"approved", "rejected"} : Decide(n, verdict)
      PROVE  BatchInv'
  <2>1. phase = "closed" /\ offered' = offered /\ executing' = executing /\ gating' = gating
    BY <1>4 DEF OperatorAccepts, AcceptVerification, Decide, Decided, session
  <2> QED BY <2>1, IdleBatch DEF BatchInv
<1>5. ASSUME NEW n \in Nodes, Fail(n) \/ Throw(n) PROVE BatchInv'
  <2>1. /\ gating = NoNode /\ gating' = NoNode /\ phase' = phase /\ offered' = offered
        /\ executing' = executing \ {n} /\ (status' = status \/ status' = [status EXCEPT ![n] = "failed"])
    BY <1>5 DEF Fail, Throw
  <2>2. \A m \in Nodes : status'[m] = status[m] \/ status'[m] = "failed"
    BY <2>1 DEF TypeOK
  <2>3. \A m \in (offered \cup executing)' : status'[m] \notin Landed /\ m # gating'
    BY <2>1, <2>2 DEF BatchInv, TypeOK, Landed
  <2> QED BY <2>1, <2>3 DEF BatchInv
<1>6. CASE Halt
  BY <1>6 DEF Halt, Idle, BatchInv, run
<1>7. CASE UNCHANGED vars \/ \E a \in Editable : Edit(a)
  BY <1>7 DEF Edit, BatchInv, vars, run, session
<1>8. ASSUME NEW rewrote \in BOOLEAN, GateThrows(rewrote) \/ \E passed \in BOOLEAN : Gate(passed, rewrote)
      PROVE  BatchInv'
  BY <1>8, GateBatch
<1> QED BY <1>1, <1>2, <1>3, <1>4, <1>5, <1>6, <1>7, <1>8, StartBatchBatch, FrontierBatch, CompleteBatch
        DEF Next, Work

\* A step that fells nothing, and lands or begins only what stands.
LEMMA NothingFalls ==
    ASSUME \A n \in Nodes : status[n] = "succeeded" => status'[n] = "succeeded",
           accepted \subseteq accepted',
           \A n \in Nodes : status'[n] \in Landed \/ n \in (offered \cup executing)' =>
               StandsOn(n, status, accepted)
    PROVE  StandInv'
BY PlanFacts DEF StandInv, StandsOn

\* Orphans had not succeeded; what was taken in is accepted.
LEMMA OpenStands == ASSUME PlanFlows, TypeOK, BatchInv, StandInv, Open PROVE StandInv'
<1>1. PICK expired \in SUBSET {n \in Nodes : status[n] = "running"},
           due \in SUBSET {n \in Recurring : status[n] = "succeeded"} :
        LET orphaned == [n \in Nodes |-> IF n \notin expired THEN status[n]
                                         ELSE IF n \in Idempotent THEN "pending" ELSE "needs_readback"]
            changed == {a \in Found \cap accepted : onDisk[a] # "same"}
            fallen == Invalidate(orphaned, accepted \cup Found, changed, {})
            recur == {n \in due : fallen.status[n] = "succeeded"}
        IN  /\ status' = [n \in Nodes |-> IF n \in recur THEN "stale" ELSE fallen.status[n]]
            /\ accepted' = fallen.accepted
  BY ZenonT(30) DEF Open
<1> DEFINE orphaned == [n \in Nodes |-> IF n \notin expired THEN status[n]
                                        ELSE IF n \in Idempotent THEN "pending" ELSE "needs_readback"]
           changed == {a \in Found \cap accepted : onDisk[a] # "same"}
           taken == accepted \cup Found
           none == {}
           fallen == Invalidate(orphaned, taken, changed, none)
<1>2. (\A n \in Nodes : status'[n] = fallen.status[n]) /\ accepted' = fallen.accepted
  <2>1. due = {}
    BY DEF PlanFlows
  <2>2. /\ status' = [n \in Nodes |-> IF n \in {k \in due : fallen.status[k] = "succeeded"} THEN "stale"
                                     ELSE fallen.status[n]]
        /\ accepted' = fallen.accepted
    BY <1>1
  <2> HIDE DEF fallen
  <2> QED BY <2>1, <2>2
<1>3. \A n \in Nodes : /\ orphaned[n] \in Landed => orphaned[n] = status[n]
                       /\ status[n] = "succeeded" => orphaned[n] = "succeeded"
  BY DEF Landed
<1>4. (offered \cup executing)' = {}
  BY DEF Open, BatchInv
<1> HIDE DEF orphaned, changed, taken, none
<1>5. ASSUME NEW n \in Nodes, status'[n] \in Landed PROVE StandsOn(n, status', accepted')
  <2>1. n \in Nodes \ none /\ fallen.status[n] \in Landed
    BY <1>2, <1>5 DEF none
  <2>2. orphaned[n] \in Landed /\ Inputs(n) \cap Hit(orphaned, changed, none) = {}
    <3> HIDE DEF fallen
    <3>1. orphaned[n] = fallen.status[n] /\ Inputs(n) \cap Hit(orphaned, changed, none) = {}
      BY <2>1, InvalidateMisses DEF fallen
    <3> QED BY <2>1, <3>1
  <2>3. StandsOn(n, status, accepted)
    BY <1>3, <2>2 DEF StandInv
  <2>4. StandsOn(n, orphaned, taken)
    BY <1>3, <2>3, PlanFacts DEF StandsOn, taken
  <2>5. StandsOn(n, fallen.status, fallen.accepted)
    BY <2>2, <2>4, InvalidateStands
  <2> HIDE DEF fallen
  <2> QED BY <1>2, <2>5, PlanFacts DEF StandsOn
<1> QED BY <1>4, <1>5 DEF StandInv

\* A dropped review spares its producers, and no ancestor of theirs hangs on it.
LEMMA DropReviewStands ==
    ASSUME PlanFlows, TypeOK, BatchInv, StandInv, NEW n \in Nodes, DropReview(n) PROVE StandInv'
<1> DEFINE reopened == [status EXCEPT ![n] = Reopened(n)]
           kept == accepted \ {n}
           fallen == Invalidate(reopened, kept, {n}, ReviewOf[n])
<1>1. status' = fallen.status /\ accepted' = fallen.accepted
  BY DEF DropReview
<1>2. (offered \cup executing)' = {}
  BY DEF DropReview, BatchInv, session
<1>3. /\ \A m \in Nodes : reopened[m] \in Landed => m # n /\ reopened[m] = status[m]
      /\ \A m \in Nodes : m # n => reopened[m] = status[m]
  BY DEF Reopened, Landed, TypeOK
<1>4. \A m \in Nodes : n \notin Inputs(m) /\ StandsOn(m, status, accepted) => StandsOn(m, reopened, kept)
  <2> HIDE DEF reopened
  <2> QED BY <1>3, PlanFacts DEF StandsOn
<1> HIDE DEF reopened, kept
<1>5. ASSUME NEW m \in Nodes, status'[m] \in Landed PROVE StandsOn(m, status', accepted')
  <2>1. reopened[m] = status'[m]
    BY <1>1, <1>5, InvalidateLands
  <2>2. m # n /\ StandsOn(m, status, accepted)
    BY <1>3, <1>5, <2>1 DEF StandInv
  <2>3. CASE m \notin ReviewOf[n]
    <3>1. m \in Nodes \ ReviewOf[n] /\ fallen.status[m] \in Landed
      BY <1>1, <1>5, <2>3
    <3>2. Inputs(m) \cap {n} = {} /\ Inputs(m) \cap Hit(reopened, {n}, ReviewOf[n]) = {}
      BY <3>1, InvalidateMisses
    <3>3. StandsOn(m, reopened, kept)
      BY <1>4, <2>2, <3>2
    <3> QED BY <1>1, <3>2, <3>3, InvalidateStands
  <2>4. CASE m \in ReviewOf[n]
    <3>1. m \in Ancestors(n) /\ n \notin Ancestors(n)
      BY <2>4, AncestorsAre DEF PlanFlows
    <3>2. n \notin Ancestors(m) \cup {m}
      BY <2>2, <3>1, AncestorsAre
    <3>3. {n} \in SUBSET Nodes /\ {n} \cap (Ancestors(m) \cup {m}) = {}
      BY <3>2
    <3>4. StandsOn(m, reopened, kept)
      BY <1>4, <2>2, <3>2, InputsAreAncestors
    <3> QED BY <1>1, <3>3, <3>4, InvalidateSpares
  <2> QED BY <2>3, <2>4
<1> QED BY <1>2, <1>5 DEF StandInv

\* What changes as it lands, or under its gates, is no ancestor of what stands.
LEMMA NotAnAncestor ==
    ASSUME PlanFlows, StandInv, NEW c \in Nodes, status[c] # "succeeded",
           NEW m \in Nodes, StandsOn(m, status, accepted)
    PROVE  c \notin Ancestors(m) /\ c \notin Inputs(m)
<1>1. c \notin Ancestors(m)
  BY AncestorsSucceeded DEF Succeeded
<1> QED BY <1>1, InputsAreAncestors

LEMMA CompleteStands ==
    ASSUME PlanFlows, TypeOK, BatchInv, StandInv, NEW n \in Nodes, Complete(n) PROVE StandInv'
<1> DEFINE landed == [status EXCEPT ![n] = IF Plain(n) THEN "succeeded" ELSE "unverified"]
           kept == IF Plain(n) THEN accepted \cup {n} ELSE accepted \ {n}
           none == {}
<1>1. PICK changed \in SUBSET {n} : /\ status' = Invalidate(landed, kept, changed, none).status
                                    /\ accepted' = Invalidate(landed, kept, changed, none).accepted
  BY DEF Complete
<1>2. /\ n \in executing /\ executing' = executing \ {n} /\ offered' = offered
  BY DEF Complete
<1>3. StandsOn(n, status, accepted) /\ status[n] # "succeeded" /\ n \notin offered
  BY <1>2 DEF BatchInv, StandInv, Landed
<1>4. \A m \in Nodes : m # n => landed[m] = status[m]
  BY DEF TypeOK
<1> HIDE DEF landed
<1>5. ASSUME NEW m \in Nodes, StandsOn(m, status, accepted)
      PROVE  n \notin Ancestors(m) /\ StandsOn(m, landed, kept)
  <2>1. n \notin Ancestors(m) /\ n \notin Inputs(m)
    BY <1>3, <1>5, NotAnAncestor
  <2> QED BY <1>4, <1>5, <2>1, PlanFacts DEF StandsOn
<1> DEFINE fallen == Invalidate(landed, kept, changed, none)
<1>6. ASSUME NEW m \in Nodes, status'[m] \in Landed PROVE StandsOn(m, status', accepted')
  <2>1. m \in Nodes \ none /\ fallen.status[m] \in Landed
    BY <1>1, <1>6
  <2> HIDE DEF kept, none
  <2>2. landed[m] = fallen.status[m] /\ Inputs(m) \cap Hit(landed, changed, none) = {}
    BY <2>1, InvalidateMisses
  <2>3. StandsOn(m, status, accepted)
    <3> HIDE DEF fallen
    <3> QED BY <1>3, <1>4, <2>1, <2>2 DEF StandInv
  <2>4. StandsOn(m, landed, kept)
    BY <1>5, <2>3
  <2> QED BY <1>1, <2>2, <2>4, InvalidateStands DEF none
<1>7. ASSUME NEW m \in (offered \cup executing)' PROVE StandsOn(m, status', accepted')
  <2>1. m \in Nodes /\ m # n /\ StandsOn(m, status, accepted)
    BY <1>2, <1>3, <1>7 DEF StandInv, TypeOK
  <2>2. StandsOn(m, landed, kept) /\ changed \in SUBSET Nodes /\ changed \cap (Ancestors(m) \cup {m}) = {}
    BY <1>5, <2>1
  <2> HIDE DEF kept, none
  <2>3. StandsOn(m, fallen.status, fallen.accepted)
    BY <2>1, <2>2, InvalidateSpares
  <2> QED BY <1>1, <2>3 DEF none
<1> QED BY <1>6, <1>7 DEF StandInv

LEMMA CheckedStands ==
    ASSUME PlanFlows, TypeOK, BatchInv, StandInv, NEW rewrote \in BOOLEAN,
           gating \in Nodes, status[gating] # "succeeded",
           NEW m \in Nodes, Checked(rewrote).status[m] \in Landed \/ m \in offered \cup executing
    PROVE  /\ StandsOn(m, Checked(rewrote).status, Checked(rewrote).accepted)
           /\ StandsOn(m, status, accepted)
<1> DEFINE moved == Moved(rewrote)
           none == {}
           checked == Invalidate(status, accepted, moved, none)
<1>1. checked = Checked(rewrote) /\ moved \in SUBSET {gating}
  BY DEF Checked, Moved
<1> HIDE DEF moved, none
<1>2. CASE Checked(rewrote).status[m] \in Landed
  <2>1. m \in Nodes \ none /\ checked.status[m] \in Landed
    BY <1>1, <1>2 DEF none
  <2>2. status[m] = checked.status[m] /\ Inputs(m) \cap Hit(status, moved, none) = {}
    BY <2>1, InvalidateMisses
  <2>3. StandsOn(m, status, accepted)
    <3> HIDE DEF checked
    <3> QED BY <2>1, <2>2 DEF StandInv
  <2> QED BY <1>1, <2>2, <2>3, InvalidateStands
<1>3. CASE m \in offered \cup executing
  <2>1. m # gating /\ StandsOn(m, status, accepted)
    BY <1>3 DEF BatchInv, StandInv
  <2>2. moved \in SUBSET Nodes /\ moved \cap (Ancestors(m) \cup {m}) = {}
    BY <1>1, <2>1, NotAnAncestor
  <2> QED BY <1>1, <2>1, <2>2, InvalidateSpares
<1> QED BY <1>2, <1>3

\* A rejection at the gates fells nothing that the nodes at work stand on:
\* who consumes what an audit judges waits for the audit.
LEMMA GateStands ==
    ASSUME PlanFlows, TypeOK, BatchInv, StandInv, NEW rewrote \in BOOLEAN,
           GateThrows(rewrote) \/ \E passed \in BOOLEAN : Gate(passed, rewrote)
    PROVE  StandInv'
<1> DEFINE checked == Checked(rewrote)
           rejected == Repair(checked.status, checked.accepted, gating, Producers(gating))
           passes == [checked.status EXCEPT ![gating] = "succeeded"]
<1>1. gating \in Nodes /\ status[gating] # "succeeded" /\ offered' = offered /\ executing' = executing
  BY GateBatch
<1>2. checked.status \in [Nodes -> Statuses]
  BY CheckedTypes
<1>3. ASSUME NEW m \in Nodes, checked.status[m] \in Landed \/ m \in offered \cup executing
      PROVE  StandsOn(m, checked.status, checked.accepted) /\ StandsOn(m, status, accepted)
  BY <1>1, <1>3, CheckedStands
<1>4. CASE status' = checked.status /\ accepted' = checked.accepted
  <2> HIDE DEF checked
  <2> QED BY <1>1, <1>3, <1>4 DEF StandInv
<1>5. CASE status' = status /\ accepted' = accepted
  BY <1>1, <1>5 DEF StandInv
<1>6. CASE /\ checked.status[gating] = "unverified"
           /\ status' = passes /\ accepted' = checked.accepted \cup {gating}
  <2> HIDE DEF checked
  <2>1. \A m \in Nodes : status'[m] = IF m = gating THEN "succeeded" ELSE checked.status[m]
    BY <1>2, <1>6
  <2>2. ASSUME NEW m \in Nodes, status'[m] \in Landed \/ m \in (offered \cup executing)'
        PROVE  StandsOn(m, status', accepted')
    <3>1. checked.status[m] \in Landed \/ m \in offered \cup executing
      BY <1>1, <1>6, <2>1, <2>2 DEF Landed
    <3>2. StandsOn(m, checked.status, checked.accepted)
      BY <1>3, <3>1
    <3> QED BY <1>6, <2>1, <3>2, PlanFacts DEF StandsOn
  <2> QED BY <2>2 DEF StandInv
<1>7. CASE /\ checked.status[gating] = "unverified"
           /\ status' = rejected.status /\ accepted' = rejected.accepted
  <2>1. Producers(gating) \in SUBSET Nodes
    BY <1>1, ProducersIn
  <2>2. status[gating] = "unverified" /\ StandsOn(gating, status, accepted)
    <3>1. checked.status[gating] \in Landed
      BY <1>7 DEF Landed
    <3>2. status[gating] = checked.status[gating]
      BY <1>1, <3>1, InvalidateLands DEF Checked
    <3> HIDE DEF checked
    <3> QED BY <1>1, <1>3, <1>7, <3>1, <3>2
  <2> HIDE DEF checked
  <2>3. DOMAIN checked.status = Nodes /\ checked.status = [k \in Nodes |-> checked.status[k]]
    BY <1>2
  <2>4. ASSUME NEW m \in Nodes, status'[m] \in Landed PROVE StandsOn(m, status', accepted')
    <3>1. rejected.status[m] \in Landed /\ checked.status[gating] # "succeeded"
      BY <1>7, <2>4
    <3>2. StandsOn(m, rejected.status, rejected.accepted)
      BY <1>1, <1>3, <2>1, <2>3, <3>1, RepairFlows
    <3> HIDE DEF rejected
    <3> QED BY <1>7, <3>2
  <2>5. ASSUME NEW m \in offered \cup executing PROVE StandsOn(m, status', accepted')
    <3>1. m \in Nodes /\ m # gating /\ status[m] # "succeeded"
      BY <2>5 DEF BatchInv, TypeOK, Landed
    <3>2. StandsOn(m, checked.status, checked.accepted) /\ StandsOn(m, status, accepted)
      BY <1>3, <2>5, <3>1
    <3>3. gating \notin Ancestors(m)
      BY <1>1, <3>1, <3>2, NotAnAncestor
    <3>4. ReviewOf[gating] \cap Ancestors(m) = {}
      BY <1>1, <3>1, <3>3 DEF PlanFlows
    <3>5. m \notin ReviewOf[gating]
      BY <1>1, <2>2, <3>1 DEF PlanFlows, StandsOn
    <3>6. Producers(gating) \cap (Ancestors(m) \cup {m}) = {}
      BY <3>1, <3>3, <3>4, <3>5 DEF Producers
    <3>7. checked.status[gating] # "succeeded"
      BY <1>7
    <3>8. StandsOn(m, rejected.status, rejected.accepted)
      BY <1>1, <2>1, <2>3, <3>1, <3>2, <3>6, <3>7, RepairSpares
    <3> HIDE DEF rejected
    <3> QED BY <1>7, <3>8
  <2> QED BY <1>1, <2>4, <2>5 DEF StandInv
<1>8. \/ status' = checked.status /\ accepted' = checked.accepted
      \/ status' = status /\ accepted' = accepted
      \/ checked.status[gating] = "unverified" /\ status' = passes /\ accepted' = checked.accepted \cup {gating}
      \/ checked.status[gating] = "unverified" /\ status' = rejected.status /\ accepted' = rejected.accepted
  BY DEF Gate, GateThrows
<1> QED BY <1>4, <1>5, <1>6, <1>7, <1>8

\* Verdicts fall while nothing is at work.
LEMMA ReviewStands ==
    ASSUME TypeOK, BatchInv, StandInv, NEW n \in Nodes, EvidenceChanged(n) \/ Reject(n) PROVE StandInv'
<1>1. PICK st \in {status, Rejected(n)}, targets \in SUBSET Nodes :
        /\ status' = Repair(st, accepted, n, targets).status
        /\ accepted' = Repair(st, accepted, n, targets).accepted
  <2>1. CASE EvidenceChanged(n)
    BY <2>1, ProducersIn DEF EvidenceChanged, ReviewChanges
  <2>2. CASE Reject(n)
    <3>1. PICK targets \in SUBSET Producers(n) : ReviewChanges(Repair(Rejected(n), accepted, n, targets))
      BY <2>2 DEF Reject
    <3>2. targets \in SUBSET Nodes
      BY ProducersIn
    <3> QED BY <3>1, <3>2 DEF ReviewChanges
  <2> QED BY <2>1, <2>2
<1>2. status[n] = "unverified" /\ phase = "sweep" /\ offered' = offered /\ executing' = executing
  BY DEF EvidenceChanged, Reject, PendingReviews, Reviewing, ReviewChanges
<1>3. (offered \cup executing)' = {}
  BY <1>2 DEF BatchInv
<1>4. /\ DOMAIN st = Nodes /\ st = [k \in Nodes |-> st[k]] /\ st[n] # "succeeded"
      /\ \A m \in Nodes : st[m] \in Landed => st[m] = status[m]
      /\ \A m \in Nodes : status[m] = "succeeded" => st[m] = "succeeded"
  BY <1>2 DEF Rejected, TypeOK, Landed
<1>5. \A m \in Nodes : st[m] \in Landed => StandsOn(m, st, accepted)
  BY <1>4, PlanFacts DEF StandInv, StandsOn
<1>6. ASSUME NEW m \in Nodes, status'[m] \in Landed PROVE StandsOn(m, status', accepted')
  BY <1>1, <1>4, <1>5, <1>6, RepairFlows
<1> QED BY <1>3, <1>6 DEF StandInv

LEMMA StartBatchStands == ASSUME TypeOK, BatchInv, StandInv, StartBatch PROVE StandInv'
<1>1. /\ accepted' = accepted /\ executing' \subseteq offered /\ offered' \subseteq offered
      /\ \A m \in Nodes : status'[m] \in {status[m], "running", "blocked", "waiting_founder"}
      /\ \A m \in Nodes \ offered : status'[m] = status[m]
  BY DEF StartBatch, DispatchBatch, Batch
<1>2. \A m \in Nodes : status[m] = "succeeded" => status'[m] = "succeeded"
  BY <1>1 DEF BatchInv, Landed
<1>3. \A m \in Nodes : status'[m] \in Landed => status'[m] = status[m]
  BY <1>1 DEF Landed
<1> QED BY <1>1, <1>2, <1>3, NothingFalls DEF StandInv

LEMMA FrontierStands == ASSUME TypeOK, BatchInv, StandInv, ComputeFrontier PROVE StandInv'
<1>1. accepted' = accepted /\ executing' = executing
  BY DEF ComputeFrontier
<1> QED BY <1>1, FrontierBatch, NothingFalls DEF StandInv

LEMMA OtherStands ==
    ASSUME TypeOK, BatchInv, StandInv,
           \/ BatchesDone \/ EndSweep \/ Halt \/ End \/ Abort \/ Crash \/ UNCHANGED vars
           \/ \E n \in Nodes : \/ Fail(n) \/ Throw(n) \/ PassOver(n) \/ Accept(n) \/ OperatorAccepts(n) \/ Misdirect(n)
                               \/ \E verdict \in {"approved", "rejected"} : Decide(n, verdict)
           \/ \E a \in Editable : Edit(a)
    PROVE  StandInv'
<1>1. accepted \subseteq accepted' /\ offered' \subseteq offered /\ executing' \subseteq executing
  BY DEF BatchesDone, EndSweep, Halt, End, Abort, Crash, Closed, Fail, Throw, PassOver, Accept, OperatorAccepts,
         AcceptVerification, Misdirect, ReviewChanges, Decide, Decided, Edit, vars, run, session
<1> DEFINE Kept == \A m \in Nodes : /\ status[m] = "succeeded" => status'[m] = "succeeded"
                                    /\ status'[m] \in Landed => status[m] \in Landed
<1>2. Kept
  <2>1. CASE End
    BY <2>1 DEF End, Classified, ReadyFor, Eligible, Landed
  <2>2. CASE \/ BatchesDone \/ EndSweep \/ Halt \/ Abort \/ Crash \/ UNCHANGED vars
             \/ \E n \in Nodes : Throw(n) \/ PassOver(n)
             \/ \E a \in Editable : Edit(a)
    BY <2>2 DEF BatchesDone, EndSweep, Halt, Abort, Crash, Throw, PassOver, Edit, vars, run
  <2>3. ASSUME NEW n \in Nodes, Fail(n) PROVE Kept
    BY <2>3 DEF Fail, BatchInv, TypeOK, Landed
  <2>4. ASSUME NEW n \in Nodes, Misdirect(n) PROVE Kept
    BY <2>4 DEF Misdirect, PendingReviews, Rejected, ReviewChanges, TypeOK, Landed
  <2>5. ASSUME NEW n \in Nodes, AcceptVerification(n) PROVE Kept
    BY <2>5 DEF AcceptVerification, PendingReviews, TypeOK, Landed
  <2>6. ASSUME NEW n \in Nodes, NEW verdict \in {"approved", "rejected"}, Decide(n, verdict) PROVE Kept
    BY <2>6 DEF Decide, Decided, TypeOK, Landed
  <2> QED BY <2>1, <2>2, <2>3, <2>4, <2>5, <2>6 DEF Accept, OperatorAccepts
<1>3. \A m \in Nodes : status'[m] \in Landed \/ m \in (offered \cup executing)' => StandsOn(m, status, accepted)
  BY <1>1, <1>2 DEF StandInv
<1>4. \A m \in Nodes : status[m] = "succeeded" => status'[m] = "succeeded"
  BY <1>2
<1> HIDE DEF Kept
<1> QED BY <1>1, <1>3, <1>4, NothingFalls

LEMMA StepStands == ASSUME PlanFlows PROVE TypeOK /\ BatchInv /\ StandInv /\ [Next]_vars => StandInv'
<1> SUFFICES ASSUME TypeOK, BatchInv, StandInv, [Next]_vars PROVE StandInv'
  OBVIOUS
<1>1. CASE Work
  <2>1. ASSUME NEW rewrote \in BOOLEAN, GateThrows(rewrote) \/ \E passed \in BOOLEAN : Gate(passed, rewrote)
        PROVE  StandInv'
    BY <2>1, GateStands
  <2>2. ASSUME NEW n \in Nodes, DropReview(n) \/ Complete(n) \/ EvidenceChanged(n) \/ Reject(n) PROVE StandInv'
    BY <2>2, DropReviewStands, CompleteStands, ReviewStands
  <2> QED BY <1>1, <2>1, <2>2, StartBatchStands, FrontierStands, OtherStands DEF Work
<1> QED BY <1>1, OpenStands, OtherStands DEF Next

\* In the plans of PlanFlows whatever succeeded rests on accepted inputs: the
\* cascades of invalidateDescendants and requestVerificationRepair are complete
\* in the step that makes them, and no patch lands on an input that fell.
THEOREM InputsAccepted == ASSUME PlanFlows PROVE Spec => []InputsStand
<1>1. Init => BatchInv /\ StandInv
  BY DEF Init, BatchInv, StandInv, Landed
<1>2. StandInv => InputsStand
  BY DEF StandInv, StandsOn, InputsStand, Landed
<1>3. TypeOK /\ BatchInv /\ StandInv /\ [Next]_vars => StandInv'
  BY StepStands
<1> QED BY <1>1, <1>2, <1>3, InitTypes, StepTypes, StepBatch, PTL DEF Spec
-----------------------------------------------------------------------------
\* Whole cascades, in every plan.

\* No node judged by an audit depends, at any distance, on that audit, unless
\* through another node that the audit judges.
SparedApart ==
    \A r \in Nodes : \A n \in ReviewOf[r] : \E K \in SUBSET (Nodes \ {r}) :
        /\ Inputs(n) \cap Nodes \subseteq K
        /\ \A m \in K \ ReviewOf[r] : Watched(m) \cap Nodes \subseteq K

\* No input of n that was accepted is accepted no more, or recorded anew.
Undisturbed(n) == \A a \in Inputs(n) \cap accepted : a \in accepted' /\ (onDisk'[a] = "same" => onDisk[a] = "same")

\* n had landed before this step, which leaves its inputs alone.
Stays(n) == status[n] \in Landed /\ Undisturbed(n)

\* What has landed still after a cascade had no input among what changed or fell.
LEMMA InvalidateWhole ==
    ASSUME NEW st, NEW acc, NEW changed, NEW spared, NEW n \in Nodes \ spared,
           Invalidate(st, acc, changed, spared).status[n] \in Landed
    PROVE  /\ st[n] = Invalidate(st, acc, changed, spared).status[n]
           /\ Inputs(n) \cap changed = {}
           /\ Inputs(n) \cap acc \subseteq Invalidate(st, acc, changed, spared).accepted
<1> DEFINE hit == Hit(st, changed, spared)
<1>1. Invalidate(st, acc, changed, spared).status[n] = IF n \in hit THEN Reopened(n) ELSE st[n]
  BY DEF Invalidate
<1>2. Reopened(n) \notin Landed
  BY DEF Reopened, Landed
<1> HIDE DEF hit
<1>3. n \notin hit /\ st[n] = Invalidate(st, acc, changed, spared).status[n]
  BY <1>1, <1>2
<1>4. st[n] # "stale"
  BY <1>3 DEF Landed
<1>5. Watched(n) \cap (changed \cup hit) = {}
  BY <1>3, <1>4, HitCloses DEF hit
<1>6. Invalidate(st, acc, changed, spared).accepted = acc \ hit
  BY DEF Invalidate, hit
<1> QED BY <1>3, <1>5, <1>6, PlanFacts

\* ... and what has landed still after a rejection, likewise.
LEMMA RepairWhole ==
    ASSUME NEW st, NEW acc, NEW r \in Nodes, NEW targets \in SUBSET Nodes, DOMAIN st = Nodes,
           NEW n \in Nodes, Repair(st, acc, r, targets).status[n] \in Landed
    PROVE  /\ st[n] \in Landed
           /\ Inputs(n) \cap acc \subseteq Repair(st, acc, r, targets).accepted
<1> DEFINE none == {}
           rest == acc \ targets
           fallen == Invalidate(st, rest, targets, none)
           Target(t) == IF NeedsReadback(t) THEN "needs_readback"
                        ELSE IF Exhausted(t) THEN "blocked" ELSE "stale"
           repaired == [k \in Nodes |-> IF k \in targets THEN Target(k) ELSE fallen.status[k]]
           repair == Repair(st, acc, r, targets)
<1>1. CASE Exhausted(r)
  <2>1. repair.status = [st EXCEPT ![r] = "blocked"] /\ repair.accepted = acc
    BY <1>1 DEF Repair
  <2> HIDE DEF repair
  <2>2. st[n] \in Landed /\ Inputs(n) \cap acc \subseteq repair.accepted
    <3>1. repair.status[n] \in Landed
      BY DEF repair
    <3> QED BY <2>1, <3>1 DEF Landed
  <2> QED BY <2>2 DEF repair
<1>2. CASE ~Exhausted(r)
  <2>1. /\ repair.accepted = fallen.accepted
        /\ repair.status = repaired \/ repair.status = [repaired EXCEPT ![r] = "blocked"]
    <3> HIDE DEF fallen
    <3> QED BY <1>2 DEF Repair, fallen, none, rest
  <2>2. repair.status[n] \in Landed
    OBVIOUS
  <2> HIDE DEF repair, fallen
  <2>3. repaired[n] \in Landed
    BY <2>1, <2>2 DEF Landed
  <2>4. fallen.status[n] \in Landed
    BY <2>3 DEF Landed
  <2> HIDE DEF rest, none
  <2>5. n \in Nodes \ none
    BY DEF none
  <2>6. st[n] \in Landed /\ Inputs(n) \cap targets = {} /\ Inputs(n) \cap rest \subseteq fallen.accepted
    BY <2>4, <2>5, InvalidateWhole DEF fallen
  <2>7. Inputs(n) \cap acc \subseteq repair.accepted
    BY <2>1, <2>6 DEF rest
  <2> QED BY <2>6, <2>7 DEF repair
<1> QED BY <1>1, <1>2

\* A step that leaves acceptances and files alone, or only adds acceptances.
LEMMA NothingDisturbed ==
    ASSUME accepted \subseteq accepted', NEW n \in Nodes,
           \A a \in Artifacts : onDisk'[a] = "same" => onDisk[a] = "same"
    PROVE  Undisturbed(n)
BY PlanAssumption DEF Undisturbed, Inputs, Artifacts
\* An output whose recorded bytes change falls first, or with its consumers.
LEMMA OpenWhole ==
    ASSUME TypeOK, Open, NEW n \in Nodes, status'[n] \in Landed PROVE Stays(n)
<1>1. PICK expired \in SUBSET {k \in Nodes : status[k] = "running"},
           due \in SUBSET {k \in Recurring : status[k] = "succeeded"} :
        LET orphaned == [k \in Nodes |-> IF k \notin expired THEN status[k]
                                         ELSE IF k \in Idempotent THEN "pending" ELSE "needs_readback"]
            changed == {a \in Found \cap accepted : onDisk[a] # "same"}
            fallen == Invalidate(orphaned, accepted \cup Found, changed, {})
            recur == {k \in due : fallen.status[k] = "succeeded"}
        IN  /\ status' = [k \in Nodes |-> IF k \in recur THEN "stale" ELSE fallen.status[k]]
            /\ accepted' = fallen.accepted
            /\ onDisk' = [a \in Artifacts |-> IF a \in Found THEN "same" ELSE onDisk[a]]
  BY ZenonT(30) DEF Open
<1> DEFINE orphaned == [k \in Nodes |-> IF k \notin expired THEN status[k]
                                        ELSE IF k \in Idempotent THEN "pending" ELSE "needs_readback"]
           changed == {a \in Found \cap accepted : onDisk[a] # "same"}
           taken == accepted \cup Found
           none == {}
           fallen == Invalidate(orphaned, taken, changed, none)
<1>2. /\ fallen.status[n] \in Landed /\ accepted' = fallen.accepted
      /\ onDisk' = [a \in Artifacts |-> IF a \in Found THEN "same" ELSE onDisk[a]]
  <2> HIDE DEF fallen
  <2>1. /\ status' = [k \in Nodes |-> IF k \in {i \in due : fallen.status[i] = "succeeded"} THEN "stale"
                                      ELSE fallen.status[k]]
        /\ accepted' = fallen.accepted
        /\ onDisk' = [a \in Artifacts |-> IF a \in Found THEN "same" ELSE onDisk[a]]
    BY <1>1 DEF fallen, none, taken, changed, orphaned
  <2> QED BY <2>1 DEF Landed
<1> HIDE DEF none
<1>3. orphaned[n] \in Landed => status[n] \in Landed
  BY DEF Landed
<1> HIDE DEF orphaned
<1>4. n \in Nodes \ none
  BY DEF none
<1>5. orphaned[n] \in Landed /\ Inputs(n) \cap changed = {} /\ Inputs(n) \cap taken \subseteq fallen.accepted
  <2> HIDE DEF changed, taken
  <2> QED BY <1>2, <1>4, InvalidateWhole
<1> HIDE DEF fallen
<1>6. Inputs(n) \subseteq Artifacts
  BY PlanAssumption DEF Inputs, Artifacts
<1> QED BY <1>2, <1>5, <1>6, <1>3 DEF Stays, Undisturbed

\* The producers that a dropped review spares depend on nothing it fells.
LEMMA DropReviewWhole ==
    ASSUME SparedApart, TypeOK, NEW r \in Nodes, DropReview(r),
           NEW n \in Nodes, status'[n] \in Landed
    PROVE  Stays(n)
<1> DEFINE reopened == [status EXCEPT ![r] = Reopened(r)]
           kept == accepted \ {r}
           fallen == Invalidate(reopened, kept, {r}, ReviewOf[r])
           hit == Hit(reopened, {r}, ReviewOf[r])
<1>1. status' = fallen.status /\ accepted' = fallen.accepted /\ onDisk' = onDisk
  BY DEF DropReview
<1>2. fallen.accepted = kept \ hit
  BY DEF Invalidate
<1>3. reopened[n] \in Landed => status[n] \in Landed
  BY DEF Reopened, Landed, TypeOK
<1> HIDE DEF reopened
<1>4. n \notin hit /\ reopened[n] \in Landed
  <2>1. fallen.status[n] = IF n \in hit THEN Reopened(n) ELSE reopened[n]
    BY DEF Invalidate
  <2>2. Reopened(n) \notin Landed
    BY DEF Reopened, Landed
  <2> HIDE DEF hit, fallen
  <2> QED BY <1>1, <2>1, <2>2
<1>5. Inputs(n) \cap ({r} \cup hit) = {}
  <2>1. CASE n \notin ReviewOf[r]
    <3>1. n \in Nodes \ ReviewOf[r] /\ reopened[n] # "stale"
      BY <1>4, <2>1 DEF Landed
    <3>3. Watched(n) \cap ({r} \cup hit) = {}
      BY <1>4, <3>1, HitCloses
    <3> QED BY <3>3, PlanFacts
  <2>2. CASE n \in ReviewOf[r]
    <3>1. PICK K \in SUBSET (Nodes \ {r}) : /\ Inputs(n) \cap Nodes \subseteq K
                                            /\ \A m \in K \ ReviewOf[r] : Watched(m) \cap Nodes \subseteq K
      BY <2>2 DEF SparedApart
    <3> DEFINE S == Nodes \ K
    <3>2. \A m \in Nodes \ ReviewOf[r] : reopened[m] # "stale" /\ Watched(m) \cap ({r} \cup S) # {} => m \in S
      BY <3>1
    <3>3. hit \subseteq S
      BY <3>2 DEF Hit
    <3>4. hit \subseteq Nodes
      BY DEF Hit
    <3> HIDE DEF hit
    <3> QED BY <3>1, <3>3, <3>4
  <2> QED BY <2>1, <2>2
<1> HIDE DEF hit
<1> QED BY <1>1, <1>2, <1>5, <1>3, <1>4 DEF Stays, Undisturbed

LEMMA CompleteWhole ==
    ASSUME TypeOK, NEW m \in Nodes, Complete(m), NEW n \in Nodes, status'[n] \in Landed
    PROVE  \A a \in Inputs(n) \cap accepted : /\ a \in accepted' \/ (a = m /\ status'[a] = "unverified")
                                              /\ onDisk'[a] = "same" => onDisk[a] = "same"
<1> DEFINE landed == [status EXCEPT ![m] = IF Plain(m) THEN "succeeded" ELSE "unverified"]
           kept == IF Plain(m) THEN accepted \cup {m} ELSE accepted \ {m}
           none == {}
<1>1. PICK differs \in BOOLEAN :
        LET changed == IF m \in accepted /\ differs THEN {m} ELSE {}
        IN  /\ differs \/ onDisk[m] = "same"
            /\ status' = Invalidate(landed, kept, changed, none).status
            /\ accepted' = Invalidate(landed, kept, changed, none).accepted
  BY DEF Complete
<1> DEFINE changed == IF m \in accepted /\ differs THEN {m} ELSE {}
           fallen == Invalidate(landed, kept, changed, none)
<1>2. status' = fallen.status /\ accepted' = fallen.accepted
  BY <1>1
<1>3. onDisk' = [onDisk EXCEPT ![m] = "same"]
  BY DEF Complete
<1>4. n \in Nodes \ none
  OBVIOUS
<1> HIDE DEF landed, none
<1>5. Inputs(n) \cap changed = {} /\ Inputs(n) \cap kept \subseteq fallen.accepted
  <2> HIDE DEF changed, kept
  <2> QED BY <1>2, <1>4, InvalidateWhole
<1>6. ~Plain(m) => \/ fallen.status[m] = "unverified"
                   \/ m \in Hit(landed, changed, none)
  <2>1. landed[m] = IF Plain(m) THEN "succeeded" ELSE "unverified"
    BY DEF landed, TypeOK
  <2>2. fallen.status[m] = IF m \in Hit(landed, changed, none) THEN Reopened(m) ELSE landed[m]
    BY DEF Invalidate
  <2> QED BY <2>1, <2>2
<1> HIDE DEF fallen
<1>7. m \in accepted /\ m \in Inputs(n) => ~differs /\ changed = {}
  BY <1>5
<1>8. changed = {} => Hit(landed, changed, none) = {}
  <2>1. {} \in SUBSET Nodes
    OBVIOUS
  <2> HIDE DEF changed
  <2>2. ASSUME changed = {} PROVE Hit(landed, changed, none) = {}
    BY <2>1, <2>2 DEF Hit
  <2> QED BY <2>2
<1>9. m \in accepted /\ m \in Inputs(n) => m \in accepted' \/ status'[m] = "unverified"
  <2>1. CASE Plain(m)
    BY <1>2, <1>5, <2>1
  <2>2. CASE ~Plain(m)
    BY <1>2, <1>6, <1>7, <1>8, <2>2
  <2> QED BY <2>1, <2>2
<1>10. m \in accepted /\ m \in Inputs(n) => onDisk[m] = "same"
  BY <1>1, <1>7
<1>11. \A a \in Inputs(n) \cap accepted : a # m => a \in accepted' /\ onDisk'[a] = onDisk[a]
  <2>1. Inputs(n) \subseteq Artifacts
    BY PlanAssumption DEF Inputs, Artifacts
  <2> QED BY <1>2, <1>3, <1>5, <2>1 DEF TypeOK
<1> QED BY <1>9, <1>10, <1>11
LEMMA CheckedWhole ==
    ASSUME TypeOK, NEW rewrote \in BOOLEAN, gating \in Nodes,
           NEW n \in Nodes, Checked(rewrote).status[n] \in Landed
    PROVE  /\ status[n] \in Landed
           /\ Inputs(n) \cap Moved(rewrote) = {}
           /\ Inputs(n) \cap accepted \subseteq Checked(rewrote).accepted
<1> DEFINE none == {}
           moved == Moved(rewrote)
<1>1. Checked(rewrote) = Invalidate(status, accepted, moved, none)
  BY DEF Checked
<1>2. n \in Nodes \ none
  OBVIOUS
<1> HIDE DEF none, moved
<1>3. /\ status[n] \in Landed /\ Inputs(n) \cap moved = {}
      /\ Inputs(n) \cap accepted \subseteq Checked(rewrote).accepted
  BY <1>1, <1>2, InvalidateWhole
<1> QED BY <1>3 DEF moved

LEMMA GateWhole ==
    ASSUME TypeOK, NEW rewrote \in BOOLEAN, GateThrows(rewrote) \/ \E passed \in BOOLEAN : Gate(passed, rewrote),
           NEW n \in Nodes, status'[n] \in Landed
    PROVE  Stays(n)
<1> DEFINE checked == Checked(rewrote)
           moved == Moved(rewrote)
<1>1. gating \in Nodes /\ Inputs(n) \subseteq Artifacts
  BY PlanAssumption DEF GateThrows, Gate, TypeOK, Inputs, Artifacts
<1>2. checked.status \in [Nodes -> Statuses]
  BY CheckedTypes
<1> HIDE DEF checked, moved
<1>3. ASSUME checked.status[n] \in Landed, checked.accepted \subseteq accepted',
             onDisk' = [onDisk EXCEPT ![gating] = "same"]
      PROVE  Stays(n)
  <2>1. status[n] \in Landed /\ Inputs(n) \cap moved = {} /\ Inputs(n) \cap accepted \subseteq checked.accepted
    BY <1>1, <1>3, CheckedWhole DEF checked, moved
  <2>2. gating \in Inputs(n) => onDisk[gating] = "same"
    BY <2>1 DEF moved, Moved
  <2> QED BY <1>1, <1>3, <2>1, <2>2 DEF Stays, Undisturbed, TypeOK
<1>4. ASSUME GateThrows(rewrote) PROVE Stays(n)
  <2>1. CASE executing # {}
    <3>1. status' = checked.status /\ accepted' = checked.accepted /\ onDisk' = [onDisk EXCEPT ![gating] = "same"]
      BY <1>4, <2>1 DEF GateThrows, checked
    <3> QED BY <1>3, <3>1
  <2>2. CASE executing = {}
    <3>1. status' = status /\ accepted' = accepted /\ onDisk' = [a \in Artifacts |-> IF a \in moved THEN "edited" ELSE onDisk[a]]
      BY <1>4, <2>2 DEF GateThrows, moved
    <3>2. \A a \in Artifacts : onDisk'[a] = "same" => onDisk[a] = "same"
      BY <3>1
    <3> QED BY <3>1, <3>2, NothingDisturbed DEF Stays
  <2> QED BY <2>1, <2>2
<1>5. ASSUME NEW passed \in BOOLEAN, Gate(passed, rewrote) PROVE Stays(n)
  <2> DEFINE rejected == Repair(checked.status, checked.accepted, gating, Producers(gating))
  <2>1. checked.status[gating] = "unverified" /\ onDisk' = [onDisk EXCEPT ![gating] = "same"]
    BY <1>5 DEF Gate, checked
  <2>2. \/ status' = checked.status /\ accepted' = checked.accepted
        \/ status' = [checked.status EXCEPT ![gating] = "succeeded"] /\ accepted' = checked.accepted \cup {gating}
        \/ status' = rejected.status /\ accepted' = rejected.accepted
    <3> HIDE DEF rejected
    <3> QED BY <1>5 DEF Gate, checked, rejected
  <2>3. CASE status' = checked.status /\ accepted' = checked.accepted
    BY <1>3, <2>1, <2>3
  <2>4. CASE status' = [checked.status EXCEPT ![gating] = "succeeded"] /\ accepted' = checked.accepted \cup {gating}
    <3>2. checked.status[n] \in Landed
      BY <1>2, <2>1, <2>4 DEF Landed
    <3> QED BY <1>3, <2>1, <2>4, <3>2
  <2>5. CASE status' = rejected.status /\ accepted' = rejected.accepted
    <3>1. Producers(gating) \in SUBSET Nodes /\ DOMAIN checked.status = Nodes
      BY <1>1, <1>2, ProducersIn
    <3>2. checked.status[n] \in Landed /\ Inputs(n) \cap checked.accepted \subseteq accepted'
      <4>1. rejected.status[n] \in Landed
        BY <2>5
      <4> DEFINE st == checked.status
                 acc == checked.accepted
                 targets == Producers(gating)
      <4> HIDE DEF st, acc, targets
      <4>2. DOMAIN st = Nodes /\ targets \in SUBSET Nodes /\ Repair(st, acc, gating, targets).status[n] \in Landed
        BY <3>1, <4>1 DEF st, acc, targets
      <4>3. st[n] \in Landed /\ Inputs(n) \cap acc \subseteq Repair(st, acc, gating, targets).accepted
        BY <1>1, <4>2, RepairWhole
      <4> QED BY <2>5, <4>3 DEF st, acc, targets
    <3>3. status[n] \in Landed /\ Inputs(n) \cap moved = {} /\ Inputs(n) \cap accepted \subseteq checked.accepted
      BY <1>1, <3>2, CheckedWhole DEF checked, moved
    <3>4. gating \in Inputs(n) => onDisk[gating] = "same"
      BY <3>3 DEF moved, Moved
    <3> QED BY <1>1, <2>1, <3>2, <3>3, <3>4 DEF Stays, Undisturbed, TypeOK
  <2> QED BY <2>2, <2>3, <2>4, <2>5
<1> QED BY <1>4, <1>5

LEMMA ReviewWhole ==
    ASSUME TypeOK, NEW r \in Nodes, EvidenceChanged(r) \/ Reject(r), NEW n \in Nodes, status'[n] \in Landed
    PROVE  Stays(n)
<1>1. PICK st \in {status, Rejected(r)}, targets \in SUBSET Nodes :
        /\ status' = Repair(st, accepted, r, targets).status
        /\ accepted' = Repair(st, accepted, r, targets).accepted
  <2>1. CASE EvidenceChanged(r)
    BY <2>1, ProducersIn DEF EvidenceChanged, ReviewChanges
  <2>2. CASE Reject(r)
    <3>1. PICK targets \in SUBSET Producers(r) : ReviewChanges(Repair(Rejected(r), accepted, r, targets))
      BY <2>2 DEF Reject
    <3>2. targets \in SUBSET Nodes
      BY ProducersIn
    <3> QED BY <3>1, <3>2 DEF ReviewChanges
  <2> QED BY <2>1, <2>2
<1>2. DOMAIN st = Nodes /\ (st[n] \in Landed => status[n] \in Landed)
  BY DEF Rejected, TypeOK, Landed
<1>3. st[n] \in Landed /\ Inputs(n) \cap accepted \subseteq accepted'
  BY <1>1, <1>2, RepairWhole
<1>4. onDisk' = onDisk
  BY DEF EvidenceChanged, Reject, ReviewChanges
<1> QED BY <1>2, <1>3, <1>4 DEF Stays, Undisturbed

LEMMA OtherWhole ==
    ASSUME TypeOK, NEW n \in Nodes, status'[n] \in Landed,
           \/ ComputeFrontier \/ StartBatch \/ BatchesDone \/ EndSweep \/ Halt \/ End \/ Abort \/ Crash
           \/ UNCHANGED vars
           \/ \E m \in Nodes : \/ Fail(m) \/ Throw(m) \/ PassOver(m) \/ Accept(m) \/ OperatorAccepts(m) \/ Misdirect(m)
                               \/ \E verdict \in {"approved", "rejected"} : Decide(m, verdict)
           \/ \E a \in Editable : Edit(a)
    PROVE  Stays(n)
<1>1. accepted \subseteq accepted'
  BY DEF ComputeFrontier, StartBatch, DispatchBatch, BatchesDone, EndSweep, Halt, End, Abort, Crash, Fail, Throw,
         PassOver, Accept, OperatorAccepts, AcceptVerification, Misdirect, ReviewChanges, Decide, Decided, Edit, vars, run
<1>2. \A a \in Artifacts : onDisk'[a] = "same" => onDisk[a] = "same"
  <2>1. ASSUME NEW S, LeavesFiles(S) PROVE \A a \in Artifacts : onDisk'[a] = "same" => onDisk[a] = "same"
    BY <2>1 DEF LeavesFiles
  <2>2. CASE Crash \/ \E m \in Nodes : Fail(m) \/ Throw(m)
    BY <2>1, <2>2 DEF Crash, Fail, Throw
  <2>3. CASE \E a \in Editable : Edit(a)
    BY <2>3 DEF Edit, TypeOK
  <2>4. CASE onDisk' = onDisk
    BY <2>4
  <2> QED BY <2>2, <2>3, <2>4
          DEF ComputeFrontier, StartBatch, DispatchBatch, BatchesDone, EndSweep, Halt, End, Abort, PassOver, Accept,
              OperatorAccepts, AcceptVerification, Misdirect, ReviewChanges, Decide, Decided, vars
<1>3. status[n] \in Landed
  <2>1. CASE ComputeFrontier \/ End
    BY <2>1 DEF ComputeFrontier, End, Classified, ReadyFor, Eligible, Landed
  <2>2. CASE StartBatch
    BY <2>2 DEF StartBatch, DispatchBatch, Landed
  <2>3. CASE \/ BatchesDone \/ EndSweep \/ Halt \/ Abort \/ Crash \/ UNCHANGED vars
             \/ \E m \in Nodes : Throw(m) \/ PassOver(m)
             \/ \E a \in Editable : Edit(a)
    BY <2>3 DEF BatchesDone, EndSweep, Halt, Abort, Crash, Throw, PassOver, Edit, vars, run
  <2>4. ASSUME NEW m \in Nodes, Fail(m) PROVE status[n] \in Landed
    BY <2>4 DEF Fail, TypeOK, Landed
  <2>5. ASSUME NEW m \in Nodes, Misdirect(m) PROVE status[n] \in Landed
    BY <2>5 DEF Misdirect, Rejected, ReviewChanges, TypeOK, Landed
  <2>6. ASSUME NEW m \in Nodes, AcceptVerification(m) PROVE status[n] \in Landed
    BY <2>6 DEF AcceptVerification, PendingReviews, TypeOK, Landed
  <2>7. ASSUME NEW m \in Nodes, NEW verdict \in {"approved", "rejected"}, Decide(m, verdict)
        PROVE  status[n] \in Landed
    BY <2>7 DEF Decide, Decided, TypeOK, Landed
  <2> QED BY <2>1, <2>2, <2>3, <2>4, <2>5, <2>6, <2>7 DEF Accept, OperatorAccepts
<1> QED BY <1>1, <1>2, <1>3, NothingDisturbed DEF Stays

\* Every step but a patch: what has landed after it had landed before.
LEMMA StepWhole ==
    ASSUME SparedApart, TypeOK, [Next]_vars, \A m \in Nodes : ~Complete(m), NEW n \in Nodes, status'[n] \in Landed
    PROVE  Stays(n)
<1>1. CASE Work
  <2>1. ASSUME NEW rewrote \in BOOLEAN, GateThrows(rewrote) \/ \E passed \in BOOLEAN : Gate(passed, rewrote)
        PROVE  Stays(n)
    BY <2>1, GateWhole
  <2>2. ASSUME NEW m \in Nodes, DropReview(m) \/ EvidenceChanged(m) \/ Reject(m) PROVE Stays(n)
    BY <2>2, DropReviewWhole, ReviewWhole
  <2> QED BY <1>1, <2>1, <2>2, OtherWhole DEF Work
<1> QED BY <1>1, OpenWhole, OtherWhole DEF Next

\* Nothing that has landed stays so through a step that drops, rejects or replaces
\* an input of its; only an output that comes again with the same bytes, and is
\* now to be judged again, leaves its consumers as they are.
FallsTogether == [][\A n \in Nodes : status[n] \in Landed /\ status'[n] \in Landed =>
                       \A a \in Inputs(n) \cap accepted : /\ a \in accepted' \/ status'[a] = "unverified"
                                                          /\ onDisk'[a] = "same" => onDisk[a] = "same"]_vars

\* For every plan in which no audit hangs on its own verdict, the cascades of
\* invalidateDescendants and requestVerificationRepair are whole: they reach, in
\* the step that sets them off, all that rests on what fell, at any distance.
THEOREM CascadesWhole == ASSUME SparedApart PROVE Spec => FallsTogether
<1> DEFINE Whole == \A n \in Nodes : status[n] \in Landed /\ status'[n] \in Landed =>
                       \A a \in Inputs(n) \cap accepted : /\ a \in accepted' \/ status'[a] = "unverified"
                                                          /\ onDisk'[a] = "same" => onDisk[a] = "same"
<1>1. ASSUME TypeOK, [Next]_vars PROVE Whole
  <2>1. CASE \E m \in Nodes : Complete(m)
    <3>1. PICK m \in Nodes : Complete(m)
      BY <2>1
    <3>2. ASSUME NEW n \in Nodes, status'[n] \in Landed
          PROVE  \A a \in Inputs(n) \cap accepted : /\ a \in accepted' \/ (a = m /\ status'[a] = "unverified")
                                                    /\ onDisk'[a] = "same" => onDisk[a] = "same"
      BY <1>1, <3>1, <3>2, CompleteWhole
    <3> QED BY <3>2
  <2>2. CASE \A m \in Nodes : ~Complete(m)
    BY <1>1, <2>2, StepWhole DEF Stays, Undisturbed
  <2> QED BY <2>1, <2>2
<1>2. TypeOK /\ [Next]_vars => [Whole]_vars
  BY <1>1
<1> QED BY <1>2, InitTypes, StepTypes, PTL DEF Spec, FallsTogether

\* What has landed rests on accepted inputs.
LandedStand == \A n \in Nodes : status[n] \in Landed => Inputs(n) \subseteq accepted

\* In the same plans only a patch can leave something on an input that is not
\* accepted: the one that lands on an input that fell while it was at work, or
\* brings an output again with the same bytes.
OnlyPatchesUnsettle == [][LandedStand /\ ~LandedStand' => \E m \in Nodes : Complete(m)]_vars

THEOREM OnlyPatches == ASSUME SparedApart PROVE Spec => OnlyPatchesUnsettle
<1> DEFINE Settled == LandedStand /\ ~LandedStand' => \E m \in Nodes : Complete(m)
<1>1. ASSUME TypeOK, [Next]_vars PROVE Settled
  <2> SUFFICES ASSUME LandedStand, \A m \in Nodes : ~Complete(m) PROVE LandedStand'
    OBVIOUS
  <2>1. ASSUME NEW n \in Nodes, status'[n] \in Landed PROVE Inputs(n) \subseteq accepted'
    BY <1>1, <2>1, StepWhole DEF Stays, Undisturbed, LandedStand
  <2> QED BY <2>1 DEF LandedStand
<1>2. TypeOK /\ [Next]_vars => [Settled]_vars
  BY <1>1
<1> QED BY <1>2, InitTypes, StepTypes, PTL DEF Spec, OnlyPatchesUnsettle
=============================================================================
