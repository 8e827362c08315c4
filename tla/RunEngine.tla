------------------------------ MODULE RunEngine ------------------------------
(***************************************************************************)
(* kernel/engine (runstate, frontier, dispatch, verification) driven by    *)
(* the session loop of kernel/session/run.ts: one run of a compiled plan,  *)
(* worked on by one session at a time.  A node consumes artifacts and      *)
(* produces one, which bears its name; its result stands only once gates   *)
(* or an independent review have judged it, and falls when an artifact it  *)
(* consumed changes.  Sessions crash, executors fail, files are edited.    *)
(***************************************************************************)
EXTENDS Naturals, FiniteSets

CONSTANTS Nodes, Materials,   \* the plan's nodes; artifacts nothing produces
          Existing,           \* artifacts whose files precede the run
          NoNode,
          Rank,               \* the plan's order
          Deps, Reads,        \* nodes awaited; artifacts read besides their outputs
          Consults,           \* artifacts watched but not waited for
          ReviewOf,           \* producers an audit judges
          Gated, Reviewed,    \* judged by gates, by an independent review, or both
          Idempotent, Guarded, Recurring, NeedsApproval,
          Restricted,         \* nodes the autonomy evaluator may refuse
          Priced,             \* nodes whose estimate goes on record before they start
          Conflicts,          \* pairs of nodes over an exclusive resource
          MaxConcurrency, MaxAttempts,
          Editable, MaxEdits  \* bounds: artifacts edited from outside, how often

Artifacts == Nodes \cup Materials

ASSUME PlanAssumption ==
    /\ NoNode \notin Nodes
    /\ Deps \in [Nodes -> SUBSET Nodes] /\ Reads \in [Nodes -> SUBSET Artifacts]
    /\ Consults \in [Nodes -> SUBSET Artifacts] /\ ReviewOf \in [Nodes -> SUBSET Nodes]
    /\ Reviewed \subseteq Nodes /\ Gated \subseteq Nodes
    /\ Rank \in [Nodes -> Nat] /\ Editable \subseteq Artifacts
    /\ MaxAttempts \in Nat \ {0} /\ MaxConcurrency \in Nat \ {0} /\ MaxEdits \in Nat

VARIABLES status,     \* of each node; "unverified" is blocked by "Verification required"
          used,       \* attempts in the current cycle
          tried,      \* nodes with any attempt on record
          decision,   \* the founder's, on each node's approval
          accepted,   \* artifact bindings accepted
          produced,   \* artifact bindings with a producedBy
          bound,      \* what the recorded fingerprint is of
          gates,      \* gate receipt of the last attempt
          attested,   \* nodes with an accepted review that still matches the files
          onDisk      \* the file of each artifact, compared with its binding

VARIABLES phase,      \* of the session
          offered,    \* frontier nodes not yet dispatched
          executing,  \* nodes whose executor runs
          gating,     \* the node whose output landed and whose gates run
          queue,      \* reviews the sweep has not reached
          progress,   \* whether the sweep achieved anything
          doomed,     \* an error was thrown that ends the session
          edits

run == <<status, used, tried, decision, accepted, produced, bound, gates, attested>>
session == <<phase, offered, executing, gating, queue, progress, doomed>>
vars == <<run, onDisk, session, edits>>

Statuses == {"pending", "stale", "waiting_founder", "running", "unverified", "needs_readback",
             "blocked", "failed", "succeeded"}
Eligible == {"pending", "stale"}      \* "pending" stands for "ready" as well

Inputs(n) == Deps[n] \cup Reads[n]
Watched(n) == Inputs(n) \cup Consults[n]
Subjects(n) == {n} \cup ReviewOf[n]
Plain(n) == n \notin Gated \cup Reviewed
NeedsReadback(n) == n \notin Idempotent \/ n \in Guarded

Exhausted(n) == used[n] >= MaxAttempts

ReopenedAnyway(n) == "stale"                         \* mutant: no read-back
Reopened(n) == IF n \in tried /\ NeedsReadback(n) THEN "needs_readback" ELSE "stale"

Init == /\ status = [n \in Nodes |-> "pending"] /\ used = [n \in Nodes |-> 0] /\ tried = {}
        /\ decision = [n \in Nodes |-> IF n \in NeedsApproval THEN "pending" ELSE "approved"]
        /\ accepted = {} /\ produced = {} /\ attested = {}
        /\ bound = [a \in Artifacts |-> "none"]
        /\ gates = [n \in Nodes |-> "none"]
        /\ onDisk = [a \in Artifacts |-> IF a \in Existing THEN "edited" ELSE "absent"]
        /\ phase = "closed" /\ offered = {} /\ executing = {} /\ gating = NoNode
        /\ queue = {} /\ progress = FALSE /\ doomed = FALSE /\ edits = 0

-----------------------------------------------------------------------------
\* Operations of the run state: from statuses st and accepted bindings acc to both.

\* The descendants of changed artifacts: the least set of nodes, none stale
\* already and none spared, that watch one of them or an output of the set.
HitDirectly(st, changed, spared) ==                  \* mutant: one level only
    {n \in Nodes \ spared : st[n] # "stale" /\ Watched(n) \cap changed # {}}
Hit(st, changed, spared) ==
    LET Closed(S) == \A n \in Nodes \ spared :
                        st[n] # "stale" /\ Watched(n) \cap (changed \cup S) # {} => n \in S
    IN  {n \in Nodes : \A S \in SUBSET Nodes : Closed(S) => n \in S}

Invalidate(st, acc, changed, spared) ==
    LET hit == Hit(st, changed, spared)
    IN  [status |-> [n \in Nodes |-> IF n \in hit THEN Reopened(n) ELSE st[n]], accepted |-> acc \ hit]

\* A rejected judgment of n reopens the targets, within their attempts.
Repair(st, acc, n, targets) ==
    LET fallen == Invalidate(st, acc \ targets, targets, {})
        Target(t) == IF NeedsReadback(t) THEN "needs_readback"
                     ELSE IF Exhausted(t) THEN "blocked" ELSE "stale"
        reopened == {t \in targets : Target(t) = "stale"}
        repaired == [m \in Nodes |-> IF m \in targets THEN Target(m) ELSE fallen.status[m]]
    IN  IF Exhausted(n) THEN [status |-> [st EXCEPT ![n] = "blocked"], accepted |-> acc, reopened |-> {}]
        ELSE [status   |-> IF ReviewOf[n] # {} /\ reopened = {} THEN [repaired EXCEPT ![n] = "blocked"]
                           ELSE repaired,
              accepted |-> fallen.accepted,
              reopened |-> reopened]

Producers(n) == IF ReviewOf[n] # {} THEN ReviewOf[n] ELSE {n}

\* Reviews whose subjects or criteria are among the artifacts S.
Touched(S) == {n \in Nodes : (Subjects(n) \cup Reads[n]) \cap S # {}}

ReadyFor(n, st, acc) == /\ st[n] \in Eligible
                        /\ \A d \in Deps[n] : st[d] = "succeeded"
                        /\ Inputs(n) \subseteq acc

Frontier(st, acc, refused) ==
    {n \in Nodes : ReadyFor(n, st, acc) /\ n \notin refused /\ decision[n] = "approved"}

\* computeFrontier demotes what is ready but not allowed, and no later frontier looks at it again.
Classified(st, acc, refused) ==
    [n \in Nodes |-> IF ~ReadyFor(n, st, acc) THEN st[n]
                     ELSE IF n \in refused \/ decision[n] = "rejected" THEN "blocked"
                     ELSE IF decision[n] = "pending" THEN "waiting_founder" ELSE "pending"]

PendingReviews(st) == {n \in Reviewed : /\ st[n] = "unverified"
                                        /\ \/ n \notin Gated \/ gates[n] = "passed"
                                           \/ gates[n] = "failed" /\ ReviewOf[n] # {}}

Batch == LET Fits(S) == /\ Cardinality(S) <= MaxConcurrency
                        /\ \A a, b \in S : <<a, b>> \notin Conflicts
         IN  {n \in offered : Fits({m \in offered : Rank[m] <= Rank[n]})}

-----------------------------------------------------------------------------
\* The session's steps.

\* Files on disk that no attempt of this run produced, when they are not yet taken in.
FoundAnyway == {a \in Artifacts : /\ onDisk[a] # "absent"       \* mutant: producedBy ignored
                                  /\ a \notin accepted \/ onDisk[a] # "same"}
Found == {a \in Artifacts \ produced : /\ onDisk[a] # "absent"
                                       /\ a \notin accepted \/ onDisk[a] # "same"}

\* Orphans are resolved, files without a producer taken in, recurring work reopened.
Open == /\ phase = "closed" /\ phase' = "loop"
        /\ \E expired \in SUBSET {n \in Nodes : status[n] = "running"},
              due \in SUBSET {n \in Recurring : status[n] = "succeeded"} :
             LET orphaned == [n \in Nodes |-> IF n \notin expired THEN status[n]
                                              ELSE IF n \in Idempotent THEN "pending" ELSE "needs_readback"]
                 changed == {a \in Found \cap accepted : onDisk[a] # "same"}
                 fallen == Invalidate(orphaned, accepted \cup Found, changed, {})
                 recur == {n \in due : fallen.status[n] = "succeeded"}
             IN  /\ status' = [n \in Nodes |-> IF n \in recur THEN "stale" ELSE fallen.status[n]]
                 /\ used' = [n \in Nodes |-> IF n \in recur THEN 0 ELSE used[n]]
                 /\ accepted' = fallen.accepted
                 /\ bound' = [a \in Artifacts |->
                                CASE a \notin Found -> bound[a]
                                  [] a \in Found /\ onDisk[a] = "same" -> bound[a]
                                  [] a \in Found /\ onDisk[a] = "leftover" -> "unjudged"
                                  [] OTHER -> "given"]
                 /\ onDisk' = [a \in Artifacts |-> IF a \in Found THEN "same" ELSE onDisk[a]]
        /\ UNCHANGED <<tried, decision, produced, gates, attested, offered, executing, gating,
                       queue, progress, doomed, edits>>

StaleReviews == {n \in Reviewed : status[n] = "succeeded" /\ n \in tried /\ n \notin attested}

\* The loop first reopens, in plan order, the reviews that no longer match the files.
DropReview(n) ==
    /\ phase = "loop" /\ n \in StaleReviews
    /\ \A m \in StaleReviews : Rank[n] <= Rank[m]
    /\ LET fallen == Invalidate([status EXCEPT ![n] = Reopened(n)], accepted \ {n}, {n}, ReviewOf[n])
       IN  status' = fallen.status /\ accepted' = fallen.accepted
    /\ UNCHANGED <<used, tried, decision, produced, bound, gates, attested, onDisk, session, edits>>

ComputeFrontier ==
    /\ phase = "loop" /\ StaleReviews = {}
    /\ \E refused \in SUBSET Restricted :
         /\ status' = Classified(status, accepted, refused)
         /\ offered' = Frontier(status, accepted, refused)
    /\ phase' = IF offered' # {} THEN "dispatch" ELSE "sweep"
    /\ queue' = IF offered' # {} THEN {} ELSE PendingReviews(status')
    /\ progress' = FALSE
    /\ UNCHANGED <<used, tried, decision, accepted, produced, bound, gates, attested, onDisk,
                   executing, gating, doomed, edits>>

Idle == executing = {} /\ gating = NoNode

\* The dispatch seam asks the founder's decision and the evaluator again; a
\* node's readiness it takes from the frontier.  A node whose estimate could
\* not be recorded is left as it is, for the next frontier to offer again.
DispatchBatch(unrecorded) ==
    /\ phase = "dispatch" /\ Idle /\ ~doomed /\ offered # {}
    /\ \E refused \in SUBSET (Restricted \cap Batch) :
         LET approved == {n \in Batch : decision[n] = "approved"}
             begun == {n \in approved \ (refused \cup unrecorded) : ~Exhausted(n)}
         IN  /\ unrecorded \subseteq approved \ refused
             /\ executing' = begun
             /\ status' = [n \in Nodes |-> IF n \in begun THEN "running"
                                           ELSE IF n \in approved \ unrecorded THEN "blocked"
                                           ELSE IF n \in Batch \ approved THEN "waiting_founder" ELSE status[n]]
             /\ used' = [n \in Nodes |-> IF n \in begun THEN used[n] + 1 ELSE used[n]]
             /\ tried' = tried \cup begun
             /\ gates' = [n \in Nodes |-> IF n \in begun THEN "none" ELSE gates[n]]
             /\ attested' = attested \ begun
    /\ offered' = offered \ Batch
    /\ UNCHANGED <<decision, accepted, produced, bound, onDisk, phase, gating, queue, progress,
                   doomed, edits>>

StartBatch == \E unrecorded \in SUBSET (Priced \cap Batch) : DispatchBatch(unrecorded)

EstimateRefused == \E unrecorded \in SUBSET (Priced \cap Batch) \ {{}} : DispatchBatch(unrecorded)

BatchesDone == /\ phase = "dispatch" /\ Idle /\ ~doomed /\ offered = {}
               /\ phase' = "loop"
               /\ UNCHANGED <<run, onDisk, offered, executing, gating, queue, progress, doomed, edits>>

\* reconcilePatch: the output replaces the binding, and what relied on other bytes falls.
Complete(n) ==
    /\ n \in executing /\ gating = NoNode
    /\ \E differs \in BOOLEAN :
         /\ differs \/ (bound[n] # "none" /\ onDisk[n] = "same")
         /\ LET landed == [status EXCEPT ![n] = IF Plain(n) THEN "succeeded" ELSE "unverified"]
                kept == IF Plain(n) THEN accepted \cup {n} ELSE accepted \ {n}
                changed == IF n \in accepted /\ differs THEN {n} ELSE {}
                fallen == Invalidate(landed, kept, changed, {})
            IN  status' = fallen.status /\ accepted' = fallen.accepted
         /\ attested' = IF differs THEN attested \ Touched({n}) ELSE attested
    /\ produced' = produced \cup {n}
    /\ bound' = [bound EXCEPT ![n] = IF Plain(n) THEN "judged" ELSE "unjudged"]
    /\ onDisk' = [onDisk EXCEPT ![n] = "same"]
    /\ executing' = executing \ {n}
    /\ gating' = IF n \in Gated THEN n ELSE NoNode
    /\ UNCHANGED <<used, tried, decision, gates, phase, offered, queue, progress, doomed, edits>>

\* What an attempt that did not end well may have written.
LeavesFiles(S) == \E written \in SUBSET S :
                     /\ onDisk' = [a \in Artifacts |-> IF a \in written THEN "leftover" ELSE onDisk[a]]
                     /\ attested' = attested \ Touched(written)

Fail(n) == /\ n \in executing /\ gating = NoNode
           /\ executing' = executing \ {n}
           /\ status' = [status EXCEPT ![n] = "failed"]
           /\ LeavesFiles({n})
           /\ UNCHANGED <<used, tried, decision, accepted, produced, bound, gates, phase, offered,
                          gating, queue, progress, doomed, edits>>

\* An executor that throws ends the session once its siblings have settled.
Throw(n) == /\ n \in executing /\ gating = NoNode
            /\ executing' = executing \ {n}
            /\ doomed' = TRUE
            /\ LeavesFiles({n})
            /\ UNCHANGED <<status, used, tried, decision, accepted, produced, bound, gates, phase,
                           offered, gating, queue, progress, edits>>

\* The gates may rewrite the output they check; the bytes they leave are the ones recorded.
Moved(rewrote) == IF rewrote \/ onDisk[gating] # "same" THEN {gating} ELSE {}
Checked(rewrote) == Invalidate(status, accepted, Moved(rewrote), {})

Gate(passed, rewrote) ==
    LET checked == Checked(rewrote)
        rejected == Repair(checked.status, checked.accepted, gating, Producers(gating))
        reviewed == gating \in Reviewed /\ (passed \/ ReviewOf[gating] # {})
    IN  /\ gating # NoNode /\ checked.status[gating] = "unverified"
        /\ gates' = [gates EXCEPT ![gating] = IF passed THEN "passed" ELSE "failed"]
        /\ \/ /\ reviewed         \* stays pending for the sweep
              /\ status' = checked.status /\ accepted' = checked.accepted
              /\ UNCHANGED bound
           \/ /\ ~reviewed /\ passed
              /\ status' = [checked.status EXCEPT ![gating] = "succeeded"]
              /\ accepted' = checked.accepted \cup {gating}
              /\ bound' = [bound EXCEPT ![gating] = "judged"]
           \/ /\ ~reviewed /\ ~passed
              /\ status' = rejected.status /\ accepted' = rejected.accepted
              /\ UNCHANGED bound
        /\ onDisk' = [onDisk EXCEPT ![gating] = "same"]
        /\ attested' = attested \ Touched(Moved(rewrote))
        /\ gating' = NoNode
        /\ UNCHANGED <<used, tried, decision, produced, phase, offered, executing, queue, progress,
                       doomed, edits>>

\* A gate receipt for a node no longer pending is an error thrown.  What it
\* leaves in memory is written by the siblings still at work, if there are any.
GateThrows(rewrote) ==
    LET checked == Checked(rewrote)
    IN  /\ gating # NoNode /\ checked.status[gating] # "unverified"
        /\ \/ /\ executing # {}
              /\ status' = checked.status /\ accepted' = checked.accepted
              /\ onDisk' = [onDisk EXCEPT ![gating] = "same"]
           \/ /\ executing = {}
              /\ onDisk' = [a \in Artifacts |-> IF a \in Moved(rewrote) THEN "edited" ELSE onDisk[a]]
              /\ UNCHANGED <<status, accepted>>
        /\ attested' = attested \ Touched(Moved(rewrote))
        /\ doomed' = TRUE /\ gating' = NoNode
        /\ UNCHANGED <<used, tried, decision, produced, bound, gates, phase, offered, executing,
                       queue, progress, edits>>

-----------------------------------------------------------------------------
\* The verification sweep, at an empty frontier.

Reviewing(n) == phase = "sweep" /\ n \in queue /\ queue' = queue \ {n}

ReviewChanges(repair) ==
    /\ status' = repair.status /\ accepted' = repair.accepted
    /\ progress' = (progress \/ repair.reopened # {})
    /\ UNCHANGED <<used, tried, decision, produced, bound, gates, attested, onDisk, phase, offered,
                   executing, gating, doomed, edits>>

PassOverCounts(n) ==                                 \* mutant: silence counts as progress
    /\ Reviewing(n) /\ progress' = TRUE
    /\ UNCHANGED <<run, onDisk, phase, offered, executing, gating, doomed, edits>>

\* An earlier verdict of this sweep settled it, or the verifier is unavailable.
PassOver(n) == /\ Reviewing(n)
               /\ UNCHANGED <<run, onDisk, phase, offered, executing, gating, progress, doomed, edits>>

EvidenceTrusted(n) == \A a \in Subjects(n) : bound[a] # "none"    \* mutant: files not read again
EvidenceHolds(n) == \A a \in Subjects(n) : onDisk[a] = "same" /\ bound[a] # "none"

\* acceptVerification, with the receipt of a review.
AcceptVerification(n) ==
    /\ n \in PendingReviews(status) /\ EvidenceHolds(n) /\ gates[n] # "failed"
    /\ status' = [status EXCEPT ![n] = "succeeded"]
    /\ accepted' = accepted \cup {n}
    /\ bound' = [bound EXCEPT ![n] = "judged"]
    /\ attested' = attested \cup {n}
    /\ UNCHANGED <<used, tried, decision, produced, gates, onDisk, offered, executing, gating,
                   doomed, edits>>

Accept(n) == /\ Reviewing(n) /\ AcceptVerification(n)
             /\ progress' = TRUE /\ phase' = phase

\* Artifacts that changed since they were produced, or while they were read.
EvidenceChanged(n) == /\ Reviewing(n) /\ n \in PendingReviews(status) /\ ~EvidenceHolds(n)
                      /\ ReviewChanges(Repair(status, accepted, n, Producers(n)))

Rejected(n) == [status EXCEPT ![n] = "blocked"]

Reject(n) == /\ Reviewing(n) /\ n \in PendingReviews(status) /\ EvidenceHolds(n)
             /\ \E targets \in SUBSET Producers(n) \ {{}} :
                  ReviewChanges(Repair(Rejected(n), accepted, n, targets))

\* A verdict whose targets are not the audit's own producers.
Misdirect(n) == /\ Reviewing(n) /\ n \in PendingReviews(status) /\ EvidenceHolds(n)
                /\ ReviewChanges([status |-> Rejected(n), accepted |-> accepted, reopened |-> {}])

EndSweep == /\ phase = "sweep" /\ queue = {}
            /\ phase' = IF progress THEN "loop" ELSE "ending"
            /\ UNCHANGED <<run, onDisk, offered, executing, gating, queue, progress, doomed, edits>>

\* Kill switch, yield or wall clock, seen at a boundary.
Halt == /\ phase \in {"loop", "dispatch", "sweep"} /\ Idle /\ ~doomed
        /\ phase' = "ending"
        /\ UNCHANGED <<run, onDisk, offered, executing, gating, queue, progress, doomed, edits>>

Closed == phase' = "closed" /\ offered' = {} /\ queue' = {} /\ progress' = FALSE /\ doomed' = FALSE

\* A last pass of the frontier, for the digest.
End == /\ phase = "ending"
       /\ \E refused \in SUBSET Restricted : status' = Classified(status, accepted, refused)
       /\ Closed
       /\ UNCHANGED <<used, tried, decision, accepted, produced, bound, gates, attested, onDisk,
                      executing, gating, edits>>

Abort == /\ doomed /\ Idle
         /\ Closed
         /\ UNCHANGED <<run, onDisk, executing, gating, edits>>

-----------------------------------------------------------------------------
\* Around the session.

Crash == /\ phase # "closed"
         /\ LeavesFiles(executing)
         /\ Closed /\ executing' = {} /\ gating' = NoNode
         /\ UNCHANGED <<status, used, tried, decision, accepted, produced, bound, gates, edits>>

\* approve.ts, under the session's lock.
Decided(n, verdict) ==
    /\ n \in NeedsApproval
    /\ decision' = [decision EXCEPT ![n] = verdict]
    /\ status' = [status EXCEPT ![n] = IF @ # "waiting_founder" THEN @
                                       ELSE IF verdict = "approved" THEN "pending" ELSE "blocked"]
    /\ UNCHANGED <<used, tried, accepted, produced, bound, gates, attested, onDisk, session, edits>>
DecideUnlocked(n, verdict) == Decided(n, verdict)    \* mutant: without the session's lock
Decide(n, verdict) == phase = "closed" /\ Decided(n, verdict)

\* verify.ts, an operator's acceptance between sessions.
OperatorAccepts(n) == /\ phase = "closed" /\ AcceptVerification(n)
                      /\ UNCHANGED <<phase, queue, progress>>

Edit(a) == /\ edits < MaxEdits /\ edits' = edits + 1
           /\ onDisk' = [onDisk EXCEPT ![a] = "edited"]
           /\ attested' = attested \ Touched({a})
           /\ UNCHANGED <<status, used, tried, decision, accepted, produced, bound, gates, session>>

Work == \/ ComputeFrontier \/ StartBatch \/ BatchesDone \/ EndSweep \/ End \/ Abort
        \/ \E rewrote \in BOOLEAN : GateThrows(rewrote) \/ \E passed \in BOOLEAN : Gate(passed, rewrote)
        \/ \E n \in Nodes : \/ DropReview(n) \/ Complete(n) \/ Fail(n) \/ Throw(n)
                            \/ PassOver(n) \/ Accept(n) \/ EvidenceChanged(n) \/ Reject(n) \/ Misdirect(n)

Next == \/ Open \/ Work \/ Halt \/ Crash
        \/ \E n \in Nodes : \/ \E verdict \in {"approved", "rejected"} : Decide(n, verdict)
                            \/ OperatorAccepts(n)
        \/ \E a \in Editable : Edit(a)

Spec == Init /\ [][Next]_vars /\ WF_vars(Work)

-----------------------------------------------------------------------------
TypeOK ==
    /\ status \in [Nodes -> Statuses] /\ used \in [Nodes -> 0..MaxAttempts] /\ tried \subseteq Nodes
    /\ decision \in [Nodes -> {"pending", "approved", "rejected"}]
    /\ accepted \subseteq Artifacts /\ produced \subseteq Nodes /\ attested \subseteq Reviewed
    /\ bound \in [Artifacts -> {"none", "given", "unjudged", "judged"}]
    /\ gates \in [Nodes -> {"none", "passed", "failed"}]
    /\ onDisk \in [Artifacts -> {"same", "edited", "leftover", "absent"}]
    /\ phase \in {"closed", "loop", "dispatch", "sweep", "ending"}
    /\ offered \subseteq Nodes /\ executing \subseteq Nodes /\ gating \in Nodes \cup {NoNode}
    /\ queue \subseteq Nodes /\ progress \in BOOLEAN /\ doomed \in BOOLEAN /\ edits \in 0..MaxEdits

\* Work that must not be repeated blindly is attempted at most once in a cycle:
\* no rejection, changed input, stale review, retry or dead session offers it again.
OneShot == \A n \in Nodes \ Idempotent : used[n] <= 1

\* A node that succeeded has an accepted output of its own making, recorded as
\* it was judged: nothing unjudged or found in the workspace ever replaces it.
SucceededJudged == \A n \in Nodes : status[n] = "succeeded" =>
                       n \in accepted \cap produced /\ bound[n] = "judged"

\* The plans of which InputsStand is claimed: no recurring work; every output
\* read is of an ancestor; an audit depends on what it judges and no node on
\* itself (catalog/validate.ts:308, 416); feedback, and the verdict of an audit,
\* reach the ancestors of a node from among them or from the node alone.
Ancestors(m) == {u \in Nodes : \A S \in SUBSET Nodes :
                   Deps[m] \subseteq S /\ (\A s \in S : Deps[s] \subseteq S) => u \in S}
ClosedPlan(K) == \A k \in K : Watched(k) \cap Nodes \subseteq K
PlanFlows ==
    /\ Recurring = {}
    /\ \A m \in Nodes :
         /\ Reads[m] \cap Nodes \subseteq Ancestors(m)
         /\ ReviewOf[m] \subseteq Deps[m] /\ m \notin Ancestors(m)
         /\ ClosedPlan(Ancestors(m)) \/ ClosedPlan(Ancestors(m) \cup {m})
         /\ \A a \in Nodes : ReviewOf[a] \cap Ancestors(m) # {} => a \in Ancestors(m) \cup {m}

\* Whatever succeeded rests on accepted inputs, if PlanFlows: rejecting or
\* changing one fells all that was built on it, at any distance, in the same
\* step, and nothing that is at work meanwhile lands on what has fallen.
InputsStand == \A n \in Nodes : status[n] = "succeeded" => Inputs(n) \subseteq accepted

\* What executes has the founder's approval all along: a decision cannot
\* slip in between the frontier, the dispatch and the end of the attempt.
ApprovedWork == \A n \in executing : decision[n] = "approved"

\* A node becomes succeeded only while its output, and every output it judges,
\* is on disk as the run recorded it, whoever edited it and whenever.
AcceptedAsFound == [][\A n \in Nodes : status[n] # "succeeded" /\ status'[n] = "succeeded" =>
                          \A a \in Subjects(n) : onDisk'[a] = "same" /\ bound'[a] # "none"]_vars

\* A session ends of its own accord: repairs, reviews and reopened work never
\* keep its loop going, however the verdicts fall.  Only estimates that are
\* refused for ever do (run.ts:1746), until a halt: the wall clock, a kill switch.
SessionEnds == <>[][~EstimateRefused]_vars => (phase # "closed" ~> phase = "closed")
=============================================================================
