----------------------------- MODULE WorkOrders ------------------------------
(***************************************************************************)
(* Work orders (kernel/work-orders) in the run state: the operating        *)
(* service records them, a session dispatches the node of their workflow   *)
(* for them, and their status follows their attempts.  The session keeps   *)
(* the run state in memory under the session lock and writes it after each *)
(* step.  The operating service reads the file before it takes that lock   *)
(* (operate-bind.ts), verify.ts takes no lock at all, and both write back  *)
(* what they read.                                                         *)
(***************************************************************************)
EXTENDS Naturals, Sequences, FiniteSets

CONSTANTS Nodes,
          Effectful,     \* not idempotent (idempotent but guarded work: RunEngine)
          Judged,        \* verified by gates or a review
          Audits,        \* the design audit
          Shared,        \* nodes that claim a shared resource
          Orders,        \* possible occurrences, by recordedAt
          For,           \* the node of the workflow of each
          Operators,     \* calls of the operating service, or of verify.ts
          MaxAttempts,
          Changeable, MaxChanges,   \* bounds: nodes whose contract or scope may change, how often,
          MaxHistory, MaxCalls      \* attempts of a node, calls

ASSUME WorkOrdersAssumption ==
    /\ Orders \subseteq Nat \ {0} /\ For \in [Orders -> Nodes]
    /\ Effectful \subseteq Nodes /\ Judged \subseteq Nodes /\ Audits \subseteq Judged /\ Shared \subseteq Nodes
    /\ Changeable \subseteq Nodes
    /\ MaxAttempts \in Nat \ {0} /\ MaxHistory \in [Nodes -> Nat] /\ MaxChanges \in Nat /\ MaxCalls \in Nat

VARIABLES run,         \* [status, attempts, order, active, rescoped]: of the session, or of the next
          disk,        \* the run state in the file
          phase,       \* of the session: down, dead (its lock is left), loop, batch
          offered,     \* nodes of its batch not dispatched yet
          busy,        \* nodes an executor works on
          loaded,      \* operators that have read the run state
          copy,        \* what each has read
          uncertain,   \* Effectful nodes whose effect was ever in doubt
          overwritten, \* an operator wrote back something else than it found
          changes, calls

state == <<run, disk, uncertain>>
session == <<phase, offered, busy>>
operate == <<loaded, copy, overwritten, calls>>
vars == <<state, session, operate, changes>>

\* "set_aside" is not needed, or waits for the answer whether it is.
Statuses == {"pending", "stale", "set_aside", "running", "unverified", "needs_readback", "blocked", "failed", "succeeded"}
OrderStatuses == {"absent", "authorized", "running", "observing", "exhausted", "refused"}
Attempts == [order : Orders \cup {0},
             status : {"running", "blocked", "succeeded", "failed", "orphaned", "needs_readback"}]

Seeded == [status |-> [n \in Nodes |-> "pending"], attempts |-> [n \in Nodes |-> <<>>],
           order |-> [o \in Orders |-> "absent"], active |-> {}, rescoped |-> {}]

Init == /\ run = Seeded /\ disk = Seeded /\ phase = "down" /\ offered = {} /\ busy = {}
        /\ loaded = {} /\ calls = 0 /\ copy = [p \in Operators |-> Seeded]
        /\ uncertain = {} /\ overwritten = FALSE /\ changes = 0
-----------------------------------------------------------------------------
(* Operations of the run state *)

Newest(r, n) == r.attempts[n][Len(r.attempts[n])]

Of(r, n, o) == {i \in DOMAIN r.attempts[n] : r.attempts[n][i].order = o}

\* Counts the attempts of other orders too.
UsedByAll(r, n, o) == Len(r.attempts[n])

\* currentCycleAttempts: of that order, or of the newest attempt's, or all.
Used(r, n, o) ==
    LET owner == IF o # 0 \/ r.attempts[n] = <<>> THEN o ELSE Newest(r, n).order
    IN  IF owner # 0 THEN Cardinality(Of(r, n, owner)) ELSE Len(r.attempts[n])

Exhausted(r, n, o) == Used(r, n, o) >= MaxAttempts
Retried(r, n) == IF Exhausted(r, n, 0) THEN "blocked" ELSE "stale"

Dispatchable(r, o) ==
    /\ r.order[o] = "authorized" /\ o \in r.active
    /\ \A n \in Nodes : \A i \in Of(r, n, o) : r.attempts[n][i].status # "running"

Waiting(r, n) == {o \in Orders : For[o] = n /\ Dispatchable(r, o)}

\* takeAuthorizedOccurrence
Taken(r, n) == IF Waiting(r, n) = {} THEN 0
               ELSE CHOOSE o \in Waiting(r, n) : \A other \in Waiting(r, n) : o <= other

\* Every attempt of an order ends in one of these; 0 is the order of ordinary work.
Moved(r, o, from, to) == [p \in Orders |-> IF p = o /\ r.order[p] \in from THEN to ELSE r.order[p]]
Restored(r, o) == Moved(r, o, {"running"}, "authorized")
Proved(r, o) == Moved(r, o, {"running"}, "observing")

\* The newest attempt of n ends.
Ended(r, n, attempt, status, order) ==
    [r EXCEPT !.attempts[n][Len(r.attempts[n])].status = attempt, !.status[n] = status, !.order = order]

\* reopenNodesForAuthorizedWorkOrders
Reopened(r) ==
    [r EXCEPT !.status = [n \in Nodes |->
        IF /\ Waiting(r, n) # {} /\ r.status[n] \in {"succeeded", "failed", "blocked"}
           /\ r.status[n] = "blocked" /\ r.attempts[n] # <<>> => Newest(r, n).status # "blocked"
        THEN "stale" ELSE r.status[n]]]

\* detectOrphans, of running nodes whose time is up.
OrphanedAs(r, nodes, waiting) ==
    [r EXCEPT !.status   = [n \in Nodes |-> IF n \notin nodes THEN @[n]
                                            ELSE IF n \in waiting THEN "needs_readback" ELSE "pending"],
              !.attempts = [n \in Nodes |-> IF n \in nodes THEN [r.attempts[n] EXCEPT ![Len(r.attempts[n])].status = "orphaned"]
                                            ELSE r.attempts[n]],
              !.order    = [o \in Orders |-> IF For[o] \in nodes \ waiting /\ Newest(r, For[o]).order = o /\ @[o] = "running"
                                              THEN "authorized" ELSE @[o]]]

OrphanedReady(r, nodes) == OrphanedAs(r, nodes, {})

Orphaned(r, nodes) == OrphanedAs(r, nodes, Effectful)

\* reconcileRunPlan, of nodes whose contract changed.
Replanned(r, nodes) ==
    [r EXCEPT !.status = [n \in Nodes |-> IF n \notin nodes THEN @[n]
                                          ELSE IF r.attempts[n] # <<>> /\ n \in Effectful THEN "needs_readback"
                                          ELSE Retried(r, n)],
              !.order  = [o \in Orders |-> IF For[o] \in nodes /\ @[o] # "absent" THEN "refused" ELSE @[o]]]

\* reconcileWorkflowApplicability, of nodes whose verdict or profile changed: their
\* proof lapses, and whatever they were doing, the needed ones may be done (again).
Rescoped(r, nodes, needed) ==
    [r EXCEPT !.status = [n \in Nodes |-> IF n \notin nodes THEN @[n]
                                          ELSE IF n \in needed THEN "pending" ELSE "set_aside"],
              !.rescoped = @ \cup nodes]

\* requestVerificationRepair, of a node that is its own producer.
RejectedAs(r, n, order) ==
    Ended(r, n, "failed", IF n \in Effectful /\ ~Exhausted(r, n, 0) THEN "needs_readback" ELSE Retried(r, n), order)

\* The order goes on running.
RejectedKeeping(r, n) == RejectedAs(r, n, r.order)

Rejected(r, n) == RejectedAs(r, n, Restored(r, Newest(r, n).order))
-----------------------------------------------------------------------------
(* A session *)

\* writeRunState; uncertain is history.
Write(r) == /\ run' = r /\ disk' = r
            /\ uncertain' = uncertain \cup {n \in Effectful : r.status[n] = "needs_readback"}

Running(r) == {n \in Nodes : r.status[n] = "running" /\ r.attempts[n] # <<>> /\ Newest(r, n).status = "running"}

Up == phase \in {"loop", "batch"}

Changing(nodes) == \/ nodes = {} /\ changes' = changes
                   \/ nodes # {} /\ changes < MaxChanges /\ changes' = changes + 1

\* Some of the plan's contracts may have changed, and some attempts have run out of time.
Enter ==
    /\ ~Up /\ phase' = "loop"
    /\ \E changed \in SUBSET Changeable :
         /\ Changing(changed)
         /\ LET planned == Replanned(run, changed)
            IN  \E late \in SUBSET Running(planned) : Write(Reopened(Orphaned(planned, late)))
    /\ UNCHANGED <<offered, busy, operate>>

\* Some of the work may be out of scope now, or in it; what waits for an order
\* reopens; some of what may be done makes a batch, and the evaluator parks some
\* of the rest.
Frontier ==
    /\ phase = "loop" /\ busy = {}
    /\ \E changed \in SUBSET Changeable : \E needed \in SUBSET changed :
         /\ Changing(changed)
         /\ LET latest == Reopened(Rescoped(run, changed, needed))
                eligible == {n \in Nodes : latest.status[n] \in {"pending", "stale"}}
            IN  \E batch \in SUBSET eligible : \E parked \in SUBSET (eligible \ batch) :
                  /\ Write([latest EXCEPT !.status = [n \in Nodes |-> IF n \in parked THEN "blocked" ELSE @[n]]])
                  /\ offered' = batch /\ phase' = IF batch = {} THEN "loop" ELSE "batch"
    /\ UNCHANGED <<busy, operate>>

\* The final seam refuses.
Park(n) ==
    /\ phase = "batch" /\ n \in offered /\ offered' = offered \ {n}
    /\ Write([run EXCEPT !.status[n] = "blocked"])
    /\ UNCHANGED <<phase, busy, operate, changes>>

Begin(n) ==
    LET o == Taken(run, n)
    IN  /\ phase = "batch" /\ n \in offered /\ offered' = offered \ {n}
        /\ ~Exhausted(run, n, o) /\ Len(run.attempts[n]) < MaxHistory[n]
        /\ Write([run EXCEPT !.status[n] = "running",
                             !.attempts[n] = Append(@, [order |-> o, status |-> "running"]),
                             !.order = Moved(run, o, {"authorized"}, "running")])
        /\ busy' = busy \cup {n}
        /\ UNCHANGED <<phase, operate, changes>>

BeginExhausted(n) ==
    LET o == Taken(run, n)
    IN  /\ phase = "batch" /\ n \in offered /\ offered' = offered \ {n}
        /\ Exhausted(run, n, o)
        /\ Write([run EXCEPT !.status[n] = "blocked", !.order = Moved(run, o, {"authorized"}, "exhausted")])
        /\ UNCHANGED <<phase, busy, operate, changes>>

BatchDone == /\ phase = "batch" /\ offered = {} /\ busy = {} /\ phase' = "loop"
             /\ UNCHANGED <<state, offered, busy, operate, changes>>

\* The heartbeat writes the run state while workers are at work.
Heartbeat == busy # {} /\ Write(run) /\ UNCHANGED <<session, operate, changes>>

Returns(n) == offered = {} /\ n \in busy /\ busy' = busy \ {n} /\ UNCHANGED <<phase, offered, operate, changes>>

\* A design audit without valid evidence may try again.
Fail(n) == /\ Returns(n) /\ n \notin Shared
           /\ \E status \in {"failed"} \cup IF n \in Audits THEN {Retried(run, n)} ELSE {} :
                Write(Ended(run, n, "failed", status, Restored(run, Newest(run, n).order)))

Land(n) == /\ Returns(n)
           /\ Write(IF n \in Judged THEN Ended(run, n, "blocked", "unverified", run.order)
                    ELSE Ended(run, n, "succeeded", "succeeded", Proved(run, Newest(run, n).order)))

Verifying(n) == Up /\ run.status[n] = "unverified" /\ n \notin busy /\ UNCHANGED <<session, operate, changes>>

\* Proves the oldest order there is for the workflow.
AcceptedOldest(r, n) ==
    LET live == {o \in Orders : For[o] = n /\ r.order[o] \in {"authorized", "running"}}
        o == IF live = {} THEN 0 ELSE CHOOSE p \in live : \A q \in live : p <= q
    IN  Ended(r, n, "succeeded", "succeeded", Moved(r, o, {"authorized", "running"}, "observing"))

\* acceptVerification
Accepted(r, n) == Ended(r, n, "succeeded", "succeeded", Proved(r, Newest(r, n).order))

\* Gates or a review in a session.
Accept(n) == Verifying(n) /\ Write(Accepted(run, n))

Reject(n) == Verifying(n) /\ Write(Rejected(run, n))

\* The evidence of a design audit is invalid: its order is not restored.
RejectEvidence(n) ==
    /\ Verifying(n) /\ phase = "batch" /\ n \in Audits
    /\ Write(Ended(run, n, "failed", Retried(run, n), run.order))

\* A shared resource was lost meanwhile: before the output was taken in, before it was
\* judged, or after it was accepted or rejected and its order moved with it.
ParkReadback(n) ==
    /\ n \in Shared
    /\ Returns(n) \/ (Verifying(n) /\ phase = "batch")
    /\ \E order \in {run.order, Proved(run, Newest(run, n).order)}
                     \cup IF n \in Judged THEN {Restored(run, Newest(run, n).order)} ELSE {} :
         Write(Ended(run, n, "needs_readback", "needs_readback", order))

Leave == /\ phase = "loop" /\ phase' = "down" /\ Write(run)
         /\ UNCHANGED <<offered, busy, operate, changes>>

\* Killed, its lock left behind, or ended by an error that was thrown; what is
\* not in the file is lost, and what its workers did by then nobody knows.
Die == /\ Up /\ phase' \in {"dead", "down"} /\ offered' = {} /\ busy' = {}
       /\ run' = disk
       /\ uncertain' = uncertain \cup (busy \cap Effectful)
       /\ UNCHANGED <<disk, operate, changes>>
-----------------------------------------------------------------------------
(* The operating service and the verifier's command *)

Load(p) == /\ p \notin loaded /\ loaded' = loaded \cup {p}
           /\ calls < MaxCalls /\ calls' = calls + 1
           /\ copy' = [copy EXCEPT ![p] = disk]
           /\ UNCHANGED <<state, session, overwritten, changes>>

Writes(p) == /\ p \in loaded /\ loaded' = loaded \ {p}
             /\ overwritten' = (overwritten \/ copy[p] # disk)
             /\ copy' = [copy EXCEPT ![p] = Seeded]
             /\ UNCHANGED <<session, changes, calls>>

\* Its caller knows the mandate revoked, which is noted on the order; otherwise
\* the order is recorded, unless it is there.
Noted(r, o) == [r EXCEPT !.active = @ \ {o}]
Recorded(r, o) == IF r.order[o] # "absent" THEN r
                  ELSE [r EXCEPT !.order[o] = "authorized", !.active = @ \cup {o}]

Commit(p) == /\ Writes(p) /\ phase = "down"
             /\ \E o \in Orders : \E r \in {Noted(copy[p], o), Recorded(copy[p], o)} : Write(r)

\* verify.ts accepts in the copy it has read, beside a session or not.  A session
\* does not see it: the next write of its own replaces it.
Verify(p) == /\ Writes(p)
             /\ \E n \in Nodes : copy[p].status[n] = "unverified" /\ disk' = Accepted(copy[p], n)
             /\ run' = IF Up THEN run ELSE disk'
             /\ UNCHANGED uncertain

Next == \/ Enter \/ Frontier \/ BatchDone \/ Heartbeat \/ Leave \/ Die
        \/ \E n \in Nodes : \/ Park(n) \/ Begin(n) \/ BeginExhausted(n) \/ Fail(n) \/ ParkReadback(n) \/ Land(n)
                            \/ Accept(n) \/ Reject(n) \/ RejectEvidence(n)
        \/ \E p \in Operators : Load(p) \/ Commit(p) \/ Verify(p)

Spec == Init /\ [][Next]_vars
-----------------------------------------------------------------------------
(* Properties *)

Runs == [status : [Nodes -> Statuses], attempts : [Nodes -> Seq(Attempts)],
         order : [Orders -> OrderStatuses], active : SUBSET Orders, rescoped : SUBSET Nodes]

TypeOK ==
    /\ run \in Runs /\ disk \in Runs /\ copy \in [Operators -> Runs]
    /\ phase \in {"down", "dead", "loop", "batch"}
    /\ offered \subseteq Nodes /\ busy \subseteq Nodes
    /\ loaded \subseteq Operators /\ calls \in Nat
    /\ uncertain \subseteq Effectful /\ overwritten \in BOOLEAN /\ changes \in Nat

(* An order that runs has the newest attempt of its node, and that attempt   *)
(* is at work, judged or waits for a read-back (two things aside: a design   *)
(* audit, see RejectEvidence, and work whose scope changed under it, see     *)
(* Rescoped); a result that waits for a judgment belongs to an order that    *)
(* still runs, or recordWorkOrderProof would throw in the acceptance.        *)
OrderFollowsAttempt ==
    /\ \A o \in Orders : run.order[o] = "running" /\ For[o] \notin Audits \cup run.rescoped =>
         /\ run.attempts[For[o]] # <<>> /\ Newest(run, For[o]).order = o
         /\ run.status[For[o]] \in {"running", "unverified", "needs_readback"}
    /\ \A n \in Nodes : run.status[n] = "unverified" /\ Newest(run, n).order # 0 =>
         run.order[Newest(run, n).order] = "running"

(* An order under observation was proved by exactly one attempt of its own;  *)
(* or, if the shared resource of that attempt was found lost right after, by *)
(* none that still counts: its proof is withdrawn while it goes on being     *)
(* observed.  Either way a proved order is never worked on again.            *)
ProvedOnce ==
    \A o \in Orders :
      LET mine == Of(run, For[o], o)
          won == {i \in mine : run.attempts[For[o]][i].status = "succeeded"}
          parked == {i \in mine : run.attempts[For[o]][i].status = "needs_readback"}
      IN  /\ run.order[o] = "observing" =>
               \/ Cardinality(won) = 1
               \/ won = {} /\ For[o] \in Shared /\ \E i \in parked : \A j \in mine : j <= i
          /\ won # {} => run.order[o] \in {"observing", "refused"}

(* However its attempts end, in whatever sessions, an order gets no more     *)
(* than its node's, and only with all of them used up is it exhausted.       *)
OrderBounded ==
    \A o \in Orders : /\ Cardinality(Of(run, For[o], o)) <= MaxAttempts
                      /\ run.order[o] = "exhausted" => Cardinality(Of(run, For[o], o)) = MaxAttempts

(* runstate.ts, detectOrphans: "a provider read-back must establish ground   *)
(* truth before anything retries".  A session starts work again whose effect *)
(* is uncertain only after its scope has changed, or once an operation or    *)
(* verify.ts has written back a run state it had read before.                *)
RetryExplained == \A n \in busy \cap uncertain : overwritten \/ n \in run.rescoped

NoBlindRetry == busy \cap uncertain = {}
=============================================================================
