---------------------------- MODULE SharedClaims -----------------------------
(***************************************************************************)
(* kernel/reducer/shared-claims.ts and its only caller, the dispatch of a  *)
(* node in kernel/session/run.ts.  A worker is one dispatch by a session   *)
(* of some business: it claims every resource of its node in sorted order, *)
(* executes under a heartbeat, checks its ownership, makes the result      *)
(* durable and releases.  Claim files are changed under a guard file, one  *)
(* file-system call per step.                                              *)
(***************************************************************************)
EXTENDS Naturals, FiniteSets

CONSTANTS Workers,       \* dispatches, each in a process of its own
          NumResources,  \* devices and provider projects, in the order they sort
          NoOne,         \* no claim, no guard
          Wedged,        \* owned by a worker that has ended
          Ttl,           \* validity of a claim
          MaxTime,       \* bound on the clock
          CanCrash       \* whether a process may die

ASSUME ClaimsAssumption ==
    /\ NumResources \in Nat \ {0} /\ Ttl \in Nat \ {0} /\ MaxTime \in Nat /\ CanCrash \in BOOLEAN
    /\ NoOne \notin Workers /\ Wedged \notin Workers /\ NoOne # Wedged

VARIABLES clock,
          record,   \* the claim file of each resource
          guard,    \* ${file}.lock
          needs,    \* node.sharedResources of each worker
          phase,    \* where the dispatch stands
          step,     \* the next file-system call of the transaction in progress
          now,      \* the instant that transaction was given
          seen,     \* the record it read
          todo,     \* the resources the loop in progress has not reached
          claims,   \* the claims in hand
          lost,     \* sharedOwnershipLost
          reason    \* why an acquisition was refused

loop == <<todo, claims>>
transaction == <<step, now, seen>>
vars == <<clock, record, guard, needs, phase, transaction, loop, lost, reason>>

Resources == 1..NumResources

\* recordSchema: the claim, if any, and when the resource may be claimed again.
Record == [owner : Workers \cup {NoOne}, expiresAt : Nat, nextAllowedAt : Nat]

Unclaimed(at) == [owner |-> NoOne, expiresAt |-> 0, nextAllowedAt |-> at]

\* The loops visit the resources in sorted order.
First(S) == CHOOSE r \in S : \A other \in S : r <= other

Target(w) == First(todo[w])

Init == /\ clock = 0
        /\ record = [r \in Resources |-> Unclaimed(0)]
        /\ guard = [r \in Resources |-> NoOne]
        /\ needs \in [Workers -> SUBSET Resources \ {{}}]
        /\ phase = [w \in Workers |-> "idle"]
        /\ step = [w \in Workers |-> "none"]
        /\ now = [w \in Workers |-> 0]
        /\ seen = [w \in Workers |-> Unclaimed(0)]
        /\ todo = [w \in Workers |-> {}]
        /\ claims = [w \in Workers |-> {}]
        /\ lost = [w \in Workers |-> FALSE]
        /\ reason = [w \in Workers |-> "none"]

Transacting == {"acquire", "rollback", "renew", "release"}

Between(w, p) == phase[w] = p /\ step[w] = "none"

Enter(w, p) == phase' = [phase EXCEPT ![w] = p]

Owns(rec, w) == rec.owner = w

\* ownership_lost: somebody else's claim, or one that has expired.
Current(rec, w, at) == Owns(rec, w) /\ rec.expiresAt > at

\* The instant and the record are local to the transaction.
Forget(w) == now' = [now EXCEPT ![w] = 0] /\ seen' = [seen EXCEPT ![w] = Unclaimed(0)]

\* Goes on to the dispatch after a refused acquisition.
FailedWithoutReturn(w, why) ==
    /\ todo' = [todo EXCEPT ![w] = {}]
    /\ Enter(w, CASE phase[w] = "acquire"  -> "ready"
                  [] phase[w] = "renew"    -> "executing"
                  [] phase[w] = "rollback" -> "thrown"
                  [] phase[w] = "release"  -> "parked")
    /\ lost' = [lost EXCEPT ![w] = @ \/ phase[w] = "renew"]
    /\ reason' = [reason EXCEPT ![w] = IF phase[w] = "acquire" THEN why ELSE @]

\* A transaction that fails: the acquisition loop rolls back, a heartbeat notes
\* the loss, a rollback throws out of the session and a release parks the node.
Failed(w, why) ==
    /\ todo' = [todo EXCEPT ![w] = IF phase[w] = "acquire" THEN claims[w] ELSE {}]
    /\ Enter(w, CASE phase[w] = "acquire"  -> "rollback"
                  [] phase[w] = "renew"    -> "executing"
                  [] phase[w] = "rollback" -> "thrown"
                  [] phase[w] = "release"  -> "parked")
    /\ lost' = [lost EXCEPT ![w] = @ \/ phase[w] = "renew"]
    /\ reason' = [reason EXCEPT ![w] = IF phase[w] = "acquire" THEN why ELSE @]
-----------------------------------------------------------------------------
(* transact *)

\* The guard is taken even though its file exists.
OpenAnyway(w) ==
    /\ phase[w] \in Transacting /\ step[w] = "none" /\ todo[w] # {}
    /\ now' = [now EXCEPT ![w] = clock]
    /\ guard' = [guard EXCEPT ![Target(w)] = w]
    /\ step' = [step EXCEPT ![w] = "read"]
    /\ UNCHANGED <<clock, record, needs, seen, phase, loop, lost, reason>>

\* openSync(guard, "wx"): EEXIST answers busy.
Open(w) ==
    /\ phase[w] \in Transacting /\ step[w] = "none" /\ todo[w] # {}
    /\ \/ /\ guard[Target(w)] = NoOne
          /\ now' = [now EXCEPT ![w] = clock]
          /\ guard' = [guard EXCEPT ![Target(w)] = w]
          /\ step' = [step EXCEPT ![w] = "read"]
          /\ UNCHANGED <<phase, todo, lost, reason>>
       \/ /\ guard[Target(w)] # NoOne
          /\ Failed(w, "contention")
          /\ UNCHANGED <<guard, step, now>>
    /\ UNCHANGED <<clock, record, needs, seen, claims>>

Read(w) ==
    /\ step[w] = "read"
    /\ seen' = [seen EXCEPT ![w] = record[Target(w)]]
    /\ step' = [step EXCEPT ![w] = "rename"]
    /\ UNCHANGED <<clock, record, guard, needs, phase, now, loop, lost, reason>>

\* Takes over a claim whose owner let it expire.
AcceptsExpired(w) ==
    CASE phase[w] = "acquire" -> (seen[w].owner = NoOne \/ seen[w].expiresAt <= now[w])
                                 /\ seen[w].nextAllowedAt <= now[w]
      [] OTHER -> Current(seen[w], w, now[w])

\* Whether the operation goes through: an acquisition finds no claim, not even
\* an expired one, and no cooldown; a renewal or a release finds its own.
Accepts(w) == CASE phase[w] = "acquire" -> seen[w].owner = NoOne /\ seen[w].nextAllowedAt <= now[w]
                [] OTHER -> Current(seen[w], w, now[w])

Candidate(w) == CASE phase[w] \in {"acquire", "renew"} -> [owner |-> w, expiresAt |-> now[w] + Ttl, nextAllowedAt |-> 0]
                  [] OTHER -> Unclaimed(now[w])

\* writeFileSync of a temporary and renameSync over the record.
Rename(w) ==
    /\ step[w] = "rename" /\ Accepts(w)
    /\ record' = [record EXCEPT ![Target(w)] = Candidate(w)]
    /\ claims' = [claims EXCEPT ![w] = IF phase[w] \in {"acquire", "renew"} THEN @ \cup {Target(w)}
                                       ELSE @ \ {Target(w)}]
    /\ step' = [step EXCEPT ![w] = "unguard"]
    /\ UNCHANGED <<clock, guard, needs, phase, now, seen, todo, lost, reason>>

\* A refused acquisition rewrites the record it read; a throw writes nothing.
Decline(w) ==
    /\ step[w] = "rename" /\ ~Accepts(w)
    /\ record' = IF phase[w] = "acquire" THEN [record EXCEPT ![Target(w)] = seen[w]] ELSE record
    /\ step' = [step EXCEPT ![w] = "unguardFailed"]
    /\ UNCHANGED <<clock, guard, needs, phase, now, seen, loop, lost, reason>>

\* Leaves the guard behind when the operation threw.
UnguardOnSuccessOnly(w) ==
    /\ step[w] \in {"unguard", "unguardFailed"}
    /\ guard' = IF step[w] = "unguard" THEN [guard EXCEPT ![Target(w)] = NoOne] ELSE guard
    /\ step' = [step EXCEPT ![w] = "none"]
    /\ IF step[w] = "unguard"
         THEN todo' = [todo EXCEPT ![w] = @ \ {Target(w)}] /\ UNCHANGED <<phase, lost, reason>>
         ELSE Failed(w, IF seen[w].owner # NoOne /\ seen[w].expiresAt <= now[w] THEN "reconciliation" ELSE "contention")
    /\ Forget(w)
    /\ UNCHANGED <<clock, record, needs, claims>>

\* The finally clause: unlinkSync(guard).
Unguard(w) ==
    /\ step[w] \in {"unguard", "unguardFailed"}
    /\ guard' = [guard EXCEPT ![Target(w)] = NoOne]
    /\ step' = [step EXCEPT ![w] = "none"]
    /\ IF step[w] = "unguard"
         THEN todo' = [todo EXCEPT ![w] = @ \ {Target(w)}] /\ UNCHANGED <<phase, lost, reason>>
         ELSE Failed(w, IF seen[w].owner # NoOne /\ seen[w].expiresAt <= now[w] THEN "reconciliation" ELSE "contention")
    /\ Forget(w)
    /\ UNCHANGED <<clock, record, needs, claims>>

Transact(w) == Open(w) \/ Read(w) \/ Rename(w) \/ Decline(w) \/ Unguard(w)
-----------------------------------------------------------------------------
(* The dispatch of one node *)

\* assertSharedOwnership reads every record, without a guard.
Asserted(w) == ~lost[w] /\ \A r \in claims[w] : Current(record[r], w, clock)

Start(w) ==
    /\ Between(w, "idle")
    /\ Enter(w, "acquire")
    /\ todo' = [todo EXCEPT ![w] = needs[w]]
    /\ UNCHANGED <<clock, record, guard, needs, transaction, claims, lost, reason>>

Acquired(w) ==
    /\ Between(w, "acquire") /\ todo[w] = {}
    /\ Enter(w, "ready")
    /\ UNCHANGED <<clock, record, guard, needs, transaction, loop, lost, reason>>

\* The estimate cannot be recorded, or the node has no attempt left.
GiveUp(w) ==
    /\ Between(w, "ready")
    /\ Enter(w, "rollback")
    /\ todo' = [todo EXCEPT ![w] = claims[w]]
    /\ reason' = [reason EXCEPT ![w] = "attempt"]
    /\ UNCHANGED <<clock, record, guard, needs, transaction, claims, lost>>

\* Only contention makes the node eligible again in a later session.
RolledBack(w) ==
    /\ Between(w, "rollback") /\ todo[w] = {}
    /\ Enter(w, IF reason[w] = "contention" THEN "idle" ELSE "blocked")
    /\ UNCHANGED <<clock, record, guard, needs, transaction, loop, lost, reason>>

\* The attempt has begun, so a lost claim parks the node.
Dispatch(w) ==
    /\ Between(w, "ready")
    /\ Enter(w, IF Asserted(w) THEN "executing" ELSE "parked")
    /\ UNCHANGED <<clock, record, guard, needs, transaction, loop, lost, reason>>

\* The timer, or the executor's own heartbeat callback.
Heartbeat(w) ==
    /\ Between(w, "executing")
    /\ Enter(w, "renew")
    /\ todo' = [todo EXCEPT ![w] = claims[w]]
    /\ UNCHANGED <<clock, record, guard, needs, transaction, claims, lost, reason>>

Renewed(w) ==
    /\ Between(w, "renew") /\ todo[w] = {}
    /\ Enter(w, "executing")
    /\ UNCHANGED <<clock, record, guard, needs, transaction, loop, lost, reason>>

\* The executor returns: a failure is uncertain, and so is success after a loss.
Finish(w) ==
    /\ Between(w, "executing")
    /\ \/ Enter(w, "parked")
       \/ Enter(w, IF Asserted(w) THEN "gates" ELSE "parked")
    /\ UNCHANGED <<clock, record, guard, needs, transaction, loop, lost, reason>>

\* Does nothing about a node whose claim was lost.
GatesWithoutPark(w) ==
    /\ Between(w, "gates") /\ Asserted(w)
    /\ Enter(w, "accept")
    /\ UNCHANGED <<clock, record, guard, needs, transaction, loop, lost, reason>>

\* The gates block the process, timers included, for as long as they take; then
\* ownership is checked once more.
Gates(w) ==
    /\ Between(w, "gates")
    /\ Enter(w, IF Asserted(w) THEN "accept" ELSE "parked")
    /\ UNCHANGED <<clock, record, guard, needs, transaction, loop, lost, reason>>

\* writeRunState: the result is durable.
Accept(w) ==
    /\ Between(w, "accept")
    /\ Enter(w, "accepted")
    /\ UNCHANGED <<clock, record, guard, needs, transaction, loop, lost, reason>>

BeginRelease(w) ==
    /\ Between(w, "accepted")
    /\ Enter(w, IF Asserted(w) THEN "release" ELSE "parked")
    /\ todo' = [todo EXCEPT ![w] = IF Asserted(w) THEN claims[w] ELSE {}]
    /\ UNCHANGED <<clock, record, guard, needs, transaction, claims, lost, reason>>

Released(w) ==
    /\ Between(w, "release") /\ todo[w] = {}
    /\ Enter(w, "done")
    /\ UNCHANGED <<clock, record, guard, needs, transaction, loop, lost, reason>>
-----------------------------------------------------------------------------
(* The environment *)

Ended == {"blocked", "thrown", "parked", "done", "dead"}

Crash(w) ==
    /\ CanCrash /\ phase[w] \notin Ended \cup {"idle"}
    /\ Enter(w, "dead")
    /\ step' = [step EXCEPT ![w] = "none"]
    /\ Forget(w)
    /\ UNCHANGED <<clock, record, guard, needs, loop, lost, reason>>

\* "Explicit local recovery": the operator deletes the guard of a dead process.
ClearGuard(r) ==
    /\ guard[r] # NoOne /\ phase[guard[r]] = "dead"
    /\ guard' = [guard EXCEPT ![r] = NoOne]
    /\ UNCHANGED <<clock, record, needs, phase, transaction, loop, lost, reason>>

Tick == /\ clock < MaxTime
        /\ clock' = clock + 1
        /\ UNCHANGED <<record, guard, needs, phase, transaction, loop, lost, reason>>

Proceed(w) == \/ Transact(w) \/ Start(w) \/ Acquired(w) \/ RolledBack(w) \/ Dispatch(w)
              \/ Renewed(w) \/ Finish(w) \/ Gates(w) \/ Accept(w) \/ BeginRelease(w) \/ Released(w)

Next == \/ \E w \in Workers : Proceed(w) \/ GiveUp(w) \/ Heartbeat(w) \/ Crash(w)
        \/ \E r \in Resources : ClearGuard(r)
        \/ Tick

Spec == Init /\ [][Next]_vars

\* A process that runs goes on, and between two heartbeats its executor gets to
\* return in the end.
Fairness == \A w \in Workers : WF_vars(Proceed(w)) /\ SF_vars(Finish(w))

FairSpec == Spec /\ Fairness
-----------------------------------------------------------------------------
(* Properties *)

Phases == Transacting \cup Ended \cup {"idle", "ready", "executing", "gates", "accept", "accepted"}

TypeOK == /\ clock \in Nat
          /\ record \in [Resources -> Record]
          /\ guard \in [Resources -> Workers \cup {NoOne}]
          /\ needs \in [Workers -> SUBSET Resources \ {{}}]
          /\ phase \in [Workers -> Phases]
          /\ step \in [Workers -> {"none", "read", "rename", "unguard", "unguardFailed"}]
          /\ now \in [Workers -> Nat]
          /\ seen \in [Workers -> Record]
          /\ todo \in [Workers -> SUBSET Resources]
          /\ claims \in [Workers -> SUBSET Resources]
          /\ lost \in [Workers -> BOOLEAN]
          /\ reason \in [Workers -> {"none", "contention", "reconciliation", "attempt"}]

(* A worker with a claim in hand is the owner on file, expired or not, and   *)
(* so is one that died or was parked with it: expiry never transfers         *)
(* ownership (shared-claims.ts:105).                                         *)
ClaimsOnFile == \A w \in Workers : \A r \in claims[w] : Owns(record[r], w)

(* What a worker executes, accepts or has left uncertain, nobody else uses.  *)
Using(w) == IF phase[w] \in {"renew", "executing", "gates", "accept", "accepted", "parked", "dead"}
            THEN claims[w] ELSE {}

ExclusiveUse == \A w, v \in Workers : w # v => Using(w) \cap Using(v) = {}

(* A worker executes and accepts only with every resource of its node.       *)
UsesAllItNeeds == \A w \in Workers :
    phase[w] \in {"renew", "executing", "gates", "accept", "accepted"} => claims[w] = needs[w]

(* Each claim file implements the lock Mutex: claimed when unclaimed,        *)
(* released by its owner, abandoned when the owner ends with it, never       *)
(* taken from an owner.                                                      *)
Holder(r) == IF record[r].owner = NoOne THEN NoOne
             ELSE IF phase[record[r].owner] \in Ended THEN Wedged ELSE record[r].owner

L(r) == INSTANCE Mutex WITH Procs <- Workers, Free <- NoOne, lock <- Holder(r)

ImplementsMutex == /\ \A r \in Resources : L(r)!Init
                   /\ [][\A r \in Resources : L(r)!Next \/ UNCHANGED Holder(r)]_vars

(* A guard file is there only while the transaction that made it is under    *)
(* way, or since its process died in it: what is refused or throws frees it. *)
InTransaction(w, r) == step[w] # "none" /\ Target(w) = r

GuardNeverLeft == \A r \in Resources :
    guard[r] # NoOne => InTransaction(guard[r], r) \/ phase[guard[r]] = "dead"

(* Every dispatch that starts ends or is deferred to a later session.        *)
DispatchEnds == \A w \in Workers : phase[w] = "acquire" ~> phase[w] \in Ended \cup {"idle"}
=============================================================================
