------------------------------- MODULE Billing -------------------------------
(***************************************************************************)
(* hosted/builder-console/billing and the billing tables of                *)
(* hosted/knowledge-mcp/db/tenant.ts, for one account with one Stripe      *)
(* customer.  Stripe delivers its events at least once and in any order;   *)
(* workers apply a delivery, or read Stripe directly when the customer     *)
(* returns to the console; the cron runs the staleness sweep and then the  *)
(* grace sweep.  Every database statement is a step of its own, and a      *)
(* handler keeps across its awaits what it read.                           *)
(***************************************************************************)
EXTENDS Naturals, Sequences, FiniteSets

CONSTANTS Subs,       \* subscriptions of the customer
          Payers,     \* what an invoice may name: a subscription, or none
          Keys,       \* lookup keys of prices
          Plans,      \* sets of lookup keys that a subscription or an invoice may bill
          Workers,    \* requests being handled
          Reading,    \* whether the console reads Stripe
          Sweeping,   \* whether the cron runs
          Grace,      \* PAST_DUE_GRACE_MS, in ticks of the clock
          Ceiling,    \* ENTITLEMENT_STALENESS_CEILING_MS
          MaxClock,   \* bound on the clock
          MaxEvents,  \* bound on the events Stripe creates
          MaxFaults   \* bound on failed calls and evicted workers

ASSUME BillingAssumption ==
    /\ IsFiniteSet(Subs) /\ Plans \subseteq SUBSET Keys
    /\ {Reading, Sweeping} \subseteq BOOLEAN
    /\ {Grace, Ceiling, MaxClock, MaxEvents, MaxFaults} \subseteq Nat

VARIABLES clock,      \* seconds, from 1
          events,     \* what happened at Stripe, in order; an event's id is its index
          queue,      \* events Stripe has yet to see acknowledged
          processed,  \* processed_stripe_events
          mirror,     \* subscriptions
          gate,       \* entitlements
          handler,    \* the request of each worker
          cron,       \* the scheduled run
          faults

stripe == <<events, queue>>
vars == <<clock, stripe, processed, mirror, gate, handler, cron, faults>>

(* Instants. An event carries whole seconds; a direct read is stamped in   *)
(* the second before it, one tick per write; a sweep with its own instant. *)

Span == Cardinality(Subs) + 3
EventStamp(second) == Span * (second + 1)
ReadStamp(second, offset) == Span * second + offset
SweepStamp(second) == EventStamp(second) + Span - 1
SecondOf(stamp) == (stamp \div Span) - 1

NoStamp == 0
None == [observed |-> 0]

Open(k) == gate[k] # None /\ gate[k].active

\* "active" stands for active and trialing, "unpaid" for all that never entitles.
Statuses == {"active", "past_due", "unpaid"}

\* entitlement-policy.ts resolveEntitlement
Entitled(status, since, now) ==
    \/ status = "active"
    \/ status = "past_due" /\ (since = NoStamp \/ now - since <= Grace)

\* nextPastDueSince
NextSince(status, since, now) ==
    IF status # "past_due" THEN NoStamp ELSE IF since = NoStamp THEN now ELSE since

\* upsertEntitlement: an older or equal observation is discarded by the statement.
Upsert(k, row) == gate' = IF row.observed > gate[k].observed THEN [gate EXCEPT ![k] = row] ELSE gate

Grant(active, observed, synced, by) ==
    [active |-> active, observed |-> observed, synced |-> synced, by |-> by]

Stamped(s, since) == mirror' = [mirror EXCEPT ![s] = IF @ = None THEN @ ELSE [@ EXCEPT !.since = since]]

\* list: the subscriptions to apply, as a delivery or a read carries them; at: the current one.
Idle == [pc |-> "idle", event |-> 0, now |-> 0, list |-> <<>>, at |-> 1, row |-> None,
         active |-> FALSE, keys |-> {}, observed |-> 0]

CronIdle == [pc |-> "idle", now |-> 0, stale |-> {}, key |-> {}, sub |-> {}, verdict |-> FALSE, over |-> {}]

(* Stripe *)

Changes(s) == {i \in DOMAIN events : events[i].kind = "updated" /\ events[i].sub = s}
Latest(s) == events[CHOOSE i \in Changes(s) : \A j \in Changes(s) : j <= i]
Billing == {s \in Subs : Changes(s) # {}}
Having(status, k) == {s \in Billing : Latest(s).status = status /\ k \in Latest(s).keys}

Create(kind, s, status, keys) ==
    /\ Len(events) < MaxEvents
    /\ events' = Append(events, [kind |-> kind, sub |-> s, status |-> status, keys |-> keys, at |-> clock])
    /\ queue' = queue \cup {Len(events) + 1}
    /\ UNCHANGED <<clock, processed, mirror, gate, handler, cron, faults>>

Change(s, status, plan) ==
    /\ s \in Billing => <<Latest(s).status, Latest(s).keys>> # <<status, plan>>
    /\ Create("updated", s, status, plan)

\* An invoice tells nothing of a subscription's status, nor need there be one that is live.
Invoice(s, kind, keys) == Create(kind, s, "untold", keys)

Tick == /\ clock < MaxClock
        /\ clock' = clock + 1
        /\ UNCHANGED <<stripe, processed, mirror, gate, handler, cron, faults>>

Init == /\ clock = 1
        /\ events = <<>>
        /\ queue = {}
        /\ processed = {}
        /\ mirror = [s \in Subs |-> None]
        /\ gate = [k \in Keys |-> None]
        /\ handler = [w \in Workers |-> Idle]
        /\ cron = CronIdle
        /\ faults = 0

(* The webhook *)

Task(e) == [sub |-> events[e].sub, status |-> events[e].status, keys |-> events[e].keys,
            observed |-> EventStamp(events[e].at)]

FirstStep(e) == CASE events[e].kind = "updated" -> "read"
                  [] events[e].kind = "paid"    -> "clear"
                  [] events[e].kind = "failed"  -> "find"

Claim(w, e) ==
    /\ processed' = processed \cup {e}
    /\ handler' = [handler EXCEPT ![w] = [Idle EXCEPT !.pc = FirstStep(e), !.event = e, !.now = clock,
                                                     !.list = <<Task(e)>>]]

\* An insert that ignores a row that is there already.
DeliverUnchecked(w, e) ==
    /\ handler[w] = Idle
    /\ e \in queue
    /\ Claim(w, e)
    /\ UNCHANGED <<clock, stripe, mirror, gate, cron, faults>>

\* A finally around the whole delivery, the early return of a duplicate included.
DeliverReleasing(w, e) ==
    /\ handler[w] = Idle
    /\ e \in queue
    /\ IF e \in processed
          THEN /\ handler' = [handler EXCEPT ![w] = [Idle EXCEPT !.pc = "release", !.event = e]]
               /\ UNCHANGED processed
          ELSE Claim(w, e)
    /\ UNCHANGED <<clock, stripe, mirror, gate, cron, faults>>

\* recordProcessedStripeEvent: the insert is the idempotency check, and a duplicate is
\* acknowledged at once.
Deliver(w, e) ==
    /\ handler[w] = Idle
    /\ e \in queue
    /\ \/ /\ e \notin processed
          /\ Claim(w, e)
          /\ UNCHANGED queue
       \/ /\ e \in processed
          /\ queue' = queue \ {e}
          /\ UNCHANGED <<processed, handler>>
    /\ UNCHANGED <<clock, events, mirror, gate, cron, faults>>

\* The handler once the writes of its current keys are done.
Onward(h) ==
    IF h.keys # {} THEN h
    ELSE IF h.pc = "retire" THEN Idle
    ELSE IF h.at < Len(h.list) THEN [h EXCEPT !.at = @ + 1, !.pc = "read", !.row = None]
    ELSE [h EXCEPT !.pc = IF h.event # 0 THEN "answer" ELSE "list", !.row = None]

Current(h) == h.list[h.at]

Granting(h, active) ==
    Onward([h EXCEPT !.pc = "grant", !.active = active, !.keys = Current(h).keys,
                     !.observed = Current(h).observed])

\* upsertSubscription, its select: what is not newer than the mirror is discarded.
Read(w) ==
    LET h == handler[w]
        task == Current(h)
        row == mirror[task.sub]
    IN  /\ h.pc = "read"
        /\ handler' = [handler EXCEPT ![w] =
             IF row.observed >= task.observed
             THEN Granting(h, Entitled(row.status, row.since, h.now))
             ELSE [h EXCEPT !.pc = "write", !.row = row]]
        /\ UNCHANGED <<clock, stripe, processed, mirror, gate, cron, faults>>

\* upsertSubscription, its insert: whatever is there by now is replaced.
Write(w) ==
    LET h == handler[w]
        task == Current(h)
        since == NextSince(task.status, IF h.row = None THEN NoStamp ELSE h.row.since, h.now)
    IN  /\ h.pc = "write"
        /\ mirror' = [mirror EXCEPT ![task.sub] =
                        [status |-> task.status, since |-> since, observed |-> task.observed]]
        /\ handler' = [handler EXCEPT ![w] = Granting(h, Entitled(task.status, since, h.now))]
        /\ UNCHANGED <<clock, stripe, processed, gate, cron, faults>>

\* invoice.paid: the dunning stamp goes whatever the order of the events, and the
\* gate opens whatever is known of a subscription.
Clear(w) ==
    LET s == Current(handler[w]).sub
    IN  /\ handler[w].pc = "clear"
        /\ IF s \in Subs THEN Stamped(s, NoStamp) ELSE UNCHANGED mirror
        /\ handler' = [handler EXCEPT ![w] = Granting(@, TRUE)]
        /\ UNCHANGED <<clock, stripe, processed, gate, cron, faults>>

\* invoice.payment_failed: dunning starts here unless the mirror says otherwise, and
\* without a row of the mirror the gate closes.
Find(w) ==
    LET h == handler[w]
        s == Current(h).sub
        row == IF s \in Subs THEN mirror[s] ELSE None
        dunning == row # None /\ row.status \in {"active", "past_due"}
    IN  /\ h.pc = "find"
        /\ handler' = [handler EXCEPT ![w] =
             IF dunning /\ row.since = NoStamp THEN [h EXCEPT !.pc = "stamp"]
             ELSE Granting(h, dunning /\ Entitled("past_due", row.since, h.now))]
        /\ UNCHANGED <<clock, stripe, processed, mirror, gate, cron, faults>>

Stamp(w) ==
    LET s == Current(handler[w]).sub
    IN  /\ handler[w].pc = "stamp"
        /\ IF mirror[s] # None /\ mirror[s].since = NoStamp
              THEN Stamped(s, handler[w].now) ELSE UNCHANGED mirror
        /\ handler' = [handler EXCEPT ![w] = Granting(@, TRUE)]
        /\ UNCHANGED <<clock, stripe, processed, gate, cron, faults>>

GrantKey(w, k) ==
    LET h == handler[w]
        by == IF h.event # 0 THEN "webhook" ELSE "sync"
    IN  /\ h.pc \in {"grant", "retire"}
        /\ k \in h.keys
        /\ Upsert(k, Grant(h.active, h.observed, h.now, by))
        /\ handler' = [handler EXCEPT ![w] = Onward([h EXCEPT !.keys = @ \ {k}])]
        /\ UNCHANGED <<clock, stripe, processed, mirror, cron, faults>>

Answer(w) ==
    /\ handler[w].pc = "answer"
    /\ queue' = queue \ {handler[w].event}
    /\ handler' = [handler EXCEPT ![w] = Idle]
    /\ UNCHANGED <<clock, events, processed, mirror, gate, cron, faults>>

\* A write fails: the claim is given back and Stripe is answered 500.
Release(w) ==
    /\ handler[w].pc = "release"
    /\ processed' = processed \ {handler[w].event}
    /\ handler' = [handler EXCEPT ![w] = Idle]
    /\ UNCHANGED <<clock, stripe, mirror, gate, cron, faults>>

(* The console's direct read *)

Rank(status) == CASE status = "active" -> 2 [] status = "past_due" -> 1 [] OTHER -> 0

Before(s, t) ==
    LET rank(x) == Rank(Latest(x).status)
    IN  \/ rank(s) < rank(t)
        \/ rank(s) = rank(t) /\ \A j \in Changes(t) : \E i \in Changes(s) : i < j

Orders == {order \in [1..Cardinality(Billing) -> Billing] :
             \A i, j \in DOMAIN order : i < j => Before(order[i], order[j])}

StartSync(w) ==
    /\ Reading
    /\ handler[w] = Idle
    /\ handler' = [handler EXCEPT ![w] = [Idle EXCEPT !.pc = "fetch", !.now = clock]]
    /\ UNCHANGED <<clock, stripe, processed, mirror, gate, cron, faults>>

\* What Stripe lists is stamped one tick apart from base, the plan in force last.
Fetched(w, base) ==
    /\ handler[w].pc = "fetch"
    /\ \E order \in Orders : handler' = [handler EXCEPT
         ![w].pc = IF Billing = {} THEN "list" ELSE "read",
         ![w].list = [i \in 1..Cardinality(Billing) |->
                        [sub |-> order[i], status |-> Latest(order[i]).status,
                         keys |-> Latest(order[i]).keys, observed |-> base + i - 1]]]
    /\ UNCHANGED <<clock, stripe, processed, mirror, gate, cron, faults>>

\* Stamped when the answer of Stripe is used, not in the second before it was asked.
FetchStampedLate(w) == Fetched(w, SweepStamp(clock))

Fetch(w) == Fetched(w, ReadStamp(handler[w].now, 0))

\* Entitlements that no subscription bills any more.
ListRetired(w) ==
    LET h == handler[w]
        billed == UNION {h.list[i].keys : i \in DOMAIN h.list}
    IN  /\ h.pc = "list"
        /\ handler' = [handler EXCEPT ![w] =
             Onward([h EXCEPT !.pc = "retire", !.active = FALSE,
                              !.keys = {k \in Keys : Open(k)} \ billed,
                              !.observed = ReadStamp(h.now, Len(h.list))])]
        /\ UNCHANGED <<clock, stripe, processed, mirror, gate, cron, faults>>

(* Failures *)

AtDatabase == {"read", "write", "clear", "find", "stamp", "grant", "list", "retire"}

Fault == /\ faults < MaxFaults
         /\ faults' = faults + 1
         /\ UNCHANGED <<clock, stripe, processed, mirror, gate>>

\* A statement throws, the notice's own reads after the last write included: the webhook gives
\* its claim back, the console falls back to the mirror.
Fail(w) ==
    LET h == handler[w]
    IN  /\ Fault
        /\ h.pc \in AtDatabase \/ (h.pc = "answer" /\ events[h.event].kind = "updated")
        /\ handler' = [handler EXCEPT ![w] = IF h.event = 0 THEN Idle ELSE [Idle EXCEPT !.pc = "release", !.event = h.event]]
        /\ UNCHANGED cron

\* The worker is evicted, its answer is lost, or the release of the claim fails.
Die(w) ==
    /\ Fault
    /\ handler[w] # Idle
    /\ handler' = [handler EXCEPT ![w] = Idle]
    /\ UNCHANGED cron

(* The scheduled run *)

StartCron ==
    /\ Sweeping
    /\ cron = CronIdle
    /\ cron' = [CronIdle EXCEPT !.pc = "stale", !.now = clock,
                  !.stale = {k \in Keys : gate[k] # None /\ clock > gate[k].synced + Ceiling}]
    /\ UNCHANGED <<clock, stripe, processed, mirror, gate, handler, faults>>

\* resolveStripeEntitlement: a live plan answers, else one in dunning, else none.
SweepRead(k) ==
    /\ cron.pc = "stale"
    /\ k \in cron.stale
    /\ \/ /\ Having("active", k) # {} \/ Having("past_due", k) = {}
          /\ cron' = [cron EXCEPT !.pc = "put", !.key = {k}, !.verdict = Having("active", k) # {}]
       \/ /\ Having("active", k) = {}
          /\ \E s \in Having("past_due", k) : cron' = [cron EXCEPT !.pc = "stamp", !.key = {k}, !.sub = {s}]
    /\ UNCHANGED <<clock, stripe, processed, mirror, gate, handler, faults>>

SweepStamps ==
    /\ cron.pc = "stamp"
    /\ \A s \in cron.sub : IF mirror[s] # None /\ mirror[s].since = NoStamp
                               THEN Stamped(s, cron.now) ELSE UNCHANGED mirror
    /\ cron' = [cron EXCEPT !.pc = "check"]
    /\ UNCHANGED <<clock, stripe, processed, gate, handler, faults>>

\* A subscription that was never mirrored has no window.
SweepChecks ==
    /\ cron.pc = "check"
    /\ cron' = [cron EXCEPT !.pc = "put", !.sub = {},
                  !.verdict = \A s \in cron.sub : /\ mirror[s] # None
                                                  /\ mirror[s].since # NoStamp
                                                  /\ Entitled("past_due", mirror[s].since, cron.now)]
    /\ UNCHANGED <<clock, stripe, processed, mirror, gate, handler, faults>>

SweepPutAs(k, at, synced) ==
    /\ cron.pc = "put"
    /\ cron.key = {k}
    /\ Upsert(k, Grant(cron.verdict, SweepStamp(at), synced, "staleness"))
    /\ cron' = [cron EXCEPT !.pc = "stale", !.stale = @ \ {k}, !.key = {}, !.verdict = FALSE]
    /\ UNCHANGED <<clock, stripe, processed, mirror, handler, faults>>

\* With a fresh Date for the write; with the row's old synced_at.
SweepPutLate(k) == SweepPutAs(k, clock, cron.now)
SweepPutUnsynced(k) == cron.key = {k} /\ SweepPutAs(k, cron.now, gate[k].synced)

SweepPut(k) == SweepPutAs(k, cron.now, cron.now)

\* listOverGracePastDueSubscriptions
OverGrace(now) ==
    {s \in Subs : /\ mirror[s] # None
                  /\ mirror[s].status = "past_due"
                  /\ mirror[s].since # NoStamp
                  /\ now > mirror[s].since + Grace
                  /\ \E k \in Keys : Open(k)}

ListOverGrace ==
    /\ cron.pc = "stale"
    /\ cron.stale = {}
    /\ cron' = IF OverGrace(cron.now) = {} THEN CronIdle
               ELSE [cron EXCEPT !.pc = "grace", !.over = OverGrace(cron.now)]
    /\ UNCHANGED <<clock, stripe, processed, mirror, gate, handler, faults>>

\* listActiveEntitlementsForCustomer: all that the customer holds, whatever bills it.
ListActive(s) ==
    /\ cron.pc = "grace"
    /\ s \in cron.over
    /\ cron' = [cron EXCEPT !.pc = "revoke", !.over = @ \ {s},
                  !.key = {k \in Keys : Open(k)}]
    /\ UNCHANGED <<clock, stripe, processed, mirror, gate, handler, faults>>

RevokeAs(k, stamp) ==
    /\ cron.pc = "revoke"
    /\ k \in cron.key
    /\ Upsert(k, Grant(FALSE, stamp, cron.now, "grace"))
    /\ cron' = [cron EXCEPT !.key = @ \ {k}]
    /\ UNCHANGED <<clock, stripe, processed, mirror, handler, faults>>

\* Stamped as the console stamps what it reads.
RevokeStampedEarly(k) == RevokeAs(k, ReadStamp(cron.now, 0))

Revoke(k) == RevokeAs(k, SweepStamp(cron.now))

NextOverGrace ==
    /\ cron.pc = "revoke"
    /\ cron.key = {}
    /\ cron' = IF cron.over = {} THEN CronIdle ELSE [cron EXCEPT !.pc = "grace"]
    /\ UNCHANGED <<clock, stripe, processed, mirror, gate, handler, faults>>

\* A row, a subscription or the whole run is left to the next run.
SkipRow ==
    /\ Fault
    /\ \/ /\ cron.pc \in {"stamp", "check", "put"}
          /\ cron' = [cron EXCEPT !.pc = "stale", !.stale = @ \ cron.key, !.key = {}, !.sub = {}, !.verdict = FALSE]
       \/ /\ cron.pc = "revoke"
          /\ cron' = [cron EXCEPT !.key = {}]
       \/ /\ cron # CronIdle
          /\ cron' = CronIdle
    /\ UNCHANGED handler

Serve(w) ==
    \/ Read(w) \/ Write(w) \/ Clear(w) \/ Find(w) \/ Stamp(w)
    \/ \E k \in Keys : GrantKey(w, k)
    \/ Answer(w) \/ Release(w) \/ Fetch(w) \/ ListRetired(w)

Sweep ==
    \/ \E k \in Keys : SweepRead(k) \/ SweepPut(k) \/ Revoke(k)
    \/ SweepStamps \/ SweepChecks \/ ListOverGrace \/ NextOverGrace
    \/ \E s \in Subs : ListActive(s)

Next == \/ \E s \in Subs, status \in Statuses, plan \in Plans : Change(s, status, plan)
        \/ \E s \in Payers, kind \in {"paid", "failed"}, keys \in Plans : Invoice(s, kind, keys)
        \/ Tick
        \/ \E w \in Workers : \/ \E e \in queue : Deliver(w, e)
                              \/ StartSync(w) \/ Serve(w) \/ Fail(w) \/ Die(w)
        \/ StartCron \/ Sweep \/ SkipRow

Spec == Init /\ [][Next]_vars

\* The platform runs the cron, and runs on each request and each run that it has started.
FairSpec == /\ Spec
            /\ WF_vars(StartCron) /\ WF_vars(Sweep)
            /\ \A w \in Workers : WF_vars(Serve(w))

(* Properties *)

Event == [kind : {"updated"}, sub : Subs, status : Statuses, keys : Plans, at : Nat] \cup
         [kind : {"paid", "failed"}, sub : Payers, status : {"untold"}, keys : Plans, at : Nat]
MirrorRow == [status : Statuses, since : Nat, observed : Nat]
GateRow == [active : BOOLEAN, observed : Nat, synced : Nat, by : {"webhook", "sync", "staleness", "grace"}]
Item == [sub : Subs \cup Payers, status : Statuses \cup {"untold"}, keys : Plans, observed : Nat]
Request == [pc : AtDatabase \cup {"idle", "fetch", "answer", "release"}, event : Nat, now : Nat,
            list : Seq(Item), at : Nat,
            row : MirrorRow \cup {None}, active : BOOLEAN, keys : SUBSET Keys, observed : Nat]
Run == [pc : {"idle", "stale", "stamp", "check", "put", "grace", "revoke"}, now : Nat,
        stale : SUBSET Keys, key : SUBSET Keys, sub : SUBSET Subs, verdict : BOOLEAN, over : SUBSET Subs]

TypeOK ==
    /\ clock \in Nat
    /\ events \in Seq(Event) /\ Len(events) <= MaxEvents
    /\ queue \subseteq DOMAIN events /\ processed \subseteq DOMAIN events
    /\ mirror \in [Subs -> MirrorRow \cup {None}]
    /\ gate \in [Keys -> GateRow \cup {None}]
    /\ handler \in [Workers -> Request]
    /\ cron \in Run
    /\ faults \in 0..MaxFaults
    \* A dunning stamp is when dunning was seen, and a row was synced when it was written.
    /\ \A s \in Subs : mirror[s] # None => mirror[s].since <= clock
    /\ \A k \in Keys : gate[k] # None => gate[k].synced <= clock

Holds(w, e) == handler[w].event = e /\ handler[w].pc # "idle"

\* webhook.ts step 5: of all the deliveries of an event, one at a time runs its writes, and only
\* while the row that claims the event is there.
OneHolder ==
    \A w \in Workers : \A e \in DOMAIN events : Holds(w, e) =>
        /\ e \in processed
        /\ \A v \in Workers : Holds(v, e) => v = w

\* webhook.ts step 4: once no delivery of a claimed event is at work, because it was answered or
\* because its worker died, the claim stays and no redelivery runs its writes again, invoice.paid's
\* unguarded one included.
Orphaned(e) == \A w \in Workers : ~Holds(w, e)
ClaimStays == [][\A e \in processed : Orphaned(e) => e \in processed' /\ Orphaned(e)']_vars

\* s had the status, and no event that says otherwise is older than the stamp.
Had(s, status, stamp) ==
    \E i \in Changes(s) : /\ events[i].status = status
                          /\ \A j \in Changes(s) : j > i => EventStamp(events[j].at) >= stamp

\* upsertSubscription: the mirror never outranks an event of a later second that describes a
\* later state than its own, so that its guard discards a later state only if it came within the
\* second of a state that is already there (or that a direct read was stamped with).
MirrorHonest ==
    \A s \in Subs : mirror[s] # None => Had(s, mirror[s].status, mirror[s].observed)

EverEntitled(s) == \E i \in Changes(s) : events[i].status \in {"active", "past_due"}

\* An invoice of the key, of that second: a paid one, or a failed one of a subscription that has
\* been active or in dunning.
Invoiced(k, stamp) ==
    \E i \in DOMAIN events :
        /\ events[i].kind # "updated" /\ k \in events[i].keys /\ EventStamp(events[i].at) = stamp
        /\ events[i].kind = "failed" => EverEntitled(events[i].sub)

\* An open gate rests on a subscription that was active or in dunning when it was observed or
\* later, whoever wrote the row and however deliveries, reads and sweeps interleaved, or it was
\* opened by the webhook for an invoice of its own key and second, which outranks whatever Stripe
\* said of subscriptions up to then.  The staleness sweep stamps its own instant, so its rows are
\* honest to the second only.
OpenHonest ==
    \A k \in Keys : Open(k) =>
        \/ \E s \in Subs, status \in {"active", "past_due"} :
              Had(s, status, IF gate[k].by = "staleness" THEN EventStamp(SecondOf(gate[k].observed))
                                                         ELSE gate[k].observed)
        \/ gate[k].by = "webhook" /\ Invoiced(k, gate[k].observed)

Stale(k) == gate[k] # None /\ clock > gate[k].synced + Ceiling

\* reconcile.ts: a row past the staleness ceiling is read again from Stripe.
StaleRefreshed == \A k \in Keys : Stale(k) ~> ~Stale(k)

InDunning == Billing # {} /\ \A s \in Billing : Latest(s).status = "past_due"

\* An open gate on subscriptions that are all in dunning, one of them over its grace, and not
\* opened at this very instant.
Overdue(k) == InDunning /\ Open(k) /\ OverGrace(clock) # {} /\ gate[k].observed < SweepStamp(clock)

\* reconcile.ts: the gate of a customer who is over the grace closes with no event from Stripe,
\* unless something changes for that customer.
GraceEnds == \A k \in Keys : Overdue(k) ~> ~Overdue(k)
==============================================================================
