------------------------------- MODULE Ledger --------------------------------
(***************************************************************************)
(* The money of a business: control/budget-ledger.json as a session spends *)
(* from it (kernel/autonomy, and the dispatch of a node in session/run.ts) *)
(* and as the founder allocates it (session/onboard.ts).  The session      *)
(* computes every balance from the copy it has in memory and commits       *)
(* absolute values; the founder may commit between any two of its steps.   *)
(* One session at a time, under the session lock (AdvisoryLock); a commit  *)
(* is one step (Reducer) that may be refused.                              *)
(***************************************************************************)
EXTENDS Integers, Sequences, FiniteSetsExt

CONSTANTS Nodes,          \* work that costs money, of one business unit
          Cost,           \* its declared estimate
          Waivers,        \* 1..k: the lowest that applies is chosen
          Cap,            \* the most a waiver allows in one period
          Periods,        \* 1..k
          Allocations,    \* what the founder may allocate
          Unfunded,       \* no balance of that period
          MaxEntries, MaxChanges   \* bounds on entries and on the founder's commits

ASSUME LedgerAssumption ==
    /\ Cost \in [Nodes -> Nat \ {0}] /\ Cap \in [Waivers -> Nat]
    /\ Nodes \cap {"loop", "reload"} = {}
    /\ Waivers \subseteq Nat /\ 1 \in Periods /\ Periods \subseteq Nat
    /\ Allocations \subseteq Nat /\ Unfunded \notin [allocated : Int, committed : Int, spent : Int, remaining : Int]
    /\ MaxEntries \in Nat /\ MaxChanges \in Nat

VARIABLES ledger,     \* on disk: [balances, entries]
          waiver,     \* control.json: absent, active or revoked
          expired,    \* waivers past their expiry
          period,     \* the current one
          peak,       \* the largest allocation each period ever had
          draft,      \* the ledger onboarding has read, with the period of its instant
          up,         \* a session runs
          loaded,     \* its copy of the ledger
          trusted,    \* and of the waivers
          queue,      \* nodes of its batch not dispatched yet
          at,         \* the node whose estimate it has just committed, "reload" or "loop"
          status,     \* of each node: pending, running, idle (anything else)
          entry,      \* estimateEntryId of the running attempt, an index
          changes

founder == <<waiver, expired, period, peak, draft, changes>>
memory == <<loaded, trusted, queue, at, entry>>
vars == <<ledger, founder, up, memory, status>>

NoLedger == [balances |-> [p \in Periods |-> Unfunded], entries |-> <<>>]

NoDraft == [ledger |-> NoLedger, period |-> 0]

NoWaiver == [w \in Waivers |-> "absent"]

Init == /\ ledger = NoLedger
        /\ waiver = NoWaiver /\ expired = {} /\ period = 1
        /\ peak = [p \in Periods |-> 0]
        /\ draft = NoDraft /\ changes = 0
        /\ up = FALSE /\ loaded = NoLedger /\ trusted = NoWaiver
        /\ queue = {} /\ at = "loop"
        /\ status = [n \in Nodes |-> "pending"] /\ entry = [n \in Nodes |-> 0]
-----------------------------------------------------------------------------
(* evaluateProtectedAction, evaluateBudget *)

Total(amounts) ==
    LET upto[i \in 0..Len(amounts)] == IF i = 0 THEN 0 ELSE upto[i - 1] + amounts[i]
    IN  upto[Len(amounts)]

OnWaiver(entries, w, p) ==
    [i \in DOMAIN entries |->
       IF entries[i].waiver = w /\ entries[i].period = p THEN entries[i].amount ELSE 0]

Standing(entries, p, s) ==
    [i \in DOMAIN entries |->
       IF entries[i].period = p /\ entries[i].status = s THEN entries[i].amount ELSE 0]

\* Counts what was really paid only.
PeriodSpendPaid(w) ==
    Total([i \in DOMAIN loaded.entries |->
             IF loaded.entries[i].status = "actualized" THEN OnWaiver(loaded.entries, w, period)[i] ELSE 0])

PeriodSpend(w) == Total(OnWaiver(loaded.entries, w, period))

Applicable == {w \in Waivers : trusted[w] = "active" /\ w \notin expired}

Chosen == Min(Applicable)

Allowed(n) == /\ Applicable # {}
              /\ PeriodSpend(Chosen) + Cost[n] <= Cap[Chosen]
              /\ loaded.balances[period] # Unfunded
              /\ Cost[n] <= loaded.balances[period].remaining
-----------------------------------------------------------------------------
(* buildEstimatePatch, buildActualPatch: a field that is as it was in memory *)
(* is not part of the patch                                                  *)

Put(before, after, other) == IF before = after THEN other ELSE after

\* Leaves what is committed out of what remains.
LeftBySpentOnly(p, committed, spent) == loaded.balances[p].allocated - spent

Left(p, committed, spent) == loaded.balances[p].allocated - committed - spent

Patched(p, committed, spent) ==
    LET b == loaded.balances[p]
        disk == ledger.balances[p]
    IN  [ledger.balances EXCEPT ![p] =
           [disk EXCEPT !.committed = Put(b.committed, committed, disk.committed),
                        !.spent     = Put(b.spent, spent, disk.spent),
                        !.remaining = Put(b.remaining, Left(p, committed, spent), disk.remaining)]]

\* checkDeclaredOutputs: a patch that sets what is on disk already is refused.
Changes(before, after, other) == before # after => other # after

Accepted(p, committed, spent) ==
    LET b == loaded.balances[p]
        disk == ledger.balances[p]
    IN  /\ Changes(b.committed, committed, disk.committed)
        /\ Changes(b.spent, spent, disk.spent)
        /\ Changes(b.remaining, Left(p, committed, spent), disk.remaining)

Estimated(n) ==
    LET b == loaded.balances[period]
        committed == b.committed + Cost[n]
    IN  /\ Accepted(period, committed, b.spent)
        /\ ledger' = [balances |-> Patched(period, committed, b.spent),
                      entries  |-> Append(ledger.entries, [amount |-> Cost[n], period |-> period,
                                                           waiver |-> Chosen, status |-> "estimated"])]

Actualized(n) ==
    LET e == loaded.entries[entry[n]]
        b == loaded.balances[e.period]
        committed == Max({0, b.committed - e.amount})
    IN  /\ Accepted(e.period, committed, b.spent + e.amount)
        /\ ledger' = [balances |-> Patched(e.period, committed, b.spent + e.amount),
                      entries  |-> [ledger.entries EXCEPT ![entry[n]].status = "actualized"]]
-----------------------------------------------------------------------------
(* A session *)

Enter == /\ ~up /\ up' = TRUE
         /\ loaded' = ledger /\ trusted' = waiver
         /\ UNCHANGED <<queue, at, entry>>
         /\ status' = [n \in Nodes |-> IF status[n] = "running" THEN "idle" ELSE status[n]]
         /\ UNCHANGED <<ledger, founder>>

\* Recurring work, a repair, a work order, an orphan that may be repeated.
Reopen(n) == /\ up /\ at = "loop" /\ status[n] = "idle" /\ n \notin queue
             /\ status' = [status EXCEPT ![n] = "pending"]
             /\ UNCHANGED <<ledger, founder, up, memory>>

\* The frontier parks what is not allowed; some of the rest makes a batch.
Offer ==
    /\ up /\ at = "loop" /\ queue = {} /\ \A n \in Nodes : status[n] # "running"
    /\ \E batch \in SUBSET {n \in Nodes : status[n] = "pending" /\ Allowed(n)} :
         batch # {} /\ queue' = batch
    /\ status' = [n \in Nodes |-> IF status[n] = "pending" /\ ~Allowed(n) THEN "idle" ELSE status[n]]
    /\ UNCHANGED <<ledger, founder, up, loaded, trusted, at, entry>>

\* The final seam: evaluated again before the estimate.
Park(n) ==
    /\ up /\ at = "loop" /\ n \in queue /\ ~Allowed(n)
    /\ queue' = queue \ {n} /\ status' = [status EXCEPT ![n] = "idle"]
    /\ UNCHANGED <<ledger, founder, up, loaded, trusted, at, entry>>

Estimate(n) ==
    /\ up /\ at = "loop" /\ n \in queue /\ Allowed(n)
    /\ Len(ledger.entries) < MaxEntries
    /\ Estimated(n)
    /\ at' = n /\ entry' = [entry EXCEPT ![n] = Len(ledger.entries) + 1]
    /\ queue' = queue \ {n}
    /\ UNCHANGED <<founder, up, loaded, trusted, status>>

\* Goes ahead without an estimate on record.
RefusedAnyway(n) ==
    /\ up /\ at = "loop" /\ n \in queue /\ Allowed(n)
    /\ queue' = queue \ {n} /\ at' = n
    /\ UNCHANGED <<ledger, founder, up, loaded, trusted, entry, status>>

\* The commit is refused: the node stays pending, and is not started.
Refused(n) ==
    /\ up /\ at = "loop" /\ n \in queue /\ Allowed(n)
    /\ queue' = queue \ {n}
    /\ UNCHANGED <<ledger, founder, up, loaded, trusted, at, entry, status>>

\* The ledger is read again; the attempt starts unless none is left, and then
\* nothing takes the estimate back.
Begin(n) ==
    /\ up /\ at = n /\ at' = "loop"
    /\ loaded' = ledger
    /\ \E s \in {"running", "idle"} : status' = [status EXCEPT ![n] = s]
    /\ UNCHANGED <<ledger, founder, up, trusted, queue, entry>>

Ending(n) == up /\ at = "loop" /\ queue = {} /\ status[n] = "running" /\ status' = [status EXCEPT ![n] = "idle"]

\* The actual is the estimate.  An entry that memory does not hold has none.
Succeed(n) ==
    /\ Ending(n) /\ entry[n] \in DOMAIN loaded.entries
    /\ Actualized(n) /\ at' = "reload"
    /\ UNCHANGED <<founder, up, loaded, trusted, queue, entry>>

\* A failed attempt, or an actual that is not accepted: the estimate stays.
EndWithoutActual(n) == Ending(n) /\ UNCHANGED <<ledger, founder, up, memory>>

Reload == /\ up /\ at = "reload" /\ at' = "loop" /\ loaded' = ledger
          /\ UNCHANGED <<ledger, founder, up, trusted, queue, entry, status>>

\* The end of the session, or its death: its memory is gone.
Leave == /\ up /\ up' = FALSE
         /\ loaded' = NoLedger /\ trusted' = NoWaiver
         /\ queue' = {} /\ at' = "loop" /\ entry' = [n \in Nodes |-> 0]
         /\ UNCHANGED <<ledger, founder, status>>
-----------------------------------------------------------------------------
(* The founder *)

ReadLedger == /\ changes < MaxChanges
              /\ draft' = [ledger |-> ledger, period |-> period]
              /\ UNCHANGED <<ledger, waiver, expired, period, peak, changes, up, memory, status>>

Allocated(balance, amount) ==
    LET committed == IF balance = Unfunded THEN 0 ELSE balance.committed
        spent == IF balance = Unfunded THEN 0 ELSE balance.spent
    IN  [allocated |-> amount, committed |-> committed, spent |-> spent, remaining |-> amount - committed - spent]

Allocate(amount) ==
    LET p == draft.period
    IN  /\ p # 0 /\ changes < MaxChanges /\ changes' = changes + 1
        /\ ledger' = [ledger EXCEPT !.balances = [draft.ledger.balances EXCEPT ![p] = Allocated(@, amount)]]
        /\ peak' = [peak EXCEPT ![p] = Max({@, amount})]
        /\ draft' = NoDraft
        /\ UNCHANGED <<waiver, expired, period, up, memory, status>>

\* Without a precondition on updatedAt.
OnboardUnchecked == \E amount \in Allocations : Allocate(amount)

Onboard == draft.ledger = ledger /\ \E amount \in Allocations : Allocate(amount)

\* A waiver is appended; an existing one is revoked by a patch of its own.
Waive(w) == /\ changes < MaxChanges /\ changes' = changes + 1
            /\ \/ waiver[w] = "absent" /\ waiver' = [waiver EXCEPT ![w] = "active"]
               \/ waiver[w] = "active" /\ waiver' = [waiver EXCEPT ![w] = "revoked"]
            /\ UNCHANGED <<ledger, expired, period, peak, draft, up, memory, status>>

Expire(w) == /\ w \notin expired /\ waiver[w] # "absent" /\ expired' = expired \cup {w}
             /\ UNCHANGED <<ledger, waiver, period, peak, draft, changes, up, memory, status>>

NextPeriod == /\ period + 1 \in Periods /\ period' = period + 1
              /\ UNCHANGED <<ledger, waiver, expired, peak, draft, changes, up, memory, status>>

Next == \/ Enter \/ Offer \/ Reload \/ Leave \/ ReadLedger \/ Onboard \/ NextPeriod
        \/ \E n \in Nodes : \/ Reopen(n) \/ Park(n) \/ Estimate(n) \/ Refused(n)
                            \/ Begin(n) \/ Succeed(n) \/ EndWithoutActual(n)
        \/ \E w \in Waivers : Waive(w) \/ Expire(w)

Spec == Init /\ [][Next]_vars
-----------------------------------------------------------------------------
(* Properties *)

In(p, s) == Total(Standing(ledger.entries, p, s))

(* Nothing the session and onboarding write over each other is lost: what a  *)
(* balance has committed and spent is what the entries say.                  *)
BooksBalance == \A p \in Periods :
    IF ledger.balances[p] = Unfunded THEN In(p, "estimated") = 0 /\ In(p, "actualized") = 0
    ELSE ledger.balances[p].committed = In(p, "estimated") /\ ledger.balances[p].spent = In(p, "actualized")

(* waivers.ts, maxPerPeriod: all that was ever booked on a waiver in one     *)
(* period, by any sessions, batches, retries and crashes, is within its cap. *)
CapHeld == \A w \in Waivers, p \in Periods :
    Total(OnWaiver(ledger.entries, w, p)) <= Cap[w]

(* R10, "dispatch hard-stops before any action whose estimate would breach   *)
(* the remaining budget": whatever the founder changes meanwhile, a unit     *)
(* overruns the largest allocation it had in the period by less than one     *)
(* estimate.  It may overrun it: a session that twice misses a change writes *)
(* `remaining` as if the second were worth one estimate more.                *)
BudgetHeld == \A p \in Periods : ledger.balances[p] # Unfunded =>
    LET booked == ledger.balances[p].committed + ledger.balances[p].spent
    IN  booked > peak[p] => \E n \in Nodes : booked < peak[p] + Cost[n]

(* "... instead of spending blind": whatever runs has an entry of its own.   *)
NothingBlind == \A n, m \in Nodes : up /\ status[n] = "running" =>
    /\ entry[n] \in DOMAIN ledger.entries
    /\ ledger.entries[entry[n]].status = "estimated" /\ ledger.entries[entry[n]].amount = Cost[n]
    /\ m # n /\ status[m] = "running" => entry[m] # entry[n]
=============================================================================
