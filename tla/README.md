# Brigade: TLA+ models, checks and proofs

Brigade (package `b2c-app-builder`) works on a consumer business in *sessions*. A business is a
workspace directory: JSON documents under `state/`, control files, a run state, a hash-chained
audit log, lock files. A session compiles a plan from a catalog of workflows, dispatches the nodes
that are ready to agents, checks what they produced with gates and independent reviews, pays for it
from a budget the founder allocates, and writes everything back. Several processes may share one
workspace (sessions, the reducer, the approval, verification, erasure and activation commands, the
operating service), several workspaces may share one device or provider account, and any process
may die at any time. A hosted console sells entitlements to the knowledge service and follows
Stripe's events for it. This directory models the part of that which is hard to test: the protocols
between processes, files, statements and events, and the run's own state machine.

Line references without a directory are to `src/kernel/...`, those of billing to
`src/hosted/builder-console/billing/...`. `PROJECT.json` maps every definition to the lines it
translates and lists the hazards that each property is aimed at.

## 1. Inventory

### The parts, their state and their operations

| Part (code) | State it keeps | Operations | Interacts with |
| --- | --- | --- | --- |
| Advisory lock (`reducer/lock.ts`) | one lock file: owner, heartbeat, TTL, pending request | `acquireLock` (with or without `breakStale`), `heartbeat`, `releaseLock`, `checkYield`, `requestInteractive` | every writer of a workspace |
| Reducer CLI (`reducer/cli.ts`) | documents, `manifest.json`, document and manifest locks | commit, reconcile, adopt, preflight, verify-audit | locks, audit log, patches |
| Audit log (`reducer/audit.ts`) | append-only JSON lines, each with the hash of the one before | `appendAuditEntry`, `verifyAuditChain` | reducer (under the manifest lock); sessions, approve, verify (without it) |
| Patches (`reducer/patch.ts`) | none | validate, apply | reducer |
| Shared claims (`reducer/shared-claims.ts`) | one claim file per device or provider project, one guard file each | acquire, assert, renew, release | the dispatch of a node in `session/run.ts` |
| Run engine (`engine/runstate.ts`, `frontier.ts`, `dispatch.ts`, `verification.ts`, `review-evidence.ts`) | run state: status, attempts, approvals of each node; fingerprint, producer and acceptance of each artifact | seed, begin, heartbeat, reconcile a patch, accept, reject, repair, invalidate, detect orphans, reopen | session loop, workspace files |
| Session loop (`session/run.ts`) | the frontier, the batch, executors in flight, the reviews of a sweep | open, frontier, batches, gates, verification sweep, close | all of the above |
| Founder and operator commands (`session/approve.ts`, `verify.ts`) | none of their own | decide an approval; accept a pending review | run state, audit log |
| Autonomy and ledger (`autonomy/*`, `session/onboard.ts`) | waivers, `budget-ledger.json` | decide a dispatch, commit an estimate and an actual; allocate, waive, revoke | reducer, session loop |
| Work orders (`work-orders/*`) | occurrences in the run state | record, take, link, restore, exhaust, prove, refuse | run engine |
| Operating service (`session/operating-service.ts`, `operate-bind.ts`) | none of its own | read the run state, lock, record an order, write back | sessions, work orders |
| Erasure (`reducer/erasure.ts`) | a journal, scratch files, two audit entries | execute, resume | locks, all documents, every writer through `erasure-guard.ts` |
| Recipe activation (`composition/activation.ts`) | a journal over four files: catalog, runtime, run, checkpoint | preview, apply, resume, restore | locks, sessions that read the pin |
| Hosted billing (`webhook.ts`, `checkout.ts`, `reconcile.ts`, `knowledge-mcp/db/tenant.ts`) | `processed_stripe_events`, `subscriptions`, `entitlements` | apply a delivery, read Stripe directly, staleness sweep, grace sweep | Stripe, the database, the cron |
| Founder trust (`engine/founder-*.ts`) | signatures, a key store | bind, verify | approve, session |
| The rest: catalog, checks, adapters, other hosted services, surfaces, tooling | data, I/O, text, separate deployments | | |

`PROJECT.json` lists all of them with what is modelled and why the others are not.

### What is hard in it

* **Interleavings of file-system calls.** A lock file is created exclusively and then written;
  stale locks are verified and then unlinked; heartbeats are read-modify-writes; guards come and go
  under a contender's retry.
* **Crashes between durable writes.** Document, manifest and audit entry are three writes; patch,
  gates and acceptance are separate writes of the run state; an erasure and an activation replace
  many files under a journal; a claim outlives its process.
* **Things that change behind a decision.** Files edited between production, review and acceptance;
  approvals that change; claims that expire while a gate blocks the event loop; inputs replaced
  while a consumer of theirs executes; a run state read before its lock is taken; balances computed
  from a copy while the founder allocates.
* **Long sequences.** A rejection reopens a producer, whose new output fells an audit, which is
  stale for the next sweep... until attempts run out. Work that must not be repeated (publishing,
  spending) must survive all of these without a second attempt; an order must keep track of it.
* **Unreliable delivery.** Stripe sends events twice, late and out of order; a handler dies between
  two statements; a direct read and an event describe the same subscription.
* **Termination.** The session loop goes on while sweeps report progress; a gate must close although
  no event comes.

### What makes each part correct

* Lock: one owner at a time; a live owner's lock is never broken.
* Reducer and manifest: documents move only by adoption or by a patch of the tracked content; a
  mismatch is always explained by an edit or by a commit that died; the reducer's entries never
  fork.
* Shared claims: who uses a device owns its claim, alone, expired or not; a dispatch uses all it
  needs; every dispatch ends and no guard is left.
* Run engine and session: nothing stands on what was not judged; nothing is accepted but what is on
  disk; work not to be repeated is attempted once; what executes is approved; a session ends unless
  its estimates are refused for ever.
* Work orders: an order's status follows its own attempts; it is proved once, by its own; it never
  gets more attempts than its node's; what restarts work whose effect is in doubt is known.
* Ledger: balances are what the entries say; no cap is overrun, and no allocation by as much as one
  estimate; nothing runs without its own estimate on record.
* Erasure and activation: readers see the change whole or not at all; the audit log tells the truth;
  what is pending can be taken up again.
* Billing: an event is applied by one delivery at a time; no row of the mirror outranks an event of
  a later second that says otherwise, and an open gate rests on a state or an invoice that was real;
  stale rows are refreshed and a grace that is over closes the gate.

## 2. Modules

| Module | Code | Kind |
| --- | --- | --- |
| `Mutex` | | abstract specification of a lock without breakers |
| `AdvisoryLock` | `reducer/lock.ts` | one action per file-system call |
| `TrackedStore` | | abstract specification of the documents the reducer tracks |
| `Reducer` | `reducer/cli.ts`, `reducer/audit.ts` | one action per durable read or write; uses `Mutex` for the manifest lock |
| `SharedClaims` | `reducer/shared-claims.ts` and its caller in `session/run.ts` | one action per file-system call, and the life of a dispatch |
| `RunEngine`, `RunEngineMC` | `engine/*.ts`, `session/run.ts`, `approve.ts`, `verify.ts` | one action per step between two awaits; the plan of its run |
| `WorkOrders`, `WorkOrdersMC` | `work-orders/*`, the operating service, the parts of the session that drive an order | one action per write of the run state |
| `Ledger`, `LedgerMC` | `autonomy/waivers.ts`, `budget.ts`, `evaluator.ts`, the dispatch in `session/run.ts`, `session/onboard.ts` | one action per commit |
| `Transition` | | abstract specification of a journaled change |
| `Erasure`, `ErasureMC` | `reducer/erasure.ts`, `erasure-guard.ts` and the writers it guards against | one action per durable step |
| `Activation` | `composition/activation.ts` and the sessions beside it | one action per durable step |
| `Billing`, `BillingMC` | `webhook.ts`, `checkout.ts`, `subscription-sync.ts`, `reconcile.ts`, `entitlement-policy.ts`, `knowledge-mcp/db/tenant.ts` | one action per database statement |
| `...Proofs` | | theorems about the module they name; `SessionProofs` about `AdvisoryLock` and `Ledger` |

Composition. `Mutex` is shown to be implemented by `AdvisoryLock`, by each claim file of
`SharedClaims`, and is the lock of `Reducer`. That is how the modules compose: the reducer is
checked over the abstract lock because the real one implements it, for callers that never break
stale locks, which the manifest lock's callers never do. `TrackedStore` is what the reducer
promises and `Reducer` implements it; `Ledger` takes a commit for one step on that ground.
`Transition` is what readers of a journaled change rely on, and both `Erasure` (which is never
undone) and `Activation` (which may be) implement it, composed with the writers and sessions that
run beside them. `RunEngine` assumes what the lock gives a session: no second session and no founder
decision while one runs (`phase = "closed"` in `Decide`). `WorkOrders` composes sessions with the
operating service, which respects the lock but not what it has read, and with `verify.ts`, which
knows no lock.

Each definition followed or preceded by a variant with a similar name (`Look` and `LookWithoutFlag`,
`Hit` and `HitDirectly`) has that variant as a plausible mistake: it is used only to see that a
property would notice it. No specification refers to a variant.

### AdvisoryLock

`file` is the lock file, `pc`, `copy` and `stamp` what a process holds between two calls: the file
it read and the instant it took. `acquireLock` is `Attempt` (exclusive create), `WriteFresh`, or on
EEXIST `Look`, and, with the flag, `ReadBack`, `Break`, `Retry`. An empty file, between
`openSync` and `writeSync`, is unreadable, as in the code. `heartbeat` is `HeartbeatRead` and
`HeartbeatWrite` (a rename over whatever is there), `releaseLock` is `ReleaseRead` and
`ReleaseUnlink`. Back-off delays and the retry counter are a process that comes back. A process is
one incarnation: owner ids are not reused.

### Reducer

An invocation has a command and walks through the code's durable steps: `Begin` (manifest lock),
`LockDocument`, `Check` (manifest against the file's hash), `Read` (the file again), `WriteDoc`,
`SaveManifest` (the whole manifest, from the copy loaded at `Check`), `ReadTail` and `AppendEntry`
(audit), `UnlockDocument`, `Unlock`; `Adopt` takes the last two in the opposite order. Contents are
a version and whether somebody else edited them; the hash is injective. A crash leaves locks and
files as they are. Sessions are the appenders that do not take the manifest lock.

### SharedClaims

A worker is one dispatch, of some session of some business. `Open`, `Read`, `Rename` or `Decline`,
and `Unguard` are `transact`; what they do depends on the loop they run for (acquire, rollback,
renew, release), which is `phase`. The rest is `runSessionCore`'s use: acquisition in sorted order,
rollback, dispatch, heartbeat, gates that block the timers, durable result, release. The cooldown
is always 0, as in every call of the repository.

### RunEngine

State and code:

| Variable | Code |
| --- | --- |
| `status` | `run.nodes[n].status`; `"unverified"` is `blocked` with the blocker "Verification required", `"pending"` stands for `ready` too |
| `used`, `tried` | attempts in the current cycle (`attemptCycleStart`), any attempt at all |
| `decision` | `run.approvals`, one per node that needs one |
| `accepted`, `produced` | `binding.accepted`; `binding.producedBy` set |
| `bound` | what the recorded fingerprint is of: nothing, given material, an output not judged, an output judged |
| `gates`, `attested` | the last attempt's gate receipt; an accepted review receipt that still validates |
| `onDisk` | the file compared with its recorded fingerprint |
| `phase`, `offered`, `executing`, `gating`, `queue`, `progress`, `doomed` | where `runSessionCore` stands, in memory |

A node produces one artifact that bears its name; other artifacts are materials. Everything else
of a plan is a constant: dependencies, reads, consulted artifacts, audits (`ReviewOf`), gates,
reviews, idempotence, recurrence, approvals, conflicts. The operators `Hit`, `Invalidate`,
`Repair`, `Frontier`, `Classified` translate `invalidateDescendants`,
`requestVerificationRepair` and `computeFrontier`; they take statuses and acceptances and return
both, because the code calls them one after another within one synchronous step.

Actions are the code between two awaits. `Open` is the start of a session (orphans, files found,
recurrence). `DropReview` is one turn of `invalidateStaleReviews`. `ComputeFrontier`, `StartBatch`,
`BatchesDone` are the dispatch; a node whose estimate the ledger would not take (`Priced`,
`EstimateRefused`) keeps its status and is offered again. `Complete`, `Fail`, `Throw` are what an
executor can return; while a gated output is checked (`gating`) nothing else of the session runs,
since gates are synchronous, but a crash or an edit may come. `Gate` passes or fails, and may
rewrite what it checks; `GateThrows` is the error of `recordDeterministicVerification`. The sweep is
`PassOver`, `Accept`, `EvidenceChanged`, `Reject`, `Misdirect`, `EndSweep`. Around it: `Halt`,
`End`, `Abort`, `Crash`, `Decide`, `OperatorAccepts`, `Edit`.

Abstractions, each of them allowing more than the code or the same:

* The evaluator, state predicates and grants are one nondeterministic refusal of the nodes in
  `Restricted`; attempts and waits have no durations.
* The least set of `Hit` is what the `while (advanced)` loop computes: a node is skipped only when
  it is stale already, and in no order does skipping one hide another.
* The targets of one rejection are reopened at once instead of one after another; a target that
  descends from another gets the status the code gives it last, unless the code's order would
  leave a later target's invalidation on an earlier one. Plans with more than one producer for an
  audit are not among the runs.
* The sweep takes its queue in any order. A crash keeps the classification of the last frontier,
  which the code writes a little later: `End` and the next `ComputeFrontier` recompute it.
* The review receipt is its agreement with the files (`attested`); an accepted review of a
  rewritten file is dropped for good even if the old bytes come back.

### WorkOrders

`run` is the run state as one value, because it is read, kept and written back as one: statuses, the
list of attempts of each node with the order each was for, the status of each order, and `active`,
the orders whose mandate stands; `rescoped` is history, the nodes that
`reconcileWorkflowApplicability` ever reset. A session keeps `run` in memory under its lock and
writes it to `disk` after each step; an operator keeps a `copy`. Orders are numbered by
`recordedAt`, and the oldest that may run is taken. The operators `Ended`, `Restored`, `Proved`,
`Reopened`, `Orphaned`, `Replanned`, `Rescoped`, `Accepted`, `Rejected` are the functions of
`runstate.ts` and `lifecycle.ts` on such values; `currentCycleAttempts`, which counts by order, is
`Used`.

`Enter` is the start of a session: the plan may have changed (`Replanned`), attempts may have run
out of time (`Orphaned`), waiting orders reopen their nodes. `Frontier` settles what is in scope,
parks what the evaluator refuses and offers some of the rest; `Begin` and `BeginExhausted` are
`markDispatched`; `Fail`, `ParkReadback` and `Land` the returns of an executor; `Accept`, `Reject`,
`RejectEvidence` the judgments; `Heartbeat` the write of a worker's timer. The claim of a shared
resource may be found lost at four places: before the patch (`run.ts:1922`, also for a failure or an
executor that throws), after the gates (2005), after the judgment (2050, 2063) and at the release
(2071 to 2073). By then the order may have been proved or restored, so `ParkReadback` has three
outcomes for it. A session that dies, by a kill or a thrown error, leaves what it last wrote.

`Load` is the read of an operator, `Commit` the write of an operation under the lock (`phase =
"down"`), `Verify` the acceptance of `verify.ts`, at any time. A session does not see what is
written beside it, and its next write replaces it. `uncertain` is history: the effectful nodes that
ever were in a read-back or at work in a session that died. `overwritten` is history too: an operator
wrote over something else than it had read.

A node that consumes, depends or is reviewed by another is `RunEngine`'s; here nodes are independent.

### Ledger

`ledger` is the file: a balance per period and the entries. A session works on the copy `loaded`,
computes absolute values from it and commits a patch of the fields that differ (`Put`), which is why
a concurrent allocation is the hazard. `Offer` and `Park` are the evaluator before a batch and at
the final seam, `Estimate` and `Refused` the commit of an estimate, `Begin` the reload after it,
`Succeed` the actual, `EndWithoutActual` an attempt that fails or whose actual is refused. The
founder's commands are `ReadLedger` and `Onboard` (read, then commit with the precondition that
`updatedAt` is unchanged) and `Waive`. `peak` is history: the largest allocation of each period.
A patch that changes nothing is refused by the reducer's check of declared outputs (`Accepted`).
Amounts are small naturals of one currency and one unit.

### Transition, Erasure and Activation

`Transition` has a phase: before, pending, after. Readers respect a journal, so the mapping of both
modules is: pending while the journal exists, otherwise whatever all files agree on, and "torn" if
they do not agree, which no phase of `Transition` is.

`Erasure`: the content of a file is "old" or "edited" (it holds the subject's data), "new" or
"renewed" (it does not). An eraser takes both locks, confirms the inventory, writes the journal
(`DraftIntent`, `Intend`), an audit entry (`Prepare`), then per file compares, drafts, replaces or
unlinks, and saves the manifest from its own copy, confirms the inventory again, writes the
completion entry and removes the journal. `Resume` enters the same path at `Check`. Each atomic
write is an exclusive create of a scratch file and a rename. Writers are a reducer (manifest lock),
a session started by hand (session lock) and the verification CLI (no lock); each asks for the
journal where its code does: the reducer and the CLI as they read (`Read`), the session before its
lock (`Enter`) and again as it reads, and the run state's writer before its temporary (`Guard`).
`litter` are the writers of which a file is there that the preview does not know, and that
`ConfirmInventory` therefore refuses: the temporary between `Write` and `Rename`, a reducer's lock
on its document, the digest with which a session ends (`Digest`) and which it writes without lock or
guard also when it was refused the session lock. Any process may fail or die at each step and then
forgets what it knew (`Forget`); locks and litter of the dead stay until somebody deletes them
(`ClearLock`, `ClearScratch`, `ClearLitter`). The temporary of the run state has one name for all
writers, so the rename of one may move the bytes of another or fail: a writer without a lock counts
as having written from its temporary on (`Foreign`). Not among the writers are sessions of public
requests (refused the lock, they write no digest) and the temporary of a lock's heartbeat, one more
file that a death leaves for `ClearLitter`.

`Activation`: the content of the four surfaces is compared with the preview's bytes; files that
sessions or hands rewrite keep the plan they belong to ("oldChanged", "newChanged"). An activator
takes three locks, applies, resumes or restores, replaces the surfaces one by one and removes the
journal. `Read`, `Enter`, `Work`, `Close` are a session: it asks for the journal, reads the pin,
takes the lock and writes run and checkpoint; the sessions of public requests ask and read again
under the lock. A preview of the same change may be taken anew while none is under way.

### Billing

`events` is what happened at Stripe, `queue` what Stripe has not seen acknowledged, `processed`,
`mirror` and `gate` the three tables, `handler` a request being served with all that it has read so
far, `cron` the scheduled run. A stamp orders observations: an event counts with its whole second, a
direct read with the second before it plus its place in the list, a sweep with its own instant
(`EventStamp`, `ReadStamp`, `SweepStamp`). `Deliver` is the claim of an event; `Read` and `Write`
the select and the insert of `upsertSubscription`, `Clear`, `Find` and `Stamp` the dunning
statements of an invoice (which may name any subscription of `Payers`, in whatever state, or none,
and tells no status of it), `GrantKey` the guarded upsert of an entitlement, `Answer` and `Release`
the two ends of a delivery. `Fetch` and `ListRetired` are the console's read. `StartCron` to
`NextOverGrace` are the staleness sweep and the grace sweep. `Fail`, `Die` and `SkipRow` are a
statement that throws (the reads for the mail after the last grant included), a worker that is
evicted, a row or a run that is given up.

## 3. Runs

Every run checks one question of one module. "States" are the distinct states TLC found.

| Run | Question | Bounds | Result, states |
| --- | --- | --- | --- |
| `lock_exclusion` | one owner, and `Mutex`, when nobody breaks locks | 2 acquirers, 1 requester, TTL 1, clock to 2 | holds, 334,274 |
| `lock_single_breaker` | one breaker, timely owners: no live lock is broken | 3 acquirers, TTL 1, clock to 3 | holds, 782,747 |
| `reducer` | tears, audit gaps and forks are explained; `TrackedStore` | 2 invocations, 1 session, 2 documents, 2 versions, 1 edit | holds, 993,752 |
| `claims` | exclusive use of all that is needed, `Mutex`, no guard left, every dispatch ends | 2 dispatches, 2 resources, TTL 1, clock to 2, crashes | holds, 365,783 |
| `engine_launch` | the run engine's properties | spec, audit, publication; 2 attempts; 1 edit | holds, 192,431 |
| `work_orders` | orders follow their attempts; only stale writes and changes of scope repeat work blindly | a publication with 2 orders and attempts, a design audit on a shared resource with one each, 1 change of plan or scope, 2 calls | holds, 3,268,301 |
| `blind_retry` | no work is restarted whose effect is in doubt | 1 publication, 1 order, 2 calls | **violated**, 450 |
| `ledger` | balances, caps, allocations, no blind spending | 2 nodes, 2 waivers, 2 periods, 2 allocations, 3 entries, 4 changes by the founder | holds, 2,436,502 |
| `activation` | whole or not at all, recoverable, requests on the pin | 1 activator with any number of calls, a request, a session by hand, 1 edit | holds, 503,072 |
| `erasure` | whole or not at all, a truthful log, resumable | 2 erasers, a reducer, a session, a verification CLI, 3 files, 1 edit | holds, 831,824 |
| `billing_delivery` | deliveries and direct reads against each other | 2 requests at a time, 2 events, 2 plans, an invoice names the subscription or none, clock to 2 | holds, 1,769,636 |
| `billing_sweeps` | the cron against a delivery, with faults; liveness | 1 request at a time, 2 events, 1 fault, clock to 4 | holds, 726,523 |

Why the bounds are enough. *Locks*: the races are between two processes and one file; the third one
lets a breaker, a fresh owner and a contender meet; a clock of 2 or 3 TTLs lets a lock be written,
go stale, be broken and its successor go stale. *Reducer*: two versions give two patches of one
document and a lost update; two documents let one manifest rewrite drop another's entry; one edit
can come before or after every commit. *Claims*: two resources are what a sorted acquisition and a
partial release need; every claim can expire at every step. *Engine*: `engine_launch` has a gated
and reviewed audit over a reviewed producer, which consults it (as the catalog's product workflows
do), so that a changed brief cascades over two levels, a rejection falls back on the producer and
through it on the audit, and a dropped review spares it. A gated publication of the same brief,
which is not idempotent, needs approval and may be refused, depends on neither and runs beside them:
so gates fail or throw while a sibling executes. Two attempts allow one repair and its exhaustion;
an edit may hit the brief or the spec at any step. *Work orders*: two orders of one workflow can be
confused with each other and with ordinary attempts; two attempts on record either exhaust one order
or let the second begin; the audit is judged in a later session and may lose its resource after its
proof; two calls allow one to be stale behind the other as well as behind a session. *Ledger*: two
nodes make a batch whose sum counts; two waivers and two periods let an entry be booked on one and
settled in another; two allocations and four changes by the founder let one be raised behind a
running session, and again behind a copy that has missed the first. *Erasure*: a deleted file, a
file the manifest records and one it does not are the three paths of a mutation; the second eraser
resumes while the first still runs on; the reducer, the session and the CLI are the three ways to
hold a lock or none, and session and CLI write one file. *Activation*: after a death the same
activator returns with another call, and the locks admit no second one. *Billing*: the guards
compare two observations of one row, and two requests with two events, each possibly in the same
second, give every order of them; an invoice that names no subscription is in the delivery run only,
since the sweeps look at what an invoice wrote, not at what it named; in the sweeps a clock of 4
lets a row age, be refreshed and age again, and a grace begin and end. Faults and two requests
together are not in a run: the state space is too large.

Stopping. `CHECK_DEADLOCK FALSE` is set where the system really stops: processes end, clocks,
edits and calls are bounded. The engine and the ledger run leave deadlock checking on: a closed
session can always open.

### The properties

*`AdvisoryLock`*: `MutualExclusion`; `LiveLockNeverBroken` (an action property); `ImplementsMutex`.

*`Reducer`*: `TearExplained` (only an edit, or a commit between its writes, makes a document differ
from its manifest entry); `AuditGapExplained` (a tracked document whose content the log does not
show last belongs to a commit between its manifest write and its entry); `ForksExplained` (entries
of the reducer never fork from each other); `ImplementsStore`.

*`SharedClaims`*: `ClaimsOnFile` (expiry never transfers ownership); `ExclusiveUse`, which counts
dead and parked dispatches as using what they left uncertain; `UsesAllItNeeds`; `ImplementsMutex`;
`GuardNeverLeft` (a guard file is there only inside a transaction or after its process died);
`DispatchEnds`.

*`RunEngine`*: `OneShot` (work that is not idempotent is attempted at most once in a cycle,
through rejections, changed inputs, stale reviews, orphans and crashes); `SucceededJudged` (a
succeeded node has an accepted output of its own, recorded as it was judged); `InputsStand`
(whatever succeeded rests on accepted inputs: the cascade of a rejection is complete in the step
that makes it); `ApprovedWork`; `AcceptedAsFound` (a node becomes succeeded only while its files
are what the run recorded); `SessionEnds` (no verdict, repair or demotion keeps a session's loop
going; only an estimate that is refused for ever does).

`InputsStand` is stated for the plans of `PlanFlows`: no recurring work, whose last acceptance
stands by design while it is redone; every output read is of an ancestor; feedback, and the verdict
of an audit, reach the ancestors of a node only from among them or from the node itself. Outside of
them it does not hold (section 4), and the shipped catalog is outside: of the 115 workflows of
`catalog.json` 17 satisfy every clause and 93 fail the one on feedback, mostly because
`orient-scaffold-and-state-cockpit-upkeep` and `session-continuity-resume`, ancestors of nearly
everything, consult artifacts made after them. The two remaining clauses, that an audit depends on
what it judges and that no node depends on itself, are checked by `catalog/validate.ts:308` and 416.
What holds of the shipped catalog too are the theorems `CascadesWhole` and `OnlyPatches` (section
5): each step's cascade is complete, and only a patch can put anything on an input that is not
accepted. What `InputsStand` adds, where it holds, is that no patch does; it is checked on one such
plan, and proved for all of them (`InputsAccepted`), which is a statement about plans, not about the
catalog.

*`WorkOrders`*: `OrderFollowsAttempt`, `ProvedOnce` (an order under observation was proved by exactly
one attempt, or has lost its proof to a read-back), `OrderBounded`, `RetryExplained`: what
`NoBlindRetry` forbids needs a change of scope or a stale write of the operating service or of
`verify.ts`. No order is proved by two attempts and none that is proved is worked on again.

*`Ledger`*: `BooksBalance` (no write of a session and onboarding erases the other's), `CapHeld`,
`BudgetHeld` (against the largest allocation of the period, since the founder may lower it while
money is committed, and to within one estimate: section 4 says why), `NothingBlind`.

*`Erasure`*: `AuditTellsTruth`; `Resumable` (whoever died where, a prepared erasure finds what
`finishJournal` accepts, once the files that dead processes and refused sessions left are deleted
and if nobody edited others); `ImplementsTransition`. *`Activation`*: `Recoverable`,
`RequestPinHeld`, `ImplementsTransition`. What a writer without a lock or a session with an old pin
has put back (`Foreign`, `strayed`) is excepted by name: it does happen (section 4).

*`Billing`*: `OneHolder` and `ClaimStays` (an event is applied by one delivery, and never again once
one has ended), `MirrorHonest` (the mirror outranks no event of a later second that contradicts it),
`OpenHonest` (an open gate rests on a subscription that was active or in dunning when it was
observed or later, or was opened by the webhook for an invoice of its own key and second; rows of
the staleness sweep only to the second), `StaleRefreshed`, `GraceEnds`.

### Fairness

* `SharedClaims!FairSpec`: weak fairness of each worker's `Proceed`, because a process that runs
  executes its next statement; strong fairness of `Finish`, because an executor that is interrupted
  by its own heartbeat timer still returns: between two renewals the event loop gets to its
  promise. Crashes may happen, and end the dispatch; the guard they leave waits for the operator, of
  whom nothing is assumed: other dispatches are refused, not kept waiting.
* `RunEngine!Spec`: weak fairness of `Work` as a whole: executors return (each has a timeout), the
  verifier returns, and the event loop goes on. No fairness for `Open`, edits, decisions or
  `Halt`: `SessionEnds` must not rely on the wall clock that would stop any loop. It assumes instead
  that estimates are not refused for ever (`<>[][~EstimateRefused]_vars`): if they are, the loop does
  go on until a halt (section 4).
* `Billing!FairSpec`: weak fairness of `StartCron` and `Sweep`, because the platform runs the cron
  and a run that it has started, and of each request's `Serve`. None for Stripe: no event need
  ever come or be delivered again, and no fault is excluded beyond `MaxFaults`.

## 4. What the checks found

One run ends in a counterexample that contradicts a sentence of the repository.

`blind_retry`: `operate-bind.ts:34` reads the run state before it takes the session lock at line 37,
and `operating-service.ts:339` or `388` writes that copy back under the lock. A session that ran in
between is undone: a publication it left running or in `needs_readback` is pending again, and the
next session publishes a second time. `runstate.ts:426` says that such work "stays there: a provider
read-back must establish ground truth before anything retries".

Seen on the way, each by a run or a counterexample while modelling, and not kept as runs:

*Locks and claims.* Two callers with `--break-stale-verified` verify the same stale lock, and the
slower one's `unlink` (`lock.ts:116`) removes the fresh lock that the faster one has just created,
against `lock.ts:8` ("a live-heartbeat lock is never force-broken"). An interactive request that
lands between a heartbeat's read and its rename is erased, and one built from a released owner's
file may overwrite the next holder's; nothing in production calls `requestInteractive`. A heartbeat
that meets the guard of a contender about to be refused counts its own valid claim as lost
(`run.ts:1831`, against the comment at 1843). The release loop frees one resource, meets a guard at
the second and parks the node with half of its claims (`run.ts:2069`, against 2066); in the same way
a rollback may leave a claim of an attempt that never began.

*Reducer.* Sessions, `approve` and `verify` append to the audit log without the manifest lock
(`run.ts:1207`, `1456`, `approve.ts:323`, `verify.ts:120`); two appends can link to one predecessor
(`audit.ts:76`), and the honest log of `docs/architecture.md:327` fails its verification. An edit
between the hash check and the second read of a commit becomes tracked content. A commit that dies
before its audit entry is never audited later.

*Engine.* Of two recurring workflows that feed each other (`support-queue-operations` and
`post-launch-operations`, weekly) next week's patch of the first fells the second and through it the
first itself (`runstate.ts:546`), and recording its gates throws (481). A node that must not be
repeated blindly executes while the input it reads is replaced; it is set to `needs_readback`, and
its own patch overwrites that (`runstate.ts:528`, against 426). The same line lets work land on what
has fallen, in a plan outside `PlanFlows`: a page that reads a spec executes beside the audit that
the spec consults; the audit's gates rewrite its output, the spec becomes stale and the page falls
with it, and the page's patch then sets the page to succeeded, over a spec that is not accepted. TLC
finds it with these three nodes and a brief. A session that dies between a patch and its gates
leaves a node that neither a frontier nor a sweep takes up (`run.ts:1991`). The file of an attempt
that died is taken for material of the workspace by the next session (`runstate.ts:826`).
`detectOrphans` asks `idempotent` where every other path asks `requiresReadbackBeforeRepeat`
(`runstate.ts:446`). The output of a node judged by gates alone is never compared again (651). When
the ledger refuses an estimate, `run.ts:1746` returns and leaves the node ready with nothing
recorded, although the founder is told "I left it for you to look at": the loop (1539 to 1670)
offers the node again at once, and as long as the cause lasts it goes round, with one more message
each time, until the wall clock or a kill switch stops it.

*Work orders.* The session never passes the live mandates to `takeAuthorizedOccurrence`
(`run.ts:1758`), unlike the test in `work-orders.fixtures.ts:495`; a node reopened for an order whose
mandate is revoked is dispatched as ordinary work. `completeOccurrence` and the review of an outcome
have no caller in production. Invalid evidence of a design audit leaves its order running
(`run.ts:2028`). A change of verdict or profile resets a node whatever it is doing
(`runstate.ts:303` to 330): one in `needs_readback` becomes pending and is done again, against 426,
and the order of one that was at work goes on running with no attempt. `verify.ts` reads the run
state at line 46 and writes it at 119 without the lock: its acceptance is lost to the next write of a
session, and a late one takes back whatever a session did in between, like the operating service's.
A claim found lost after the gates parks a node whose order is already proved (`run.ts:2050`): the
attempt waits for a read-back while the order goes on being observed, on a proof that no longer
counts. None of this reaches `RunEngine`, which knows no change of scope: its `OneShot` speaks of
runs in which nobody changes one.

*Ledger.* The evaluator gets the grants and waivers of the session's start (`run.ts:1230`), although
1691 and `killswitch.ts:18` promise a fresh evaluation. If the founder lowers an allocation while a
session runs, the session may write `remaining` from the old one. If the founder raises it and then
allocates again, a unit can be overrun: with allocations of 2, 3 and 3 and estimates of 1 and 2 a
session whose copy is two changes behind computes a `remaining` that equals its copy's, does not
write it (`pushIfChanged`, `run.ts:538`), and so leaves on disk a balance that counts the estimate
as committed but not as taken; the next estimate is allowed and 4 of 3 are committed, against R10
("dispatch hard-stops before any action whose estimate would breach the remaining budget",
`budget.ts` and `run.ts:1226`). The overrun stays below one estimate (`BudgetHeld`), and needs two
allocations exactly one estimate apart (`BudgetExact`). A failed, exhausted or dead attempt never
gives its estimate back (`run.ts:1773`).

*Erasure and activation.* The inventory refuses every file the preview does not know
(`erasure.ts:620`), and processes leave such files, each of which blocks every resume until somebody
deletes it: the scratch file of an eraser that died inside an atomic write (590); the
`run-state.json.tmp` of a `verify.ts` or session that died inside `writeAtomic`
(`runstate.ts:1075`); temporary and document lock of a reducer that died (`cli.ts:159`, 66); and,
with nobody dying, `digests/<session>.md` of a session that passed the guard (`run.ts:837`) before
the journal was there and was then refused the lock (1019-1028, 938, `digest.ts:329`). `Resumable`
excepts exactly these. The final inventory accepts a target that is
back at its old bytes (675), which only the lock prevents from happening. `verify.ts:119` writes back
a run state read before the erasure. A commit to the business state while an activation is pending
makes both resume and restore refuse (`activation.ts:454`). A session started by hand keeps the pin
that it read before the lock (`run.ts:837` against 1012); public requests read again (1056).

*Billing.* The mirror's guard is a select before an insert (`tenant.ts:993`), so of two deliveries
of different events the older one may write last; `MirrorHonest` says that even then a row's stamp
is its own, so an event of a later second still corrects it. Within one second nothing does: stamps
are whole seconds, and of two events of the same one (or an event of the second that a sweep has
stamped) the one that arrives second is discarded, be it the later state (`tenant.ts:996`, and
`excluded.observed_at >` of the entitlements), until a later event, a console read or a sweep. The
webhook opens the gate for any paid invoice, of a canceled or unpaid subscription too, or of none
(`webhook.ts:135`, and a test of it does so without any subscription); only a later observation
closes it. A failed invoice opens it as well while the mirror is in its grace (144-161), with the
stamp of the invoice: a cancellation of that second or an earlier one that is delivered afterwards
reaches the mirror and not the gate. The staleness sweep stamps the instant of the run on what it
read later (`subscription-sync.ts:151`). A failure after `clearPastDueSince` releases the event, and
the unguarded clear runs again on redelivery: the comments at `webhook.ts:24` and `28` cannot both
be kept. A late event of an old plan is discarded by the mirror but still grants its old key. A
customer who leaves a failing subscription for a new one is closed by the grace sweep and opened by
the console's read in turn (`reconcile.ts:281`, against `checkout.ts:233`, "so a page render and the
sweep cannot flip the same row back and forth"). The grace sweep trusts a mirror that may be stale.

## 5. What is proved

All for arbitrary constants that satisfy the named assumptions (sets of any size, any bounds).

| Theorem | States | Assumes |
| --- | --- | --- |
| `SessionProofs!LockTypeCorrect` | `AdvisoryLock!TypeOK` | |
| `SessionProofs!LockExcludes` | `MutualExclusion` | no breakers |
| `SessionProofs!LockImplementsMutex` | `ImplementsMutex` | no breakers |
| `SessionProofs!SingleBreakerSafe` | `LiveLockNeverBroken` | `OneBreaker` |
| `SessionProofs!SingleBreakerExcludes` | `MutualExclusion` | `OneBreaker` |
| `SessionProofs!LedgerInvHolds` | the inductive invariant of the ledger | |
| `SessionProofs!NothingBlindHolds` | `NothingBlind` | |
| `SessionProofs!BooksBalanceHolds` | `BooksBalance` | |
| `SessionProofs!CapHolds` | `CapHeld` | |
| `SessionProofs!BudgetHolds` | `BudgetHeld` | |
| `SessionProofs!BudgetExact` | no allocation is overrun at all | `AllocationsApart` |
| `ReducerProofs!TypeCorrect` | `TypeOK` | |
| `ReducerProofs!OwnAppendsChain` | `ChainValid` | no appender outside the lock |
| `ReducerProofs!OnlySessionsFork` | `ForksExplained` | |
| `ReducerProofs!TearsExplained` | `TearExplained` | |
| `ReducerProofs!AuditGapsExplained` | `AuditGapExplained` | |
| `ReducerProofs!ReducerImplementsStore` | `ImplementsStore` | no edit during an invocation |
| `SharedClaimsProofs!TypeCorrect` | `TypeOK` | |
| `SharedClaimsProofs!ExpiryNeverTransfers` | `ClaimsOnFile` | |
| `SharedClaimsProofs!GuardsFreed` | `GuardNeverLeft` | |
| `SharedClaimsProofs!AllOrNothing` | `UsesAllItNeeds` | |
| `SharedClaimsProofs!UseExcludes` | `ExclusiveUse` | |
| `SharedClaimsProofs!ClaimsImplementMutex` | `ImplementsMutex` | |
| `RunEngineProofs!TypeCorrect` | `TypeOK` (so no cycle exceeds `MaxAttempts`) | |
| `RunEngineProofs!AttemptedOnce` | `OneShot` | |
| `RunEngineProofs!ApprovedThroughout` | `ApprovedWork` | |
| `RunEngineProofs!SucceededAsJudged` | `SucceededJudged` | |
| `RunEngineProofs!AcceptedOnlyAsFound` | `AcceptedAsFound` | audits are reviewed |
| `RunEngineProofs!CascadesWhole` | nothing that has landed stays when an input of it falls or is replaced | `SparedApart` |
| `RunEngineProofs!OnlyPatches` | only a patch can put something on an input that is not accepted | `SparedApart` |
| `ActivationProofs!TypeCorrect` | `TypeOK` | |
| `ActivationProofs!RequestsPinned` | `RequestPinHeld` | |
| `ActivationProofs!PendingRecoverable` | `Recoverable` | |
| `ActivationProofs!ActivationImplementsTransition` | `ImplementsTransition` | |
| `ErasureProofs!AuditHonest` | `AuditTellsTruth` | `OneGuarded` |
| `ErasureProofs!CanResume` | `Resumable` | `OneGuarded` |
| `ErasureProofs!ErasureImplementsTransition` | `ImplementsTransition` | `OneGuarded` |
| `BillingProofs!TypeCorrect` | `TypeOK` | |
| `BillingProofs!OneDelivery` | `OneHolder` | |
| `BillingProofs!ClaimsStay` | `ClaimStays` | |
| `BillingProofs!MirrorIsHonest` | `MirrorHonest` | |
| `BillingProofs!OpenIsHonest` | `OpenHonest` | |
| `WorkOrdersProofs!TypeCorrect` | `TypeOK` | |
| `WorkOrdersProofs!OrdersFollow` | `OrderFollowsAttempt` | |
| `WorkOrdersProofs!ProofOnce` | `ProvedOnce` | |
| `WorkOrdersProofs!Bounded` | `OrderBounded` | |
| `WorkOrdersProofs!BlindRetryExplained` | `RetryExplained` | |

The arguments.

*Lock.* Owners are the processes between a successful exclusive create and their unlink. The
inductive invariant says that an owner's file is there and names it, or, while it is still empty,
was created by it; without breakers only the owner removes the file, so a second create finds it.
The late rename of a heartbeat or of a request is the difficulty: the invariant lets the file name
somebody who owns nothing, and in the mapping such a lock is `Wedged`. With two breakers the theorem
is false (section 4). With one, `BreakerInv` needs owners that keep their heartbeat and no
interactive caller (`OneBreaker`): an owner's file is its own and fresh, hence what the breaker has
found stale is nobody's, and stays so until it unlinks, because only the breaker could free it.

*Ledger.* `LedgerInv` ties what is on disk to what is in memory: entries are of periods that have a
balance; between two steps the session's copy has every entry of the disk and, of the balances it
knows, what is committed and spent (not what is allocated: that is the race); every attempt has an
unsettled entry of its own, which is `NothingBlind`. Since each copy agrees with the disk in what is
added, absolute writes lose nothing, and one estimate or one actual changes one balance and one sum
(`BooksBalance`). The sums are recursive functions over the entries; that a sum over a longer or a
changed sequence differs by the one entry is shown with a least counterexample
(`WFMin` and `NatLessThanWellFounded` of the library), which needs no induction rule. `CapHeld`
follows because an entry never changes its waiver, period or amount. For the budget, `remaining` may
be wrong: `BudgetInv` says of the disk and of the copy that if it overstates what is left of the
peak then less than the peak is booked: an estimate may then overrun the peak, by less than itself,
and once the peak is reached `remaining` leaves nothing for another. Under `AllocationsApart`
(`ExactInv`) what `remaining` and the bookings add up to is always one of the amounts allocated.

*Reducer.* A process that is alive and inside its transaction holds the manifest lock, so there is
at most one. For the chain: between `ReadTail` and `AppendEntry` the log of the lock's holder does
not grow, if nobody appends without the lock; with sessions, only entries of theirs come between.
For the store: what the holder loaded is still the manifest, and what it read is the tracked
content, because no edit falls into the invocation; hence `SaveManifest` is `Commit` or `Adopt` of
`TrackedStore`, and every other step a stutter.
For tears and gaps edits may fall into the invocation: `TearInv` says that what the holder wrote is
still there unless somebody edited or deleted it, and that a document under adoption is untracked
and so, in this model, out of the edits' way; `AuditInv` that an adoption at its manifest write is
logged last for its document, and that a commit before its entry has saved. Invocations that died
stay where they were, and each explains at most its own document.

*Claims.* A transaction holds the guard from `Open` to `Unguard`, so what it read is still on file
when it renames; a claim on file is removed only by a release, and a release accepts only its own.
Two workers cannot both be the owner on file. Operators clear only the guards of dead processes.
What a dispatch has acquired and what is left to acquire are together what it needs, so it leaves
the loop with everything or goes through the rollback.

*Engine types.* One lemma per operator (`InvalidateTypes`, `RepairTypes`, `ClassifiedTypes`), one
per action.

*Attempts.* `OneShot` is not inductive: a node with one attempt could be stale. The invariant
`OneShotInv` adds that such a node is on record, is not offered, and is at rest (in no status from
which a frontier, a decision or a batch would start it). The lemmas `InvalidateRests` and
`RepairRests` say that no cascade and no repair wakes it: it goes to `needs_readback` at most.
Recurrence starts a new cycle and is the only way out.

*Approvals.* `ApprovedInv` adds that outside the dispatch nothing executes, and that is when
decisions are made.

*Judgments.* `JudgedInv` adds that what waits for a judgment has its output on record. `Settles` says
what a step may do: a node that has succeeded or waits after it did so before and kept its binding,
or it lands in this very step. `InvalidateLands` and `RepairLands` say that cascades and repairs let
nothing land; files taken in at a session's start have no producer, so they replace no binding of a
node that has one. That an accepted audit found its producers' files as recorded needs the audit to
be reviewed itself (`AuditsReviewed`), which `compile.ts:343` sees to.

*Inputs.* `StandInv` says that what has landed, is offered or executes stands on its inputs:
dependencies succeeded, inputs accepted. Executors are the hard part, since their statuses may have
fallen while their inputs must not. `HitCloses` says that a cascade takes every watcher of what it
takes, `HitStaysOut` that it does not enter a part of the plan that watches only itself. Under
`PlanFlows` the ancestors of a node are such a part, alone or with the node; ancestors of what
stands have all succeeded (`AncestorsSucceeded`), so an output that lands, or is under its gates, is
no ancestor of any (`NotAnAncestor`), and neither is an audit of what it judges. Hence a cascade
during a batch touches no input of what executes (`BatchInv` says who can be in a batch together).

*Cascades.* `CascadesWhole` and `OnlyPatches` need no invariant but the types, and none of
`PlanFlows`: a node that has landed (succeeded, or waiting for its judgment) and is so still after
`Invalidate` or `Repair` was not hit, and so watches nothing that was (`InvalidateWhole`,
`RepairWhole`). `Stays` is what every step but a patch does to what has landed. A patch differs in
two ways: it may land on what fell while it was at work, and an output that comes again with the
same bytes waits for its judgment and fells nobody. A stale review spares the producers it judged:
`SparedApart` asks that such a producer depends on the review only through another one, and all ten
pairs of an audit and a producer in the shipped catalog are so. TLC checked both properties as well,
by hand, on the plan of `engine_launch`, on one with a page that reads the spec and on one where the
spec consults a fourth node that is made from that page; in the last two `InputsStand` fails.

*Work orders.* The properties speak of the run state of a session, but it may start from any copy
that an operator has written back: so the invariant demands of the file and of every copy what it
demands of `run`. `IInv` is `TypeOK`, `Sound(run)`, the same of the file and the copies (`Copied`),
that without a session memory and file agree (`Filed`), that what a batch offers or an executor
works on is in a status that allows it (`Batched`), and that effectful work in doubt is at rest, in
memory and in the file, as long as nobody has overwritten anything and its scope stands (`Doubted`).
`Sound` is a conjunction on one run state: attempts of an order are by its own node, an order's
status agrees with its attempts, only the newest attempt is open. There is one lemma per operator of
the run state that says it keeps `Sound`, and one step per action that names the operators it
applies. `verify.ts` does no harm unless it is stale: what it accepts was waiting for a judgment, so
it was neither in doubt nor at work.

*Activation.* Whoever has all three locks is the only activator at work, and no session runs beside
it (`Owners` ties each lock to a `pc`). So what it compared is what it replaces, and a session that
holds the session lock runs beside no change of the pin. `Whole` says that without a journal the
surfaces agree; `Progressed` that the ones already replaced stay so; `AllStaged` that every surface
is old or new by its bytes unless somebody edited, which is what a recovery compares with.

*Erasure.* The same with two locks and with writers. `Counted` ties journal and audit entries
together: without a journal, prepared and completed are equal, which is why a second execution
cannot run over a first one. `Untouched` (nothing clean before the prepared entry, in no file and
in no writer's memory), `Progress` (what an eraser is through with is clean) and `Certified` need
`Faithful`: a writer that holds a lock writes back what is on disk. A writer without a lock does
not, and its file (`Foreign`) is excepted. If every file of an erasure were such a file, nothing
would be left to tell before from after: `OneGuarded` asks for one that is not, which an erasure
that reaches the manifest, a proof or the business state always has. `Kept` carries `Resumable`:
the manifest's entries never run ahead of the files, nor does the copy that an eraser works on.

*Billing.* What Stripe said is fixed once the clock has passed: `Sure(s, status, stamp)` says that a
stamp is not ahead of the clock and that no event of `s` that contradicts the status is older than
the stamp. A new event is stamped with the second it is created in, so nothing that is sure becomes
unsure (`SureStays`), and no interleaving matters any more. The invariant demands it of the mirror's
rows, of every task in hand, of the verdicts of the cron and of every open gate (`Founded`) that no
invoice has opened. One that an invoice has opened is founded on that invoice, which stays on
record: a request carries its own event (`Sent`), the row of the mirror behind a failed invoice
shows that the subscription was once active or in dunning (`EverEntitled`), and so whatever the
request is about to grant is `Warranted`. A row of the staleness sweep is stamped later than what it
read, but in the same second as the sweep started: `Founded` names that second. For the claims it
suffices that whoever comes to hold an event has claimed it in that step and that only a holder
gives a claim back (`Holders`).

Only model-checked: what is about liveness (`DispatchEnds`, `SessionEnds`, `StaleRefreshed`,
`GraceEnds`): fairness and ENABLED are beyond the prover used here. Every safety property that a run
checks and finds to hold has its theorem; that of `InputsStand` is for the plans of `PlanFlows` only,
and not in the table.

## 6. Not modelled

* In the engine: applicability, dependency refreshes, the no-progress limit, lanes seeded as done,
  the design audit's own retry and founder branches (`WorkOrders` has the retry), founder trust,
  standing envelopes, scope hints, the last sweep of a cooperative yield. A plan that changes
  (`reconcileRunPlan`), a scope that changes and a lost shared resource are in `WorkOrders` only.
* In `WorkOrders`: recurring cycles, rejections that reopen another producer, deferral for shared
  resources, the no-progress limit.
* In `Ledger`: several units and currencies, grants and prerequisites, per-run periods.
* In `Activation`: a caller that already holds the session lease (`initialize.ts:171`), and what the
  staged run contains. In `Erasure`: the preview and the signature.
* In `Billing`: checkout and portal creation, unknown customers, malformed payloads, mail, page and
  batch limits, several customers (no statement touches two).
* `verify.ts` takes no lock. `WorkOrders` has it beside sessions, `Erasure` beside an eraser,
  `RunEngine` between sessions only, since its properties would not outlast a stale write.
* Hashes are injective, files are written whole: the code writes a temporary and renames it.
  `Erasure` has the temporary as well, since one that is left blocks a resume.
* Adapters, other hosted services, checks, surfaces, tooling, catalog: I/O, text, data or separate
  programs; see the notes in `PROJECT.json`.

## 7. Plan

1. **Knowledge service**: quotas and OAuth grants of `knowledge-mcp/db/tenant.ts` as statements of
   concurrent requests, like `Billing`.
2. **Recurring work**: what `InputsStand` becomes when last cycle's acceptance stands.
