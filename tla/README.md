# Verification of AI Work: money, capacity and the actors that move them

AI Work is a desktop application (Tauri, Rust and React) with an API gateway in
front of several upstream accounts, and a public router ("starlink") in front
of that gateway. A request costs *credits*, which are held while it runs, and a
*slot* of an upstream account, which few requests may share. Whoever ends a
request - a worker thread, a timer that saw the client hang up, a restart, a
receipt that arrives hours later - must end it once, and must never give money
back for work an upstream may have done. This directory models that part of the
system in TLA+, checks it with TLC on small instances and proves its main
properties with TLAPS for all of them.

Paths below are relative to `src/`; `api_server/` is
`src-tauri/src/api_server/`. `PROJECT.json` maps every definition to the lines it
stands for.

## 1. The system

| Component | Where | State | Operations | Modules |
|---|---|---|---|---|
| Budget ledger | `src-core/src/quota.rs`, parts of `requests.rs` | `quota_budget_accounts`, `quota_ledger`, `quota_reservations`, `requests` | grant, allocate, reserve on two accounts, settle, validate at a start | BudgetHold, CoreQuota |
| API keys | `src-core/src/store.rs` | `api_keys`, `users` | enable, disable, concurrency limit | CoreQuota |
| Quotes and receipts | `quota.rs`, `requests.rs` | `billing_receipts`, `billing_settlements`, `api_key_billing_blocks` | allocate against AI Work's total, quote, apply a receipt | CreditReceipt |
| Upstream scheduler | `requests.rs`, `upstream.rs` | `upstream_accounts`, `upstream_leases` | acquire, heartbeat, cancel, settle, recover, reconcile | UpstreamLease |
| Chat streams | `api_server/core_stream.rs`, `core_bridge.rs`, `core_executor.rs`, `routes.rs` | a worker, a heartbeat task, a cancel watch, two flags and a channel per stream | execute, deliver the end, record a cancellation, settle with a fallback | ChatStream |
| Scheduler runtime, desktop commands | `api_server/scheduler.rs`, `commands/api_server.rs` | none of their own | stop, start, recover, validate | ChatStream, VideoSubmit |
| Durable video queue | `src-core/src/jobs.rs`, `requests.rs` | `jobs`, `job_attempts`, `dispatch_queue_cursors` | preflight, enqueue, claim, heartbeat, start, accept, cancel, settle, reconcile, recover | VideoQueue |
| Gateway side of the queue | `api_server/routes.rs`, `core_bridge.rs`, `core_video.rs`, `video_worker.rs`, `video_payload.rs` | files with the jobs' inputs, permits of the limiter, heartbeat tasks | submit, cancel, run, release | VideoSubmit |
| Router | `starlink-dimension-router/src` | table of jobs, `video_jobs.json`, a core store of its own | forward, poll, settle, write the file | RouterVideo |
| Bridge budgets | `api_server/bridge_{budget,prepared,dispatch,execution,receipts,rebase,capacity_source,runtime,lease}.rs` | prepared budgets, capacity, fences, executions, receipts, outbox | prepare, consume, send, finish, confirm, rebase, sweep, recover | BridgeBudget |
| Bridge evidence | `api_server/bridge_billing.rs`, `bridge_api.rs`, `auth.rs`, `video.rs`, `commands/usage_history.rs` | core requests, their upstream sessions, receipts, `usage_history.json` | record, call, reject, refresh the history, write a final receipt | BridgeEvidence |
| Account pool, rate limits, protocol conversion, gateway's own video tasks, vault, UI, scripts | see section 6 | | | none |

How they interact. The ledger, the scheduler and the queue share one SQLite file
behind one mutex; each operation is one IMMEDIATE transaction. The gateway calls
them from several threads, and *between* two calls anything may happen. The
threads of one stream share two atomic flags and a channel with the client. A
process that dies loses threads, flags, permits and channels and keeps its
files; a start recovers expired leases and then checks the ledger. The router is
a second process with its own store that calls the gateway over HTTP, and asks it
later how far a video is; what it has cost the gateway learns from the usage
history of its upstream accounts.

What is hard, and what makes each component correct:

| Component | Hard behaviour | What must hold |
|---|---|---|
| Budget ledger | a reservation is charged on two accounts; settlements are repeated; keys change while requests run | solvency; the tables agree; each hold ends once; an admission does not exceed a key's limit |
| Quotes and receipts | receipts arrive in any order, repeatedly, contradicting each other or above the quote | the first valid final receipt decides; doubt and debt block the key; what a check lets through is covered |
| Scheduler | heartbeat, cancel, settlement, recovery and reconciliation in any order, with time passing | lease, request and reservation tell one story; an unknown lease keeps slot and money |
| Chat streams | two actors settle the same lease from different knowledge; the client leaves, the store fails, the process dies | no refund for accepted work; a finished worker leaves no open lease; a lease whose client left is closed |
| Video queue and its gateway side | nine operations write five tables; retries, a worker and a cancellation compete; hang-ups and crashes between any two steps | the five tables agree; a video is sent once; its input and permit stay as long as it may run; no refund for accepted work |
| Router | it forwards before it writes its file; the file is written without a lock; answers are used late; one task may be given to two requests | the table says nothing that is not so; nothing is sent twice; no refund for a task; marks for reconciliation stay, and whatever no answer can help is marked |
| Bridge budgets | revisions of a budget, a crash between any two of the closing transactions, a rebase that reads the upstream without a lock | sent once; a hold is kept until a receipt; doubt keeps the account fenced; exposure is carried over |
| Bridge evidence | several calls and several billing requests of the same Core request, while the history is refreshed | a final receipt is backed by what the upstream charged; evidence only hardens |

## 2. The modules

```
BudgetHold              what a ledger promises: an escrow
  ^ refined by
CoreQuota               accounts, reservations, settlement, keys
  ^ EXTENDS     ^ EXTENDS        ^ EXTENDS
  |          CreditReceipt    RouterVideo (refines CoreQuota)
UpstreamLease           leases, slots, recovery, the clock
  ^ EXTENDS          ^ EXTENDS
ChatStream         VideoQueue          jobs, attempts, claims
(refines             ^ EXTENDS
 UpstreamLease)    VideoSubmit         handlers, worker, files, permits
                     (refines VideoQueue)

BridgeBudget            prepared budgets of the exclusive billing service
BridgeEvidence          receipts of the shared one
```

`*_proofs` modules hold the proofs, `MC*` modules the constants of the instances.
Amounts, limits and instants are small integers; identifiers are model values;
formatting, hashing and the parsing of messages are left out. Amounts in the code
are `i64` with checked arithmetic, and an overflow is an error that rolls back:
widths matter to no property here. A failed guard, a conflict or an error inside
a transaction rolls it back and is a disabled action.

**BudgetHold** knows wallets, holds and payers only. A request takes its amount
from all of its accounts or none, and ends once: everything is given back, or at
most the amount is charged, to all alike. It is the property
`ImplementsBudgetHold` of the modules that move money.

**CoreQuota.** `available` and `granted` are the sums that
`budget_balance_in_transaction` forms over `quota_ledger`; `ledger[r]` is the event
group of one reservation, row by row, because the startup check reads it.
`request` and `reservation` are the `state` columns. A request stands for one
idempotency key, so a repeated preflight finds it. `ReserveDual` and
`ApplySettlement` are what the code shares between transactions, and the modules
above share them too. The walk of `settle_request_state` through intermediate
states happens inside a transaction and is the predicate `CanSettleTo`.

**CreditReceipt** adds quotes, receipts with what is stored of them, settlements and
key blocks, and outside the store what AI Work has left and has charged. Two
operations give a key credits without a look at AI Work's total, the administrator's
grant and the allocation from the pool (`GiveUnchecked`). The next operation that
looks refuses while the total does not cover the keys
(`UpstreamCommitmentsExceedBalance`); the history variable `unchecked` adds up what
was so given since a check last passed, and `KeysCovered` says that no more than
that is uncovered. A final receipt above its quote is committed with a negative
refund, as in the code. The snapshot of AI Work's credits is taken as fresh (the
code accepts one up to five minutes old); keys stay active. `apply_credit_receipt`
and `reserve_credit_quote` have no caller outside tests yet, and nothing removes a
block.

**UpstreamLease** adds one lease per request and a clock. `selectable` stands for
everything the ranking looks at; which selectable account with a free slot is
first is left open, since observations come from outside. An outcome
(`LeaseOutcome`) is what a caller of `settle_upstream_lease_with_status` or
`reconcile_unknown_upstream_lease` may report, with what the code does to the
three rows.

**ChatStream** has a program counter per request for the worker and one for the
cancel watch, the flags, the client's end of the channel, and `upstream`, what
became of the call - a variable no program reads, against which refunds are judged.
A refused settlement falls back to *unknown*. `Crash` kills every actor; `Stop`
stops the gateway and leaves its blocking threads running, as the window's button
does. What an adapter calls rejected differs (`Return`): a stream is rejected only
where the upstream has refused it or never got it, a chat that is not streamed is
rejected with any HTTP error but 502. `StoreErrors`, `Crashes` and `CancelConfirms`
switch failures on and off, and `Upkeep` the coming and going of keys and accounts,
so that a run can say under which of them a property holds.

**VideoQueue** adds the job, its one attempt, the claim and the cursor of users.
Settlement, reconciliation and recovery of a video lease are the operations of
UpstreamLease conjoined with `SyncJob`, which the code runs in the same
transaction. `reference` says which rows hold the upstream's request reference,
since recovery and settlement overwrite it.

**VideoSubmit** puts the actors around the queue. A *submission* is one HTTP request
and the job id it makes up; submissions of the same request repeat its
idempotency key. `pc` follows `core_videos_generations`, `video_cancel` and
`VideoQueueWorker::run_once` from one side effect to the next: permit, input file,
job, retained permit, claim, call, outcome, file, permit. All handlers claim under
one worker id, as in the code. The store may refuse any transaction, which
subsumes disabled keys and users and unselectable accounts. A failed heartbeat, a
panic of the adapter and a rejection after acceptance are the outcome *unknown*.
`HangUp` is the drop of the handler's future while it awaits the adapter; its
heartbeat task goes on. `Restart` is the death of the process: it loses permits and
actors and recovers expired leases. `Reopen` is a stop and start of the gateway in
one process: actors and permits stay, expired leases are recovered, but the new
limiter has counted nothing. `permits` is the process-wide table of permits,
`counted` the jobs the live limiter knows of.

**RouterVideo** has one handler per request, the pollers (a user's status query and
the reconciler), the table, the file and the snapshot each writer holds. The
table is a map from ids, as in the code: a task's id, the id of the chat completion
the gateway wraps a task in, or one made of the request's own. `got` is the task the
gateway has for a request, which is another request's if both carry the same
`ClientKey`: the router sends the client's Idempotency-Key on, and to the gateway all
its requests come from one bridge key. The second job then replaces the first in
the table. Every access to the table and to the ledger is one step, since each
takes its lock for itself. The gateway's bridge mutex is ignored, which only adds
interleavings; a task that ended has succeeded or failed, which are treated alike; a
snapshot is taken when its write begins. The branch of `settle_video_job` for a
verified receipt is not there: the gateway shows the router a task's `billing` as
absent or *unverified* and nothing in it writes anything else, so no job's hold ends.
Requests that are retried are answered from the table and add nothing.

**BridgeBudget** describes one upstream account. Every action is one transaction,
or one step of a thread between two; the transactions of a closure are separate
because a crash can separate them. A recovery is the state *recovery* of the lease
of the same generation. Time to live is one flag per budget (`expired`).
Prepared budgets of an older generation keep their hold by design.

**BridgeEvidence.** A session id is a digest of request and account, so a session is
a pair. A billing request asks the store, the cache and the store again, and
writes: four steps, of which only the last is one transaction with what it
decides on. The mode `legacy_one_shot` behaves like *quoted* here. A receipt may
understate what the upstream charges later: nothing in the code can know.

## 3. Runs

All runs switch deadlock checking off: when every request has ended and no bound
allows another step, the system really stops.

| Run | Instance | Distinct states | What it shows |
|---|---|---|---|
| `quota_one_key` | one key and a cap account, requests of 1 and 2, limits 1 and 2, at most 3 granted | 185,368 | solvency, `Conservation`, agreement of the tables, admission, refinement of BudgetHold |
| `credit_receipts` | two keys of one user, two alike requests of one of them, 3 credits at AI Work, at most 2 given to each account, charges 1 and 2, receipts within the quote, above it and in another unit | 584,398 | the first final receipt decides; doubt and debt block; a check lets nothing through that is not covered |
| `chat_crash` | one stream, lease 2, window 1, instants 0-3, crashes, fairness of the watch | 166,168 | no refund of accepted work, no abandoned lease, refinement of UpstreamLease, a lease whose client left is closed |
| `chat_store_errors` | a stream and a chat on one slot, any store call may fail, lease and window 1, instants 0-1 | 780,756 | no refund of a stream's work, and one story of lease, request and reservation, expiry and recovery included |
| `video_queue` | two alike jobs of one user, one slot, one worker, lease 2, window 1, instants 0-2 | 447,640 | five tables, claims, slots |
| `video_submit` | one request submitted twice, a worker, a cancellation, two alike accounts of one slot, lease 1, instants 0-2, a death of the process or a stop and start of the gateway | 1,517,002 | input and permit of an unfinished job, one call, one account, no refund of accepted work |
| `router_video` | two users and one Idempotency-Key, a video and a request of any kind, the reconciler, a crash, fairness of the reconciler | 506,022 | nothing claimed that is not so, no refund, one submission, marks stay, what no answer can help is marked |
| `bridge_budget` | two revisions of a video and a text, one snapshot, two generations | 858,816 | sent once, no-send is true, holds kept, the outbox tells the receipts |
| `bridge_rebase` | a video and a text, two snapshots, two generations, fairness of maintenance | 115,650 | fences stay in doubt, exposure is carried, expired is released, no-send is told |
| `evidence` | one request, two accounts, two calls, two billing requests, a task, charges up to 2 | 1,191,155 | finals are backed, evidence hardens, same task same receipt |
| `startup_quarantine` | as `quota_one_key` | violation | finding 1 |
| `bridge_fence` | as `bridge_rebase` | violation | finding 2 |

Why the bounds are enough to be interesting. *Two requests* of the ledger are needed
for one to be refused money, a slot or admission because of the other, and no
operation relates three. Amounts *1 and 2* with 3 granted make every combination of
fitting and not fitting happen, and a partial commit. *One slot* makes unknown
leases block. Lease 2 and window 1 are the smallest values with an instant strictly
inside the lease; three instants let a lease expire, be extended, be recovered and
be reconciled in time or too late. `video_submit` keeps to one request, since files,
permits and calls of different requests meet only in the queue, which `video_queue`
checks with two; two submissions of it are a retry, and with the worker and the
cancellation all four ways to end a job compete. It has two accounts, since with one
a job could not move to another; with two `video_queue` has 2,259,804 states and
passes too, longer than a run should take. Two restarts were tried in `video_submit`
and pass as well (2,928,994 states). In `credit_receipts` three credits at AI Work
are fewer than the four that the keys can be given, so checks are refused because of
what others got, and two requests can both be charged; receipts without a charge
beside the others were tried with two credits (1,646,018) and with three
(5,211,926). In `chat_store_errors` a lease taken at instant 0 can expire while one
taken at 1 lives (two instants were tried, 1,753,540 states); keys and accounts do
not change there (`Upkeep`), since a store that refuses any call does what they
could do, as an instance with them confirmed (2,465,944); the reconciliation by hand
(`ReconcileLease`) is no operation of the chat's own. One crash in `router_video`
separates every pair of steps, and one of the two requests is always a video, since
what they compete for is a task; requests of any kind for both (934,688 states) and
a second poller with two videos (2,584,914) were tried for the safety properties and
pass. Three budgets of two requests give a replacement next to another hold. Alike
jobs, keys and accounts are declared symmetric where only safety is checked.
Unbounded in the code and capped here: grants (`MaxGranted`), the clock (`MaxTime`),
crashes (`MaxCrashes`, `MaxRestarts`), generations, epochs and charges. The proofs cap none of them
but where an action's guard does.

`AdmissionWithinLimit` is about `preflight_reserve`; preflights that take a lease
do not read the key's limit in the code, and so not in the model.

**Fairness** is assumed where the code has a timer of its own and nowhere else:

* `FairChatSpec`: weak fairness of the cancel watch and of what it starts. It is a
  task on a 50 ms timer that hands its store calls to the blocking pool and waits
  for nobody. Nothing is assumed of the worker - the adapter may never return -
  the client, the upstream or the heartbeat. The property is about a lease of a
  process that lives: a crash leaves it to a later start.
* BridgeBudget's `FairSpec`: weak fairness of the maintenance task's sweeps, of the
  expiry of a budget and of the end of a reading of the upstream.
* `FairRouterSpec`: the reconciler, a loop of its own every 15 seconds, goes on, since
  each call it makes ends by an answer or a timeout (weak fairness of its steps), and
  it takes every open job of the table in turn, so an unmarked job that no answer can
  help is visited some time (strong fairness, as a start may bring jobs back and
  others may come in between). Nothing is assumed of users, handlers or the gateway.

Each property of a passing run is known to fail for a faulty variant of the code,
kept beside the definition it replaces (`Faulty...`): a dropped check, a settlement
of one account only, a permit given back too early, an error ignored.

## 4. Findings

1. `QuarantineHasCause` (`quota.rs:838`). The startup check expects as many rows in an
   event group as the reservation has accounts *and* a reserve and a final row on
   each: no settled group passes, so every account that has settled a request is
   set to `reconcile_required` by the next enforcing start.
2. `FencedBriefly` (`bridge_capacity_source.rs:253`). A stop during a rebase closes
   the lease first; the guard's abort is then refused and its error dropped. The
   end counts as clean, so no recovery looks for the fence: the account takes no
   budget any more, however long the lease is ready again.

### Known divergences

What the models do because the code does it, although a comment, a document or
common sense says otherwise. They are not runs; each can be seen in the definition
named.

* *Settled, or already closed* (`SettleJob`). `settle_video_job` reports a lease that was
  closed before, as unknown too, like one it closed (`applied` is not looked at in
  `routes.rs:2666`, `routes.rs:3218` and `video_worker.rs:177`). A late success or a
  confirmed cancellation then deletes the input and gives back the permit of a
  job that is *unknown*, against the comment at `video_worker.rs:185`.
* *Hang-up* (`HangUp`, `Beat`). A client that hangs up during `submit_video` drops the
  handler; the heartbeat task has no owner and extends the lease for ever.
* *Lost reference* (`SyncJob`). A settlement replaces the recorded upstream reference by
  the outcome's, or by none (`jobs.rs:1065`).
* *Leaks of the durable queue.* A queued job that is cancelled keeps permit and input;
  so do accepted jobs, which nothing in the program polls; the permits of the queue
  are not restored after a crash. A claim is committed before the bridge looks for the
  account's binding (`core_bridge.rs:638`): without one nobody runs the job. `VideoQueueWorker` is built by tests only, and
  there is no production adapter.
* *Head of the line* (`ClaimNextVideoJob`). A job no account can take makes every claim
  fail; users are not served in turn if one of them has the oldest job.
* *Success without units* (`ApplySettlement`, `LeaseOutcome`). It closes lease and request
  and leaves the reservation unknown, out of every operation's reach.
* *Reconciliation window* (`Heartbeat`). It is not extended with the lease; a call lost
  after ten minutes becomes unknown with the window over.
* *Orphans* (`StartRecovery`). A start recovers expired leases only, and nothing
  recovers later.
* *Told success* (`ChatStream`). The end of a stream is sent before it is settled; a
  hang-up in between ends a success as unknown.
* *Receipts and the startup check.* A receipt above the quote, or a hold that waits for
  one, makes its event group inconsistent, so the next start quarantines the
  account (with finding 1).
* *Receipt race* (`BridgeEvidence`). That a request has one session is checked in one
  read, and the receipt written in a later transaction (`bridge_billing.rs:717`), against
  the comment at `bridge_api.rs:501`.
* *Rejected chats* (`ChatStream!Return`). The adapter of a chat that is not streamed
  answers `Rejected { accepted: false }` for every HTTP error but 502, 500, 503 and 504
  among them (`core_executor.rs:477`, `1070`, `1125`), and its money is given back, though
  the upstream may have done the work. The design wants unknown where acceptance
  cannot be ruled out (`docs/superpowers/specs/2026-09-19-aiwork-credit-aware-scheduler-design.md:221`)
  and a release for an explicit rejection only
  (`docs/superpowers/plans/2026-09-19-aiwork-phase3-streaming-plan.md:220`).
  `NoRefundForAcceptedWork` is therefore about streams.
* *Stop and start of the gateway* (`Reopen`). The new limiter (`commands/api_server.rs:405`)
  counts nothing, while the permits in `JOB_PERMITS` (`video.rs:117`) are the old one's;
  `restore_persisted_job_permits` knows the gateway's own tasks, not the durable queue. A
  key may then run as many videos again as its limit says. `UnfinishedHoldsPermit` is
  about the jobs the live limiter has counted.
* *Credits without a check* (`GiveUnchecked`). `key_quota_grant_as_admin` (`quota.rs:566`) and
  the allocation from the pool do not look at AI Work's total. Once they exceed it, every
  checked operation fails (`quota.rs:1396`) until the total has grown.
* *Router: nothing settles a video* (`Verdict`). The goal is to settle a video once a
  verified receipt is there (`docs/superpowers/plans/2026-09-22-video-actual-credit-settlement.md:5`).
  The router reads the `billing` of a task from the gateway, which is absent or
  unverified there; the verified receipts are in another table (BridgeEvidence), which
  the router never asks. Every video ends marked for reconciliation, its money held
  (theorem `VideosHeld`).
* *Router: one task for two requests* (`Given`, `InsertJob`). The gateway scopes idempotency
  keys by API key so that callers do not see each other's tasks (`video.rs:838`), but all
  users of the router share one key. The second user's job replaces the first's, who can
  no longer ask for it, and both holds stay.
* *Router: lost jobs* (`Restart`, `EndWrite`, `HandlerSettles`). A crash between forwarding
  and writing, or a torn or mixed `video_jobs.json`, loses jobs while their money stays
  held; a handler ignores the error of its settlement. A video asked for through the chat
  endpoint is answered as a chat completion, whose id is taken for the task's, so no poll
  ever finds it. A late answer "running" overwrites the status, though not the mark, of a
  job marked for reconciliation.
* *Gateway's own video tasks* (not modelled). `restore_persisted_job_permits` can give
  a terminal task a permit (comment at `video.rs:276`); an older snapshot renamed over
  a newer one and a crash lose an idempotency key (`video.rs:921`); after a crash tasks
  that had not ended keep their permits.

## 5. Proofs

Eight modules prove 69 theorems from 304 lemmas; `PROJECT.json` lists the 60 a
reader should know of. With them every invariant and every action or refinement
property of a passing run is a theorem. They hold for every instance of the
constants that satisfies the named assumptions (`QuotaConstants`, `LeaseConstants`, `ChatConstants`,
`QueueConstants`, `SubmitConstants`, `CreditConstants`, `BudgetConstants`,
`EvidenceConstants`, `RouterConstants`), which TLC evaluates in the runs; sets of
keys, requests, accounts and workers may be infinite, and amounts, limits and
instants any integers of their kind.

* **Sums.** What is held, charged, committed or exposed is `SumFunctionOnSet(f, S)`,
  which the library defines as a recursive function over the subsets of `S` that takes
  one chosen element at a time. `LeastSubset` says that a set of subsets of a finite
  set has a smallest one (its cardinalities are naturals); so if such a function did
  not exist, were not unique, or depended on the order of the elements, there would
  be a smallest subset where that happens, and one step of the definition leads to a
  smaller one. The facts the proofs cite are `SumAdd`, `SumRemove`, `SumChange`,
  `SumUnion`, `SumMonotone` and `SumNat`.
* **CoreQuota_proofs.** `TypeOK` is inductive. `Solvency` needs no more: a reservation
  is checked on each account it charges, and a settlement credits at most the
  amount. `LedgerAgreement`, `Admission` (with the finiteness of the requests that
  exist, since cardinalities need it), `SettlementIsFinal` and the refinement
  `Implementation` follow from a case split of a step: it moves no reservation,
  reserves one request or settles a held one. `MoneyIsConserved` is about two sums per
  account, over its open holds and over its commit rows. It is inductive as `Funds`,
  which adds that both sets are finite, together with `LedgerMatchesReservation`: that a
  held request has no commit row yet is what makes its first one a new summand.
* **UpstreamLease_proofs.** `ApplySettlement` and `RecoverExpired` do not look at the
  reservation's state, so nothing about money is inductive by itself. The
  strengthening is `AllAgree`: an open lease stands beside a held reservation, an
  unknown one beside an unknown one. It gives `LeaseMoves`: every step moves the
  money in one of five ways (`MoneyMove`), about which solvency, agreement,
  finality, conservation (`MoveFunds`) and the refinement are lemmas that the video
  queue uses as well. Through `ChatImplementsLease` they hold for chat too
  (`ChatKeepsLease`).
* **ChatStream_proofs.** Every step of an actor maps to a step or a stutter of
  UpstreamLease (`ChatImplementsLease`). `ChatRefunds`: the invariant `RefundSafe` says
  that an actor that is going to settle a stream "rejected" or "canceled" knows that the
  upstream refused, stopped or never got the call. `ChatClosesLeases` is proved for
  `StoreErrors = FALSE`: a refused settlement then means the request is
  `cancel_requested`, from which the fallback to unknown is always possible.
* **VideoQueue_proofs.** Requests pass through "queued" and "dispatched" here; the place
  of `AllAgree` is taken by `JobAgreesWithLease`, which is inductive with the types
  and the finiteness of the jobs. The second half is about VideoSubmit. `GateInv`
  says, per actor, what it knows of its job (`ActorOK`): it was claimed, was not
  sent yet, will never be made, is finished; per request, that only a claimed job is
  sent, once, and that money came back for a claimed job only if the upstream
  refused (`SentOK`); and that at most one actor is about to send a job
  (`OneCaller`). `SubmitIsQueue` needs it, since a settlement is a step of the queue
  only for a job that exists; with it the queue's own lemmas say that claims and
  ends are never undone (`QueueOnward`).
* **LedgerClients_proofs**, about two specifications. CreditReceipt: per request, `Bill`: it has no quote, awaits its receipt
  with all its holds, or is concluded, charged as settled and flagged if in doubt.
  `DebtIsBlocked` needs a second induction over the accounts in debt.
  `CreditConservation` covers charges above their quote. `CreditsCoverKeys` relates a
  sum over keys to a sum over requests; `CoverInv` adds to it that both are finite, that
  a quote is held on its own key and no other, that a key without a grant has nothing,
  and that AI Work charges for quotes only. What a key in
  debt may spend counts as nothing, and a settlement there would not lower the sum by its
  charge; so the step also uses `DebtIsBlocked`: while AI Work charges no more than
  quoted, no key is in debt. A grant or an allocation from the pool raises the sum and
  `unchecked` alike.
  RouterVideo: `RouterInv` says of every handler what the ledger holds for its request
  and which task the gateway has for it (`HandlerOK`), where every poller is
  (`PollerOK`), and what every copy of the table - in memory, in the file, in every
  snapshot - may say (`TablesOK`). That a job written long ago is still so rests on two
  facts: nothing settles a request with a task, and `got` never changes once it names
  one. Each step maps to a step or a stutter of CoreQuota
  (`RouterImplementsQuota`), from which the ledger's theorems, solvency and
  conservation among them, follow for the router.
* **BridgeBudget_proofs.** Per budget, `Agrees` relates the six rows of a budget and
  its threads to what was sent; with `OneLive`, at most one revision of a request
  is alive. The fence and the outbox have invariants of their own. `ExposureAlwaysCarried`
  needs only that finitely many budgets exist (`ExposureInv`): a new budget is tested
  against the sums, a receipt turns a hold into a charge that is no larger, and a
  snapshot is taken while nothing is held and covers every charge.
* **BridgeEvidence_proofs.** `Truth` says what each copy of the history - a reader's, the
  cache, a billing request's - has seen: a lower bound of what was charged. The
  action properties follow from it and from the monotonicity of charges.

Stated as theorems and not run: `SettledOnce`, `NoCreditAfterDoubt`, `FactsAreFinal`,
`CoveredWhenQuiet`, `HoldDiscipline`, `VideosHeld` and the implementations of
CoreQuota by RouterVideo and of VideoQueue by VideoSubmit; their runs are those of
the invariants they rest on.

Model-checked only: `ClosedStreamSettles`, `ExpiredIsReleased`, `NoSendIsTold` and
`HopelessAreMarked`, which are liveness under fairness (their proofs need ENABLED, which the
provers do not have), and the violations.

## 6. Not modelled

* *Account pool, retry and dispatch; rate limits* (`api_server/{pool,retry,dispatch,
  limits}.rs`). Health, in-flight counters, cooldowns and sticky conversations live in
  memory, hold no money and survive nothing; the core's scheduler replaces them in
  enforce mode. The sliding windows of the limiter are counters behind one mutex.
* *The gateway's own video tasks* (`api_server/video.rs`). What the router and the billing
  table see of a task is in RouterVideo and BridgeEvidence; the task table is
  otherwise a cache with the divergences above.
* *Protocol conversion*: pure data, no state that outlives a request.
* *Check-ins, switching of desktop logins, updates, the vault, scripts, the user
  interface*: files, user-driven processes, cryptography and presentation.
* *Inside modelled components*: allocation of legacy balances; receipts of unverified
  sources; native grants, task binding and legacy collisions of the bridge; scopes,
  admission gate, assets and downloads of the router; `reconcile_video_job`, which
  no handler calls; the refresh of observations beyond `selectable`; migrations,
  backups and administration of the store.
