---------------------------- MODULE BridgeBudget ----------------------------
(***************************************************************************)
(* Paid work of the bridge on one upstream account: a budget is prepared   *)
(* (a hold on the account's observed capacity), consumed by one worker,    *)
(* sent at most once, finished, and settled by a receipt that is read      *)
(* later from the upstream's usage history. Every action is one IMMEDIATE  *)
(* transaction or one step of a thread between two of them; the process    *)
(* may be closed, die, start and be recovered at any point.                *)
(*                                                                         *)
(* A budget is a revision of a request, with a random identifier that is   *)
(* never used again. Accounts share no row but the table of keys and the   *)
(* generation, so one is modelled; one key stands for the keys. Credits    *)
(* that the account's native grants would add are taken as none.           *)
(***************************************************************************)
EXTENDS Integers, Sequences, FiniteSets, FiniteSetsExt

CONSTANTS
    Budgets,
    RequestOf,     \* [Budgets -> requests]
    Videos,        \* budgets of videos; they may use credits for work, the others only general ones
    HoldOf,        \* hold_microcredits
    Credits,       \* amounts the usage history may show for a session
    Snapshots,     \* observed <<general, work>> of the account
    MaxGeneration, \* bound: event generations
    MaxEpoch       \* bound: snapshots taken

ASSUME BudgetConstants ==
    /\ HoldOf \in [Budgets -> Nat \ {0}]
    /\ Videos \subseteq Budgets
    /\ Credits \subseteq Nat
    /\ Snapshots \subseteq Nat \X Nat
    /\ Snapshots # {}
    /\ MaxGeneration \in Nat
    /\ MaxEpoch \in Nat

NoSend   == {"canceled", "no_send"}          \* prepared states that carry a NoSendProof
Terminal == {"succeeded", "failed"}          \* ExecutionState::terminal
Holding  == {"P", "R"}

\* What a receipt says; the hash of a receipt identifies these fields.
Final(v)  == [kind |-> "final", amount |-> v]
NoCharge  == [kind |-> "failed_no_charge", amount |-> 0]
Source    == [kind |-> "source_conflict", amount |-> 0]
Facts     == {Final(v) : v \in Credits} \cup {NoCharge, Source}
NoReceipt == [state |-> "none", fact |-> NoCharge]
NoRebase  == [generation |-> 0, mark |-> 0]

VARIABLES
    generation,  \* bridge_schema_meta.event_generation
    lease,       \* "ready", "closing", "recovery"; "idle" after a clean close, "down" after a crash
    keyActive,   \* bridge_core_api_keys.active
    epoch, capacity, fence,  \* bridge_capacity_accounts; fence names the owner of a fence
    rebase,      \* the pending row of bridge_capacity_rebases
    prepared,    \* bridge_prepared_budgets.state, "none" before the row exists
    madeIn,      \* event_generation of the row and of its slot
    madeAt,      \* snapshot_epoch of the slot
    expired,     \* expires_at_ms and the minute of the sweep have passed
    stage,       \* bridge_capacity_slots.stage
    charged,     \* actual_microcredits
    covered,     \* a row of bridge_capacity_covered
    execution,   \* bridge_budget_executions.execution_state
    receipt,     \* bridge_budget_receipts
    outbox,      \* bridge_budget_receipt_events, in order of sequence
    worker,      \* the thread of run_consumed
    reader,      \* the thread of reconcile_with_mode, between its transactions
    sent         \* how often the upstream was called for the budget

slotVars   == <<stage, charged>>
prepVars   == <<prepared, madeIn, madeAt>>
factVars   == <<receipt, outbox>>
acctVars   == <<epoch, capacity>>
threadVars == <<worker, reader, sent>>
fenceVars  == <<fence, rebase, covered>>
lifeVars   == <<generation, lease, keyActive>>
vars == <<lifeVars, acctVars, fenceVars, prepVars, expired, slotVars, execution, factVars, threadVars>>

-----------------------------------------------------------------------------
Ready     == lease = "ready"                               \* require_active_lease
FactOwner == lease \in {"ready", "closing", "recovery"}    \* require_fact_lease

Holders(S)    == {b \in S : stage[b] \in Holding}
HoldSum(S)    == SumFunctionOnSet(HoldOf, Holders(S))
Uncovered(S)  == {b \in S : stage[b] = "D" /\ ~covered[b]}
ChargeSum(S)  == SumFunctionOnSet(charged, Uncovered(S))
Floor(n)      == IF n < 0 THEN 0 ELSE n

\* A video spends credits for work although the general ones are promised already.
FaultyCheckCapacity(b, atEpoch) ==
    LET needed == HoldSum(Budgets \ {b}) + HoldOf[b]
        spent  == ChargeSum(Budgets \ {b})
    IN  /\ fence = "open" /\ atEpoch = epoch
        /\ needed <= Floor(capacity[1] + capacity[2] - spent)
        /\ b \notin Videos => needed <= Floor(capacity[1] - spent)

\* Whether the capacity still carries budget b, with everything else that is held
\* or charged and not yet in the snapshot. A hold that may use credits for work
\* counts against the general ones as soon as somebody needs those.
CheckCapacity(b, atEpoch) ==
    LET others      == Budgets \ {b}
        general     == HoldSum(others \ Videos)
        needed      == general + HoldSum(others \cap Videos) + HoldOf[b]
        spent       == ChargeSum(others)
    IN  /\ fence = "open"
        /\ atEpoch = epoch
        /\ needed <= Floor(capacity[1] + capacity[2] - spent)
        /\ (b \notin Videos \/ general > 0) => needed <= Floor(capacity[1] - spent)

HasConflict == \E b \in Budgets : receipt[b].state = "conflict"

\* Nothing is held, running or unsettled on the account.
Quiet ==
    /\ \A b \in Budgets :
        /\ stage[b] \notin Holding
        /\ prepared[b] \notin {"prepared", "consumed"}
        /\ prepared[b] = "send_intent" => execution[b] \in Terminal /\ receipt[b].state = "final"
        /\ stage[b] = "D" => receipt[b].state = "final"
    /\ ~HasConflict

-----------------------------------------------------------------------------
(* Preparing, cancelling and consuming.                                    *)

\* A replacement is taken while the worker of the revision before is about to send.
FaultyPrepareBudget(b) ==
    /\ Ready
    /\ prepared[b] = "none"
    /\ \A c \in Budgets : RequestOf[c] = RequestOf[b] => prepared[c] # "prepared"
    /\ CheckCapacity(b, epoch)
    /\ prepared' = [prepared EXCEPT ![b] = "prepared"]
    /\ madeIn' = [madeIn EXCEPT ![b] = generation]
    /\ madeAt' = [madeAt EXCEPT ![b] = epoch]
    /\ stage' = [stage EXCEPT ![b] = "P"]
    /\ UNCHANGED <<lifeVars, acctVars, fenceVars, expired, charged, execution, factVars, threadVars>>

\* A first revision, or a replacement with the proof that the one before was never sent.
PrepareBudget(b) ==
    /\ Ready
    /\ prepared[b] = "none"
    /\ \A c \in Budgets : RequestOf[c] = RequestOf[b] => prepared[c] \in NoSend \cup {"none"}
    /\ keyActive
    /\ CheckCapacity(b, epoch)
    /\ prepared' = [prepared EXCEPT ![b] = "prepared"]
    /\ madeIn' = [madeIn EXCEPT ![b] = generation]
    /\ madeAt' = [madeAt EXCEPT ![b] = epoch]
    /\ stage' = [stage EXCEPT ![b] = "P"]
    /\ UNCHANGED <<lifeVars, acctVars, fenceVars, expired, charged, execution, factVars, threadVars>>

\* The durable decision that b is not sent; its hold is given back with it.
DecideNoSend(b, state) ==
    /\ Ready
    /\ madeIn[b] = generation
    /\ stage[b] = "P"
    /\ prepared' = [prepared EXCEPT ![b] = state]
    /\ stage' = [stage EXCEPT ![b] = "released"]

\* What has expired cannot be canceled any more.
FaultyCancelBudget(b) ==
    /\ prepared[b] = "prepared" /\ ~expired[b]
    /\ DecideNoSend(b, "canceled")
    /\ UNCHANGED <<lifeVars, acctVars, fenceVars, madeIn, madeAt, expired, charged, execution, factVars, threadVars>>

CancelBudget(b) ==
    /\ prepared[b] = "prepared"
    /\ DecideNoSend(b, "canceled")
    /\ UNCHANGED <<lifeVars, acctVars, fenceVars, madeIn, madeAt, expired, charged, execution, factVars, threadVars>>

\* Consuming refuses what has expired or is no longer carried; otherwise one worker gets it.
ConsumeBudget(b) ==
    /\ Ready
    /\ prepared[b] = "prepared"
    /\ madeIn[b] = generation
    /\ IF expired[b] \/ ~keyActive \/ ~CheckCapacity(b, madeAt[b])
       THEN /\ DecideNoSend(b, "no_send")
            /\ UNCHANGED worker
       ELSE /\ prepared' = [prepared EXCEPT ![b] = "consumed"]
            /\ worker' = [worker EXCEPT ![b] = "granted"]
            /\ UNCHANGED stage
    /\ UNCHANGED <<lifeVars, acctVars, fenceVars, madeIn, madeAt, expired, charged, execution, factVars, reader, sent>>

\* A call that failed is taken for one that was never made.
FaultyFailBeforeSend(b) ==
    /\ worker[b] \in {"granted", "waiting"}
    /\ DecideNoSend(b, "no_send")
    /\ worker' = [worker EXCEPT ![b] = "none"]
    /\ UNCHANGED <<lifeVars, acctVars, fenceVars, madeIn, madeAt, expired, charged, execution, factVars, reader, sent>>

\* No account, no payload, or the send was refused: the worker proves that nothing was sent.
FailBeforeSend(b) ==
    /\ worker[b] = "granted"
    /\ prepared[b] = "consumed"
    /\ DecideNoSend(b, "no_send")
    /\ worker' = [worker EXCEPT ![b] = "none"]
    /\ UNCHANGED <<lifeVars, acctVars, fenceVars, madeIn, madeAt, expired, charged, execution, factVars, reader, sent>>

\* While the gateway closes neither sending nor that proof is allowed.
LeaveUnsent(b) ==
    /\ worker[b] = "granted"
    /\ ~Ready
    /\ worker' = [worker EXCEPT ![b] = "none"]
    /\ UNCHANGED <<lifeVars, acctVars, fenceVars, prepVars, expired, slotVars, execution, factVars, reader, sent>>

-----------------------------------------------------------------------------
(* Sending and finishing.                                                  *)

MarkSendIntent(b) ==
    /\ Ready
    /\ worker[b] = "granted"
    /\ prepared[b] = "consumed"
    /\ madeIn[b] = generation
    /\ keyActive
    /\ CheckCapacity(b, madeAt[b])
    /\ prepared' = [prepared EXCEPT ![b] = "send_intent"]
    /\ execution' = [execution EXCEPT ![b] = "running"]
    /\ worker' = [worker EXCEPT ![b] = "sending"]
    /\ UNCHANGED <<lifeVars, acctVars, fenceVars, madeIn, madeAt, expired, slotVars, factVars, reader, sent>>

SendUpstream(b) ==
    /\ worker[b] = "sending"
    /\ sent' = [sent EXCEPT ![b] = @ + 1]
    /\ worker' = [worker EXCEPT ![b] = "waiting"]
    /\ UNCHANGED <<lifeVars, acctVars, fenceVars, prepVars, expired, slotVars, execution, factVars, reader>>

\* A failed run gives its hold back.
FaultyFinishBudget(b, result) ==
    /\ FactOwner
    /\ execution[b] \in {"running", "unknown"}
    /\ execution' = [execution EXCEPT ![b] = result]
    /\ stage' = [stage EXCEPT ![b] = IF result = "failed" THEN "released" ELSE "R"]
    /\ UNCHANGED <<lifeVars, acctVars, fenceVars, prepVars, expired, charged, factVars, reader, sent>>

\* The result is kept and the hold waits for its receipt.
FinishBudget(b, result) ==
    /\ FactOwner
    /\ execution[b] \in {"running", "unknown"}
    /\ stage[b] # "released"
    /\ execution' = [execution EXCEPT ![b] = result]
    /\ stage' = [stage EXCEPT ![b] = IF @ = "P" THEN "R" ELSE @]
    /\ UNCHANGED <<lifeVars, acctVars, fenceVars, prepVars, expired, charged, factVars, reader, sent>>

FinishResult(b, result) ==
    /\ worker[b] = "waiting" \/ (worker[b] = "sending" /\ result = "failed")
    /\ FinishBudget(b, result)
    /\ worker' = [worker EXCEPT ![b] = "none"]

\* The worker does not know what became of the call, or unwinds.
MarkUnknown(b) ==
    /\ FactOwner
    /\ worker[b] \in {"sending", "waiting"}
    /\ worker' = [worker EXCEPT ![b] = "none"]
    /\ execution' = [execution EXCEPT ![b] = IF @ = "running" THEN "unknown" ELSE @]
    /\ UNCHANGED <<lifeVars, acctVars, fenceVars, prepVars, expired, slotVars, factVars, reader, sent>>

\* A text step of an earlier generation has lost its worker, not its costs.
SweepInterruptedText(b) ==
    /\ Ready
    /\ b \notin Videos
    /\ madeIn[b] # generation
    /\ FinishBudget(b, "failed")
    /\ UNCHANGED worker

-----------------------------------------------------------------------------
(* Receipts and their outbox.                                              *)

RaiseConflict(b, kept) ==
    /\ receipt' = [receipt EXCEPT ![b] = [state |-> "conflict", fact |-> kept]]
    /\ fence' = IF fence = "open" THEN "conflict" ELSE fence

Event(b, kind, fact) == [budget |-> b, kind |-> kind, fact |-> fact]

\* One event for a budget is thought to be enough.
FaultyPublish(e) ==
    outbox' = IF \E i \in DOMAIN outbox : outbox[i].budget = e.budget THEN outbox ELSE Append(outbox, e)

Publish(e) == outbox' = IF \E i \in DOMAIN outbox : outbox[i] = e THEN outbox ELSE Append(outbox, e)

\* The first fact about a budget stands; a different one later is a conflict, not a charge.
PersistFact(b, fact) ==
    /\ FactOwner
    /\ \/ /\ receipt[b] = NoReceipt
          /\ IF fact.kind = "final"
             THEN /\ stage[b] \in Holding
                  /\ stage' = [stage EXCEPT ![b] = "D"]
                  /\ charged' = [charged EXCEPT ![b] = fact.amount]
             ELSE UNCHANGED slotVars
          /\ receipt' = [receipt EXCEPT ![b] = [state |-> fact.kind, fact |-> fact]]
          /\ Publish(Event(b, fact.kind, fact))
          /\ UNCHANGED fence
       \/ /\ receipt[b] # NoReceipt
          /\ receipt[b].fact # fact
          /\ RaiseConflict(b, receipt[b].fact)
          /\ Publish(Event(b, "conflict", fact))
          /\ UNCHANGED slotVars
    /\ UNCHANGED <<lifeVars, acctVars, rebase, covered, prepVars, expired, execution, threadVars>>

\* A complete reading of the session's usage after its end; later readings may differ.
ConfirmUsage(b, v) ==
    /\ execution[b] \in Terminal
    /\ sent[b] > 0
    /\ PersistFact(b, Final(v))

\* The usage history itself contradicts an earlier reading of the session.
ConfirmSourceConflict(b) ==
    /\ FactOwner
    /\ execution[b] \in Terminal
    /\ sent[b] > 0
    /\ RaiseConflict(b, IF receipt[b] = NoReceipt THEN Source ELSE receipt[b].fact)
    /\ Publish(Event(b, "conflict", Source))
    /\ UNCHANGED <<lifeVars, acctVars, rebase, covered, prepVars, expired, slotVars, execution, threadVars>>

\* Only a cancellation is told.
FaultyConfirmNoSend(b) ==
    /\ prepared[b] = "canceled"
    /\ PersistFact(b, NoCharge)

ConfirmNoSend(b) ==
    /\ prepared[b] \in NoSend
    /\ PersistFact(b, NoCharge)

-----------------------------------------------------------------------------
(* Taking a new snapshot of the account behind a fence.                    *)

BeginRebase ==
    /\ Ready
    /\ reader = "none"
    /\ fence = "open"
    /\ epoch < MaxEpoch
    /\ Quiet
    /\ fence' = "rebase"
    /\ rebase' = [generation |-> generation, mark |-> Len(outbox)]
    /\ reader' = "reading"
    /\ UNCHANGED <<lifeVars, acctVars, covered, prepVars, expired, slotVars, execution, factVars, worker, sent>>

\* The packs read behind the fence explain exactly the charges not yet covered.
CommitRebase(observed) ==
    /\ Ready
    /\ reader = "reading"
    /\ rebase.generation = generation
    /\ fence = "rebase"
    /\ Quiet
    /\ rebase.mark = Len(outbox)
    /\ covered' = [b \in Budgets |-> covered[b] \/ stage[b] = "D"]
    /\ epoch' = epoch + 1
    /\ capacity' = observed
    /\ fence' = "open"
    /\ rebase' = NoRebase
    /\ reader' = "none"
    /\ UNCHANGED <<lifeVars, prepVars, expired, slotVars, execution, factVars, worker, sent>>

\* The fence is lifted whatever the receipts say.
FaultyLiftFence == fence' = "open"

\* Lifting the fence of a rebase leaves the account fenced if money is in doubt.
LiftFence == fence' = IF HasConflict THEN "conflict" ELSE "open"

AbortRebase ==
    /\ Ready
    /\ reader = "reading"
    /\ rebase.generation = generation
    /\ LiftFence
    /\ rebase' = NoRebase
    /\ reader' = "none"
    /\ UNCHANGED <<lifeVars, acctVars, covered, prepVars, expired, slotVars, execution, factVars, worker, sent>>

\* The guard of the reader drops while the gateway closes: its abort is refused.
DropReader ==
    /\ ~Ready
    /\ reader = "reading"
    /\ reader' = "none"
    /\ UNCHANGED <<lifeVars, acctVars, fenceVars, prepVars, expired, slotVars, execution, factVars, worker, sent>>

-----------------------------------------------------------------------------
(* The activity lease.                                                     *)

KeepData == UNCHANGED <<keyActive, acctVars, covered, prepVars, expired, slotVars, factVars, sent>>

BeginClose ==
    /\ Ready
    /\ lease' = "closing"
    /\ UNCHANGED <<generation, fence, rebase, execution, worker, reader>>
    /\ KeepData

\* The last owner of the runtime has gone.
FinishClose ==
    /\ lease = "closing"
    /\ \A b \in Budgets : worker[b] = "none"
    /\ reader = "none"
    /\ lease' = "idle"
    /\ UNCHANGED <<generation, fence, rebase, execution, worker, reader>>
    /\ KeepData

Crash ==
    /\ FactOwner
    /\ lease' = "down"
    /\ worker' = [b \in Budgets |-> "none"]
    /\ reader' = "none"
    /\ UNCHANGED <<generation, fence, rebase, execution>>
    /\ KeepData

\* A clean database gets a new owner; a dirty one is marked and may record facts only.
Start ==
    /\ \/ /\ lease = "idle"
          /\ generation < MaxGeneration
          /\ lease' = "ready"
          /\ generation' = generation + 1
       \/ /\ lease = "down"
          /\ lease' = "recovery"
          /\ UNCHANGED generation
    /\ UNCHANGED <<fence, rebase, execution, worker, reader>>
    /\ KeepData

\* An administrator accepts that what was running is unknown; no hold is given back.
Recover ==
    /\ lease = "recovery"
    /\ generation < MaxGeneration
    /\ lease' = "ready"
    /\ generation' = generation + 1
    /\ execution' = [b \in Budgets |-> IF execution[b] = "running" THEN "unknown" ELSE execution[b]]
    /\ IF rebase # NoRebase THEN LiftFence ELSE UNCHANGED fence
    /\ rebase' = NoRebase
    /\ UNCHANGED <<worker, reader>>
    /\ KeepData

SetKey ==
    /\ keyActive' = ~keyActive
    /\ UNCHANGED <<generation, lease, acctVars, fenceVars, prepVars, expired, slotVars, execution, factVars, threadVars>>

\* The time is looked at only while the budget waits and after it was given up.
Expire(b) ==
    /\ prepared[b] \in NoSend \cup {"prepared"}
    /\ ~expired[b]
    /\ expired' = [expired EXCEPT ![b] = TRUE]
    /\ UNCHANGED <<lifeVars, acctVars, fenceVars, prepVars, slotVars, execution, factVars, threadVars>>

-----------------------------------------------------------------------------
BudgetInit ==
    /\ generation = 1 /\ lease = "ready" /\ keyActive = TRUE
    /\ epoch = 1 /\ capacity \in Snapshots /\ fence = "open" /\ rebase = NoRebase
    /\ prepared = [b \in Budgets |-> "none"]
    /\ madeIn = [b \in Budgets |-> 0]
    /\ madeAt = [b \in Budgets |-> 0]
    /\ expired = [b \in Budgets |-> FALSE]
    /\ stage = [b \in Budgets |-> "none"]
    /\ charged = [b \in Budgets |-> 0]
    /\ covered = [b \in Budgets |-> FALSE]
    /\ execution = [b \in Budgets |-> "none"]
    /\ receipt = [b \in Budgets |-> NoReceipt]
    /\ outbox = <<>>
    /\ worker = [b \in Budgets |-> "none"]
    /\ reader = "none"
    /\ sent = [b \in Budgets |-> 0]

Client(b)  == PrepareBudget(b) \/ CancelBudget(b) \/ ConsumeBudget(b)

Work(b) ==
    \/ FailBeforeSend(b) \/ LeaveUnsent(b) \/ MarkSendIntent(b) \/ SendUpstream(b)
    \/ \E result \in Terminal : FinishResult(b, result)
    \/ MarkUnknown(b)

Confirm(b) ==
    \/ \E v \in Credits : ConfirmUsage(b, v)
    \/ ConfirmSourceConflict(b)
    \/ ConfirmNoSend(b)

Rebase == BeginRebase \/ AbortRebase \/ DropReader \/ \E s \in Snapshots : CommitRebase(s)

Life == BeginClose \/ FinishClose \/ Crash \/ Start \/ Recover \/ SetKey

BudgetNext ==
    \/ \E b \in Budgets : Client(b) \/ Work(b) \/ Confirm(b) \/ SweepInterruptedText(b) \/ Expire(b)
    \/ Rebase
    \/ Life

BudgetSpec == BudgetInit /\ [][BudgetNext]_vars

\* The maintenance task sweeps every five seconds, on a clock that advances; the
\* reader's fetch ends, by its own timeout if not otherwise.
SweepExpired(b) == expired[b] /\ CancelBudget(b)
SweepNoSend(b)  == expired[b] /\ Ready /\ ConfirmNoSend(b)
EndRead         == AbortRebase \/ DropReader \/ \E s \in Snapshots : CommitRebase(s)

Fairness ==
    /\ \A b \in Budgets :
        /\ WF_vars(SweepExpired(b))
        /\ WF_vars(SweepNoSend(b))
        /\ WF_vars(SweepInterruptedText(b))
        /\ WF_vars(Expire(b))
    /\ WF_vars(EndRead)

FairSpec == BudgetSpec /\ Fairness

-----------------------------------------------------------------------------
BudgetTypeOK ==
    /\ generation \in 1..(MaxGeneration + 1)
    /\ lease \in {"ready", "closing", "recovery", "idle", "down"}
    /\ keyActive \in BOOLEAN
    /\ epoch \in Nat
    /\ capacity \in Snapshots
    /\ fence \in {"open", "rebase", "conflict"}
    /\ rebase \in [generation : Nat, mark : Nat]
    /\ prepared \in [Budgets -> {"none", "prepared", "consumed", "send_intent"} \cup NoSend]
    /\ madeIn \in [Budgets -> Nat]
    /\ madeAt \in [Budgets -> Nat]
    /\ expired \in [Budgets -> BOOLEAN]
    /\ stage \in [Budgets -> {"none", "P", "R", "D", "released"}]
    /\ charged \in [Budgets -> Nat]
    /\ covered \in [Budgets -> BOOLEAN]
    /\ execution \in [Budgets -> {"none", "running", "unknown"} \cup Terminal]
    /\ receipt \in [Budgets -> [state : {"none", "final", "failed_no_charge", "conflict"}, fact : Facts]]
    /\ outbox \in Seq([budget : Budgets, kind : {"final", "failed_no_charge", "conflict"}, fact : Facts])
    /\ worker \in [Budgets -> {"none", "granted", "sending", "waiting"}]
    /\ reader \in {"none", "reading"}
    /\ sent \in [Budgets -> Nat]

(* A request reaches the upstream at most once, whatever its revisions: neither  *)
(* a replacement nor a repeated dispatch, a crash or a recovery sends it again.  *)
SentOnce ==
    \A b, c \in Budgets :
        RequestOf[b] = RequestOf[c] /\ sent[b] > 0 /\ sent[c] > 0 => b = c /\ sent[b] = 1

(* A no-send proof is true for ever: a budget with one, or with a receipt that   *)
(* says no charge, was never sent and nobody is about to send it.                *)
NoSendIsTrue ==
    \A b \in Budgets :
        prepared[b] \in NoSend \/ (receipt[b].fact = NoCharge /\ receipt[b] # NoReceipt)
        => sent[b] = 0 /\ worker[b] = "none" /\ stage[b] = "released"

(* What was sent keeps its whole hold until a receipt charges it - no timeout,  *)
(* close, crash or recovery gives it back - and a charge has its receipt.        *)
SentKeepsHold ==
    \A b \in Budgets :
        /\ sent[b] > 0 => stage[b] \in Holding \cup {"D"}
        /\ stage[b] = "D" => receipt[b].fact = Final(charged[b]) /\ receipt[b].state \in {"final", "conflict"}

(* As long as receipts stay within their holds, the snapshot carries everything *)
(* held and everything charged since, and its general part carries all of it as *)
(* soon as one hold can only be paid from there.                                 *)
ExposureCarried ==
    (\A b \in Budgets : stage[b] = "D" => charged[b] <= HoldOf[b]) =>
        LET exposure == HoldSum(Budgets) + ChargeSum(Budgets)
        IN  /\ exposure <= capacity[1] + capacity[2]
            /\ HoldSum(Budgets \ Videos) > 0 => exposure <= capacity[1]

(* Money in doubt keeps the account closed to new budgets and new snapshots,    *)
(* also when the doubt arises during a rebase, an abort or a recovery.          *)
ConflictStaysFenced == HasConflict => fence # "open"

(* The outbox tells a reader of events what the receipts say: the last event of *)
(* a budget is of the kind of its receipt, and no receipt is without one.       *)
OutboxTellsReceipts ==
    \A b \in Budgets :
        LET mine == {i \in DOMAIN outbox : outbox[i].budget = b}
        IN  IF mine = {} THEN receipt[b] = NoReceipt
            ELSE \E i \in mine : (\A j \in mine : j <= i) /\ outbox[i].kind = receipt[b].state

(* A decision, a result and a charge are final, a proof is not taken back and   *)
(* the outbox is only appended to.                                               *)
FactsAreFinal ==
    [][/\ \A b \in Budgets :
           /\ prepared[b] \in NoSend \cup {"send_intent"} => prepared'[b] = prepared[b]
           /\ execution[b] \in Terminal => execution'[b] = execution[b]
           /\ stage[b] = "D" => stage'[b] = "D" /\ charged'[b] = charged[b]
           /\ receipt[b] # NoReceipt => receipt'[b].fact = receipt[b].fact
       /\ Len(outbox') >= Len(outbox) /\ SubSeq(outbox', 1, Len(outbox)) = outbox]_vars

(* A snapshot covers a charge only if its receipt is final at that moment and   *)
(* nothing else is held on the account, so that no credits leave the check       *)
(* unexplained.                                                                  *)
CoveredWhenQuiet ==
    [][\A b \in Budgets : covered'[b] /\ ~covered[b] =>
           /\ receipt[b].state = "final" /\ execution[b] \in Terminal
           /\ \A c \in Budgets : stage[c] \notin Holding /\ receipt[c].state # "conflict"]_vars

(* An expired preparation of the present generation gives its hold back.        *)
ExpiredIsReleased ==
    \A b \in Budgets :
        (Ready /\ prepared[b] = "prepared" /\ madeIn[b] = generation) ~> (~Ready \/ prepared[b] # "prepared")

(* A no-send decision gets its receipt, even if the process died between both.  *)
NoSendIsTold ==
    \A b \in Budgets :
        (Ready /\ prepared[b] \in NoSend /\ receipt[b] = NoReceipt) ~> (~Ready \/ receipt[b] # NoReceipt)

(* The account that is being checked takes no new budgets for a short time only. *)
FencedBriefly == (Ready /\ fence = "rebase") ~> (~Ready \/ fence # "rebase")
=============================================================================
