------------------------ MODULE BridgeBudget_proofs ------------------------
(* Theorems about the money of the bridge, for every instance of its          *)
(* constants. They rest on one invariant: what a budget's preparation, slot,  *)
(* execution, receipt, worker and calls of the upstream say of each other.    *)
EXTENDS BridgeBudget, Sums

-----------------------------------------------------------------------------
(* The frames of the actions.                                                *)

\* A step that leaves everything about c alone but its clock and its coverage.
SameBudget(c) ==
    /\ prepared'[c] = prepared[c]
    /\ stage'[c] = stage[c]
    /\ charged'[c] = charged[c]
    /\ execution'[c] = execution[c]
    /\ receipt'[c] = receipt[c]
    /\ worker'[c] = worker[c]
    /\ sent'[c] = sent[c]

Live(b) == prepared[b] \notin NoSend \cup {"none"}

\* The seven records of one budget.
Agrees(b) ==
    /\ prepared[b] = "none" => stage[b] = "none"
    /\ prepared[b] \in {"prepared", "consumed"} => stage[b] = "P"
    /\ prepared[b] = "send_intent" => stage[b] \in {"P", "R", "D"} /\ execution[b] # "none" /\ worker[b] # "granted"
    /\ prepared[b] # "send_intent" => execution[b] = "none" /\ sent[b] = 0 /\ worker[b] \in {"none", "granted"}
    /\ prepared[b] \in NoSend => stage[b] = "released"
    /\ worker[b] = "granted" => prepared[b] = "consumed"
    /\ worker[b] = "sending" => sent[b] = 0
    /\ sent[b] \in {0, 1}
    /\ receipt[b] # NoReceipt => receipt[b].state # "none" /\ (prepared[b] \in NoSend \/ sent[b] = 1)
    /\ receipt[b] # NoReceipt => (receipt[b].fact = NoCharge <=> prepared[b] \in NoSend)
    /\ stage[b] = "D" => receipt[b].fact = Final(charged[b]) /\ receipt[b].state \in {"final", "conflict"}

\* At most one revision of a request may still be sent.
OneLive == \A b, c \in Budgets : RequestOf[b] = RequestOf[c] /\ Live(b) /\ Live(c) => b = c

BudgetInv ==
    /\ BudgetTypeOK
    /\ \A b \in Budgets : Agrees(b)
    /\ OneLive

-----------------------------------------------------------------------------
(* Types.                                                                    *)

LEMMA FactTypes ==
    /\ NoReceipt \in [state : {"none", "final", "failed_no_charge", "conflict"}, fact : Facts]
    /\ NoCharge \in Facts /\ Source \in Facts
    /\ \A v \in Credits : Final(v) \in Facts
    /\ \A v : Final(v) # NoCharge /\ Final(v) # Source
    /\ Source # NoCharge
BY DEF NoReceipt, NoCharge, Source, Final, Facts

LEMMA ClientType ==
    ASSUME BudgetTypeOK, NEW b \in Budgets, Client(b)
    PROVE  BudgetTypeOK'
<1>1. CASE PrepareBudget(b)
  BY <1>1 DEF PrepareBudget, BudgetTypeOK, lifeVars, acctVars, fenceVars, factVars, threadVars
<1>2. CASE CancelBudget(b)
  BY <1>2 DEF CancelBudget, DecideNoSend, NoSend, BudgetTypeOK, lifeVars, acctVars, fenceVars, factVars, threadVars
<1>3. CASE ConsumeBudget(b)
  BY <1>3 DEF ConsumeBudget, DecideNoSend, NoSend, BudgetTypeOK, lifeVars, acctVars, fenceVars, factVars
<1> QED
  BY <1>1, <1>2, <1>3 DEF Client

LEMMA WorkType ==
    ASSUME BudgetTypeOK, NEW b \in Budgets, Work(b) \/ SweepInterruptedText(b) \/ Expire(b)
    PROVE  BudgetTypeOK'
<1> USE DEF BudgetTypeOK, lifeVars, acctVars, fenceVars, factVars, prepVars, slotVars, threadVars
<1>1. CASE FailBeforeSend(b)
  BY <1>1 DEF FailBeforeSend, DecideNoSend, NoSend
<1>2. CASE LeaveUnsent(b)
  BY <1>2 DEF LeaveUnsent
<1>3. CASE MarkSendIntent(b)
  BY <1>3 DEF MarkSendIntent
<1>4. CASE SendUpstream(b)
  BY <1>4 DEF SendUpstream
<1>5. ASSUME NEW result \in Terminal, FinishBudget(b, result), worker' \in [Budgets -> {"none", "granted", "sending", "waiting"}]
      PROVE  BudgetTypeOK'
  BY <1>5 DEF FinishBudget, Terminal
<1>6. ASSUME NEW result \in Terminal, FinishResult(b, result)
      PROVE  BudgetTypeOK'
  BY <1>5, <1>6 DEF FinishResult
<1>7. CASE MarkUnknown(b)
  BY <1>7 DEF MarkUnknown, Terminal
<1>8. CASE SweepInterruptedText(b)
  BY <1>5, <1>8 DEF SweepInterruptedText, Terminal
<1>9. CASE Expire(b)
  BY <1>9 DEF Expire
<1> QED
  BY <1>1, <1>2, <1>3, <1>4, <1>6, <1>7, <1>8, <1>9 DEF Work

LEMMA PublishType ==
    ASSUME BudgetTypeOK, NEW b \in Budgets, NEW kind \in {"final", "failed_no_charge", "conflict"},
           NEW fact \in Facts, Publish(Event(b, kind, fact))
    PROVE  outbox' \in Seq([budget : Budgets, kind : {"final", "failed_no_charge", "conflict"}, fact : Facts])
<1> DEFINE Events == [budget : Budgets, kind : {"final", "failed_no_charge", "conflict"}, fact : Facts]
<1>1. Event(b, kind, fact) \in Events
  BY DEF Event
<1>2. outbox \in Seq(Events)
  BY DEF BudgetTypeOK
<1> HIDE DEF Events
<1>3. outbox' \in Seq(Events)
  BY <1>1, <1>2 DEF Publish
<1>4. QED
  BY <1>3 DEF Events

LEMMA PersistFactType ==
    ASSUME BudgetTypeOK, NEW b \in Budgets, NEW fact \in Facts, fact # Source, PersistFact(b, fact)
    PROVE  BudgetTypeOK'
<1>1. fact.kind \in {"final", "failed_no_charge"} /\ fact.amount \in Nat
  BY BudgetConstants DEF Facts, Final, NoCharge, Source
<1>2. outbox' \in Seq([budget : Budgets, kind : {"final", "failed_no_charge", "conflict"}, fact : Facts])
  BY <1>1, PublishType DEF PersistFact
<1>3. receipt' \in [Budgets -> [state : {"none", "final", "failed_no_charge", "conflict"}, fact : Facts]]
  <2>1. PICK f \in Facts, st \in {"final", "failed_no_charge", "conflict"} :
            receipt' = [receipt EXCEPT ![b] = [state |-> st, fact |-> f]]
    BY <1>1 DEF PersistFact, RaiseConflict, BudgetTypeOK
  <2> QED
    BY <2>1 DEF BudgetTypeOK
<1>4. stage' \in [Budgets -> {"none", "P", "R", "D", "released"}] /\ charged' \in [Budgets -> Nat]
  BY <1>1 DEF PersistFact, BudgetTypeOK, slotVars
<1>5. fence' \in {"open", "rebase", "conflict"}
  BY DEF PersistFact, RaiseConflict, BudgetTypeOK
<1> QED
  BY <1>2, <1>3, <1>4, <1>5 DEF PersistFact, BudgetTypeOK, lifeVars, acctVars, prepVars, threadVars

LEMMA ConfirmType ==
    ASSUME BudgetTypeOK, NEW b \in Budgets, Confirm(b)
    PROVE  BudgetTypeOK'
<1>1. ASSUME NEW v \in Credits, ConfirmUsage(b, v)
      PROVE  BudgetTypeOK'
  BY <1>1, FactTypes, PersistFactType DEF ConfirmUsage
<1>2. CASE ConfirmNoSend(b)
  BY <1>2, FactTypes, PersistFactType DEF ConfirmNoSend
<1>3. CASE ConfirmSourceConflict(b)
  <2>1. outbox' \in Seq([budget : Budgets, kind : {"final", "failed_no_charge", "conflict"}, fact : Facts])
    BY <1>3, FactTypes, PublishType DEF ConfirmSourceConflict
  <2>2. receipt' \in [Budgets -> [state : {"none", "final", "failed_no_charge", "conflict"}, fact : Facts]]
        /\ fence' \in {"open", "rebase", "conflict"}
    BY <1>3, FactTypes DEF ConfirmSourceConflict, RaiseConflict, BudgetTypeOK
  <2> QED
    BY <1>3, <2>1, <2>2 DEF ConfirmSourceConflict, BudgetTypeOK, lifeVars, acctVars, prepVars, slotVars, threadVars
<1> QED
  BY <1>1, <1>2, <1>3 DEF Confirm

LEMMA RebaseType ==
    ASSUME BudgetTypeOK, Rebase
    PROVE  BudgetTypeOK'
<1> USE DEF BudgetTypeOK, lifeVars, acctVars, fenceVars, factVars, prepVars, slotVars, threadVars
<1>1. CASE BeginRebase
  BY <1>1 DEF BeginRebase
<1>2. CASE AbortRebase
  BY <1>2 DEF AbortRebase, LiftFence, NoRebase
<1>3. CASE DropReader
  BY <1>3 DEF DropReader
<1>4. ASSUME NEW s \in Snapshots, CommitRebase(s)
      PROVE  BudgetTypeOK'
  BY <1>4 DEF CommitRebase, NoRebase
<1> QED
  BY <1>1, <1>2, <1>3, <1>4 DEF Rebase

LEMMA LifeType ==
    ASSUME BudgetTypeOK, Life
    PROVE  BudgetTypeOK'
<1> USE DEF BudgetTypeOK, lifeVars, acctVars, fenceVars, factVars, prepVars, slotVars, threadVars, KeepData
<1>1. CASE BeginClose
  BY <1>1 DEF BeginClose
<1>2. CASE FinishClose
  BY <1>2 DEF FinishClose
<1>3. CASE Crash
  BY <1>3 DEF Crash
<1>4. CASE Start
  BY <1>4, BudgetConstants DEF Start
<1>5. CASE Recover
  BY <1>5, BudgetConstants DEF Recover, LiftFence, NoRebase, Terminal
<1>6. CASE SetKey
  BY <1>6 DEF SetKey
<1> QED
  BY <1>1, <1>2, <1>3, <1>4, <1>5, <1>6 DEF Life

(* Type correctness: every record stays in the range its column allows.       *)
LEMMA BudgetStepType == BudgetTypeOK /\ [BudgetNext]_vars => BudgetTypeOK'
<1> SUFFICES ASSUME BudgetTypeOK, [BudgetNext]_vars PROVE BudgetTypeOK'
  OBVIOUS
<1>1. CASE UNCHANGED vars
  BY <1>1 DEF BudgetTypeOK, vars, lifeVars, acctVars, fenceVars, factVars, prepVars, slotVars, threadVars
<1>2. ASSUME NEW b \in Budgets, Client(b) \/ Work(b) \/ Confirm(b) \/ SweepInterruptedText(b) \/ Expire(b)
      PROVE  BudgetTypeOK'
  BY <1>2, ClientType, WorkType, ConfirmType
<1> QED
  BY <1>1, <1>2, RebaseType, LifeType DEF BudgetNext

LEMMA BudgetInitType == BudgetInit => BudgetTypeOK
<1> SUFFICES ASSUME BudgetInit PROVE BudgetTypeOK
  OBVIOUS
<1>1. receipt \in [Budgets -> [state : {"none", "final", "failed_no_charge", "conflict"}, fact : Facts]]
  BY FactTypes DEF BudgetInit
<1> QED
  BY <1>1, BudgetConstants DEF BudgetInit, BudgetTypeOK, NoRebase

(* Every row of the budget, slot, execution and receipt tables, the fence and    *)
(* the threads stay within what the code can read back.                          *)
THEOREM BudgetTypeCorrect == BudgetSpec => []BudgetTypeOK
<1> QED
  BY BudgetInitType, BudgetStepType, PTL DEF BudgetSpec

-----------------------------------------------------------------------------
(* The records of a budget agree.                                            *)

LEMMA AgreesFrame ==
    ASSUME \A c \in Budgets : Agrees(c), NEW b,
           \A c \in Budgets : c # b => SameBudget(c),
           b \in Budgets => Agrees(b)'
    PROVE  \A c \in Budgets : Agrees(c)'
BY DEF Agrees, SameBudget

LEMMA OneActor ==
    ASSUME BudgetInv, BudgetTypeOK', NEW b \in Budgets,
           \A c \in Budgets : c # b => SameBudget(c),
           Agrees(b)', Live(b)' => Live(b)
    PROVE  BudgetInv'
<1>1. \A c \in Budgets : Agrees(c)'
  BY AgreesFrame DEF BudgetInv
<1>2. \A c \in Budgets : Live(c)' => Live(c)
  BY DEF SameBudget, Live
<1> QED
  BY <1>1, <1>2 DEF BudgetInv, OneLive

LEMMA NoActor ==
    ASSUME BudgetInv, BudgetTypeOK', \A c \in Budgets : SameBudget(c)
    PROVE  BudgetInv'
<1>1. \A c \in Budgets : Agrees(c)'
  BY DEF BudgetInv, Agrees, SameBudget
<1>2. \A c \in Budgets : Live(c)' => Live(c)
  BY DEF SameBudget, Live
<1> QED
  BY <1>1, <1>2 DEF BudgetInv, OneLive

LEMMA ClientAgrees ==
    ASSUME BudgetInv, BudgetTypeOK', NEW b \in Budgets, Client(b)
    PROVE  BudgetInv'
<1> USE DEF BudgetTypeOK, lifeVars, acctVars, fenceVars, factVars, threadVars
<1>0. BudgetTypeOK /\ Agrees(b)
  BY DEF BudgetInv
<1>1. CASE PrepareBudget(b)
  <2>1. \A c \in Budgets : c # b => SameBudget(c)
    BY <1>0, <1>1 DEF PrepareBudget, SameBudget
  <2>2. Agrees(b)'
    BY <1>0, <1>1 DEF PrepareBudget, Agrees, NoSend
  <2>3. \A c \in Budgets : Agrees(c)'
    BY <2>1, <2>2, AgreesFrame DEF BudgetInv
  <2>4. OneLive'
    <3>1. \A c \in Budgets : c # b /\ RequestOf[c] = RequestOf[b] => ~Live(c)'
      BY <1>1, <2>1 DEF PrepareBudget, SameBudget, Live
    <3>2. \A c \in Budgets : c # b => (Live(c)' <=> Live(c))
      BY <2>1 DEF SameBudget, Live
    <3> QED
      BY <3>1, <3>2 DEF BudgetInv, OneLive
  <2> QED
    BY <2>3, <2>4 DEF BudgetInv
<1>2. CASE CancelBudget(b)
  <2>1. \A c \in Budgets : c # b => SameBudget(c)
    BY <1>0, <1>2 DEF CancelBudget, DecideNoSend, SameBudget
  <2>2. Agrees(b)' /\ Live(b)
    BY <1>0, <1>2 DEF CancelBudget, DecideNoSend, Agrees, NoSend, Live
  <2> QED
    BY <2>1, <2>2, OneActor
<1>3. CASE ConsumeBudget(b)
  <2>1. \A c \in Budgets : c # b => SameBudget(c)
    BY <1>0, <1>3 DEF ConsumeBudget, DecideNoSend, SameBudget
  <2>2. Agrees(b)' /\ Live(b)
    BY <1>0, <1>3 DEF ConsumeBudget, DecideNoSend, Agrees, NoSend, Live
  <2> QED
    BY <2>1, <2>2, OneActor
<1> QED
  BY <1>1, <1>2, <1>3 DEF Client

LEMMA FinishAgrees ==
    ASSUME BudgetInv, BudgetTypeOK', NEW b \in Budgets, NEW result \in Terminal, FinishBudget(b, result),
           worker' = worker \/ worker' = [worker EXCEPT ![b] = "none"]
    PROVE  BudgetInv'
<1>0. BudgetTypeOK /\ Agrees(b)
  BY DEF BudgetInv
<1>1. \A c \in Budgets : c # b => SameBudget(c)
  BY <1>0 DEF FinishBudget, SameBudget, BudgetTypeOK, factVars, prepVars
<1>2. Agrees(b)' /\ Live(b)
  BY <1>0 DEF FinishBudget, Agrees, Live, NoSend, Terminal, BudgetTypeOK, factVars, prepVars
<1> QED
  BY <1>1, <1>2, OneActor

LEMMA WorkAgrees ==
    ASSUME BudgetInv, BudgetTypeOK', NEW b \in Budgets, Work(b) \/ SweepInterruptedText(b) \/ Expire(b)
    PROVE  BudgetInv'
<1> USE DEF BudgetTypeOK, lifeVars, acctVars, fenceVars, factVars, prepVars, slotVars, threadVars
<1>0. BudgetTypeOK /\ Agrees(b)
  BY DEF BudgetInv
<1>1. CASE FailBeforeSend(b)
  <2>1. \A c \in Budgets : c # b => SameBudget(c)
    BY <1>0, <1>1 DEF FailBeforeSend, DecideNoSend, SameBudget
  <2>2. Agrees(b)' /\ Live(b)
    BY <1>0, <1>1 DEF FailBeforeSend, DecideNoSend, Agrees, NoSend, Live
  <2> QED
    BY <2>1, <2>2, OneActor
<1>2. CASE LeaveUnsent(b)
  <2>1. \A c \in Budgets : c # b => SameBudget(c)
    BY <1>0, <1>2 DEF LeaveUnsent, SameBudget
  <2>2. Agrees(b)' /\ Live(b)
    BY <1>0, <1>2 DEF LeaveUnsent, Agrees, NoSend, Live
  <2> QED
    BY <2>1, <2>2, OneActor
<1>3. CASE MarkSendIntent(b)
  <2>1. \A c \in Budgets : c # b => SameBudget(c)
    BY <1>0, <1>3 DEF MarkSendIntent, SameBudget
  <2>2. Agrees(b)' /\ Live(b)
    BY <1>0, <1>3 DEF MarkSendIntent, Agrees, NoSend, Live
  <2> QED
    BY <2>1, <2>2, OneActor
<1>4. CASE SendUpstream(b)
  <2>1. \A c \in Budgets : c # b => SameBudget(c)
    BY <1>0, <1>4 DEF SendUpstream, SameBudget
  <2>2. prepared[b] = "send_intent"
    BY <1>0, <1>4 DEF SendUpstream, Agrees
  <2>3. Agrees(b)' /\ Live(b)
    BY <1>0, <1>4, <2>2 DEF SendUpstream, Agrees, NoSend, Live
  <2> QED
    BY <2>1, <2>3, OneActor
<1>5. ASSUME NEW result \in Terminal, FinishResult(b, result)
      PROVE  BudgetInv'
  BY <1>5, FinishAgrees DEF FinishResult
<1>6. CASE MarkUnknown(b)
  <2>1. \A c \in Budgets : c # b => SameBudget(c)
    BY <1>0, <1>6 DEF MarkUnknown, SameBudget
  <2>2. prepared[b] = "send_intent"
    BY <1>0, <1>6 DEF MarkUnknown, Agrees
  <2>3. Agrees(b)' /\ Live(b)
    BY <1>0, <1>6, <2>2 DEF MarkUnknown, Agrees, NoSend, Live
  <2> QED
    BY <2>1, <2>3, OneActor
<1>7. CASE SweepInterruptedText(b)
  BY <1>7, FinishAgrees DEF SweepInterruptedText, Terminal
<1>8. CASE Expire(b)
  BY <1>8, NoActor DEF Expire, SameBudget
<1> QED
  BY <1>1, <1>2, <1>3, <1>4, <1>5, <1>6, <1>7, <1>8 DEF Work

LEMMA FactAgrees ==
    ASSUME BudgetInv, BudgetTypeOK', NEW b \in Budgets, NEW fact \in Facts, fact # Source,
           IF fact = NoCharge THEN prepared[b] \in NoSend ELSE sent[b] > 0,
           PersistFact(b, fact)
    PROVE  BudgetInv'
<1>0. BudgetTypeOK /\ Agrees(b)
  BY DEF BudgetInv
<1>1. \A c \in Budgets : c # b => SameBudget(c)
  <2>1. \A c \in Budgets : c # b => receipt'[c] = receipt[c] /\ stage'[c] = stage[c] /\ charged'[c] = charged[c]
    <3>1. CASE receipt[b] = NoReceipt
      <4>1. receipt' = [receipt EXCEPT ![b] = [state |-> fact.kind, fact |-> fact]]
            /\ \/ stage' = [stage EXCEPT ![b] = "D"] /\ charged' = [charged EXCEPT ![b] = fact.amount]
               \/ UNCHANGED slotVars
        BY <3>1 DEF PersistFact
      <4> QED
        BY <1>0, <4>1 DEF BudgetTypeOK, slotVars
    <3>2. CASE receipt[b] # NoReceipt
      BY <1>0, <3>2 DEF PersistFact, RaiseConflict, BudgetTypeOK, slotVars
    <3> QED
      BY <3>1, <3>2
  <2> QED
    BY <2>1 DEF PersistFact, SameBudget, prepVars, threadVars
<1>2. fact = NoCharge \/ (fact.kind = "final" /\ fact = Final(fact.amount))
  BY DEF Facts, Final, NoCharge, Source
<1>3. UNCHANGED <<prepared, execution, worker, sent>>
  BY DEF PersistFact, prepVars, threadVars
<1>4. sent[b] = 1 <=> fact # NoCharge
  BY <1>0, <1>2 DEF Agrees, NoSend
<1>5. CASE receipt[b] = NoReceipt
  <2>1. receipt'[b] = [state |-> fact.kind, fact |-> fact]
    BY <1>0, <1>5 DEF PersistFact, BudgetTypeOK
  <2>2. CASE fact = NoCharge
    <3>1. stage'[b] = stage[b] /\ charged'[b] = charged[b]
      BY <1>5, <2>2 DEF PersistFact, NoCharge, slotVars
    <3>2. prepared[b] \in NoSend
      BY <2>2
    <3>3. receipt'[b].fact = NoCharge /\ receipt'[b].state = "failed_no_charge"
      BY <2>1, <2>2 DEF NoCharge
    <3>4. Agrees(b)'
      BY <1>0, <1>3, <3>1, <3>2, <3>3 DEF Agrees, NoSend
    <3> QED
      BY <1>1, <1>3, <3>4, OneActor DEF Live
  <2>3. CASE fact # NoCharge
    <3>1. stage'[b] = "D" /\ charged'[b] = fact.amount
      BY <1>0, <1>2, <1>5, <2>3 DEF PersistFact, BudgetTypeOK
    <3>2. prepared[b] = "send_intent"
      BY <1>0, <1>4, <2>3 DEF Agrees
    <3>3. receipt'[b] # NoReceipt /\ receipt'[b].fact = Final(charged'[b]) /\ receipt'[b].state = "final"
      BY <1>2, <2>1, <2>3, <3>1 DEF NoReceipt
    <3>4. Agrees(b)'
      BY <1>0, <1>3, <1>4, <2>3, <3>1, <3>2, <3>3, FactTypes DEF Agrees, NoSend
    <3> QED
      BY <1>1, <1>3, <3>4, OneActor DEF Live
  <2> QED
    BY <2>2, <2>3
<1>6. CASE receipt[b] # NoReceipt
  <2>1. receipt'[b] = [state |-> "conflict", fact |-> receipt[b].fact] /\ stage'[b] = stage[b] /\ charged'[b] = charged[b]
    BY <1>0, <1>6 DEF PersistFact, RaiseConflict, BudgetTypeOK, slotVars
  <2>2. receipt'[b] # NoReceipt /\ receipt'[b].fact = receipt[b].fact /\ receipt'[b].state = "conflict"
    BY <2>1 DEF NoReceipt
  <2>3. Agrees(b)'
    BY <1>0, <1>3, <1>6, <2>1, <2>2 DEF Agrees
  <2> QED
    BY <1>1, <1>3, <2>3, OneActor DEF Live
<1> QED
  BY <1>5, <1>6

LEMMA ConfirmAgrees ==
    ASSUME BudgetInv, BudgetTypeOK', NEW b \in Budgets, Confirm(b)
    PROVE  BudgetInv'
<1>0. BudgetTypeOK /\ Agrees(b)
  BY DEF BudgetInv
<1>1. ASSUME NEW v \in Credits, ConfirmUsage(b, v)
      PROVE  BudgetInv'
  BY <1>1, FactTypes, FactAgrees DEF ConfirmUsage
<1>2. CASE ConfirmNoSend(b)
  BY <1>2, FactTypes, FactAgrees DEF ConfirmNoSend
<1>3. CASE ConfirmSourceConflict(b)
  <2>1. \A c \in Budgets : c # b => SameBudget(c)
    BY <1>0, <1>3 DEF ConfirmSourceConflict, RaiseConflict, SameBudget, BudgetTypeOK, prepVars, slotVars, threadVars
  <2>2. sent[b] = 1 /\ prepared[b] = "send_intent"
    BY <1>0, <1>3 DEF ConfirmSourceConflict, Agrees
  <2>3. receipt'[b] = [state |-> "conflict", fact |-> IF receipt[b] = NoReceipt THEN Source ELSE receipt[b].fact]
    BY <1>0, <1>3 DEF ConfirmSourceConflict, RaiseConflict, BudgetTypeOK
  <2>4. receipt'[b] # NoReceipt /\ receipt'[b].state = "conflict"
        /\ (receipt[b] # NoReceipt => receipt'[b].fact = receipt[b].fact)
        /\ (receipt[b] = NoReceipt => receipt'[b].fact = Source)
    BY <2>3 DEF NoReceipt
  <2>5. UNCHANGED <<prepared, execution, worker, sent, stage, charged>>
    BY <1>3 DEF ConfirmSourceConflict, prepVars, slotVars, threadVars
  <2>6. receipt[b] = NoReceipt => stage[b] # "D"
    BY <1>0, FactTypes DEF Agrees, NoReceipt
  <2>7. Agrees(b)'
    BY <1>0, <2>2, <2>4, <2>5, <2>6, FactTypes DEF Agrees, NoSend
  <2> QED
    BY <2>1, <2>5, <2>7, OneActor DEF Live
<1> QED
  BY <1>1, <1>2, <1>3 DEF Confirm

LEMMA AccountAgrees ==
    ASSUME BudgetInv, BudgetTypeOK', Rebase
    PROVE  BudgetInv'
<1> USE DEF lifeVars, acctVars, fenceVars, factVars, prepVars, slotVars, threadVars, SameBudget
<1>1. CASE BeginRebase
  BY <1>1, NoActor DEF BeginRebase
<1>2. CASE AbortRebase
  BY <1>2, NoActor DEF AbortRebase
<1>3. CASE DropReader
  BY <1>3, NoActor DEF DropReader
<1>4. ASSUME NEW s \in Snapshots, CommitRebase(s)
      PROVE  BudgetInv'
  BY <1>4, NoActor DEF CommitRebase
<1> QED
  BY <1>1, <1>2, <1>3, <1>4 DEF Rebase

LEMMA LifeAgrees ==
    ASSUME BudgetInv, BudgetTypeOK', Life
    PROVE  BudgetInv'
<1> USE DEF lifeVars, acctVars, fenceVars, factVars, prepVars, slotVars, threadVars, KeepData
<1>1. CASE BeginClose
  BY <1>1, NoActor DEF BeginClose, SameBudget
<1>2. CASE FinishClose
  BY <1>2, NoActor DEF FinishClose, SameBudget
<1>3. CASE Crash
  <2>1. \A c \in Budgets : Agrees(c)'
    BY <1>3 DEF Crash, BudgetInv, Agrees
  <2>2. OneLive'
    BY <1>3 DEF Crash, BudgetInv, OneLive, Live
  <2> QED
    BY <2>1, <2>2 DEF BudgetInv
<1>4. CASE Start
  BY <1>4, NoActor DEF Start, SameBudget
<1>5. CASE Recover
  <2>1. \A c \in Budgets : execution'[c] = IF execution[c] = "running" THEN "unknown" ELSE execution[c]
    BY <1>5 DEF Recover
  <2>2. UNCHANGED <<prepared, stage, charged, receipt, worker, sent>>
    BY <1>5 DEF Recover
  <2>3. \A c \in Budgets : Agrees(c)'
    BY <2>1, <2>2 DEF BudgetInv, Agrees
  <2>4. OneLive'
    BY <2>2 DEF BudgetInv, OneLive, Live
  <2> QED
    BY <2>3, <2>4 DEF BudgetInv
<1>6. CASE SetKey
  BY <1>6, NoActor DEF SetKey, SameBudget
<1> QED
  BY <1>1, <1>2, <1>3, <1>4, <1>5, <1>6 DEF Life

LEMMA BudgetStepAgrees == BudgetInv /\ [BudgetNext]_vars => BudgetInv'
<1> SUFFICES ASSUME BudgetInv, [BudgetNext]_vars PROVE BudgetInv'
  OBVIOUS
<1>0. BudgetTypeOK'
  BY BudgetStepType DEF BudgetInv
<1>1. CASE UNCHANGED vars
  BY <1>0, <1>1, NoActor DEF SameBudget, vars, prepVars, slotVars, factVars, threadVars
<1>2. ASSUME NEW b \in Budgets, Client(b) \/ Work(b) \/ Confirm(b) \/ SweepInterruptedText(b) \/ Expire(b)
      PROVE  BudgetInv'
  BY <1>0, <1>2, ClientAgrees, WorkAgrees, ConfirmAgrees
<1> QED
  BY <1>0, <1>1, <1>2, AccountAgrees, LifeAgrees DEF BudgetNext

LEMMA BudgetInitAgrees == BudgetInit => BudgetInv
<1> SUFFICES ASSUME BudgetInit PROVE BudgetInv
  OBVIOUS
<1>1. \A b \in Budgets : Agrees(b) /\ ~Live(b)
  BY DEF BudgetInit, Agrees, NoSend, Live
<1> QED
  BY <1>1, BudgetInitType DEF BudgetInv, OneLive

THEOREM BudgetAlwaysAgrees == BudgetSpec => []BudgetInv
<1> QED
  BY BudgetInitAgrees, BudgetStepAgrees, PTL DEF BudgetSpec

(* A request is sent to the upstream at most once, whatever its revisions, the    *)
(* crashes and the recoveries: of its budgets at most one can still be sent, and  *)
(* that one is marked before its only call.                                       *)
THEOREM RequestSentOnce == BudgetSpec => []SentOnce
<1>1. BudgetInv => SentOnce
  <2> SUFFICES ASSUME BudgetInv, NEW b \in Budgets, NEW c \in Budgets,
                      RequestOf[b] = RequestOf[c], sent[b] > 0, sent[c] > 0
               PROVE  b = c /\ sent[b] = 1
    BY DEF SentOnce
  <2>1. Agrees(b) /\ Agrees(c) /\ OneLive
    BY DEF BudgetInv
  <2>2. prepared[b] = "send_intent" /\ prepared[c] = "send_intent" /\ sent[b] = 1
    BY <2>1 DEF Agrees
  <2> QED
    BY <2>1, <2>2 DEF OneLive, Live, NoSend
<1> QED
  BY <1>1, BudgetAlwaysAgrees, PTL

(* Whoever holds a proof that a budget was not sent, or a receipt without charge, *)
(* may rely on it for ever.                                                       *)
THEOREM NoSendStaysTrue == BudgetSpec => []NoSendIsTrue
<1>1. BudgetInv => NoSendIsTrue
  BY DEF BudgetInv, BudgetTypeOK, Agrees, NoSend, NoSendIsTrue
<1> QED
  BY <1>1, BudgetAlwaysAgrees, PTL

(* No end of a run, timeout, close, crash or recovery gives back the hold of what *)
(* was sent; only a receipt turns it into a charge, and into the charge it names. *)
THEOREM HoldKeptUntilReceipt == BudgetSpec => []SentKeepsHold
<1>1. BudgetInv => SentKeepsHold
  BY DEF BudgetInv, BudgetTypeOK, Agrees, NoSend, Holding, SentKeepsHold
<1> QED
  BY <1>1, BudgetAlwaysAgrees, PTL

-----------------------------------------------------------------------------
(* Money in doubt.                                                           *)

LEMMA FenceStep == BudgetTypeOK /\ ConflictStaysFenced /\ [BudgetNext]_vars => ConflictStaysFenced'
<1> SUFFICES ASSUME BudgetTypeOK, ConflictStaysFenced, [BudgetNext]_vars PROVE ConflictStaysFenced'
  OBVIOUS
<1>1. ASSUME UNCHANGED <<receipt, fence>>
      PROVE  ConflictStaysFenced'
  BY <1>1 DEF ConflictStaysFenced, HasConflict
<1>2. CASE UNCHANGED vars
  BY <1>1, <1>2 DEF vars, fenceVars, factVars
<1>3. ASSUME NEW b \in Budgets, Client(b) \/ Work(b) \/ SweepInterruptedText(b) \/ Expire(b)
      PROVE  UNCHANGED <<receipt, fence>>
  BY <1>3 DEF Client, PrepareBudget, CancelBudget, ConsumeBudget, Work, FailBeforeSend, LeaveUnsent, MarkSendIntent,
     SendUpstream, FinishResult, FinishBudget, MarkUnknown, SweepInterruptedText, Expire, fenceVars, factVars
<1>4. ASSUME NEW b \in Budgets, NEW kept, RaiseConflict(b, kept)
      PROVE  ConflictStaysFenced'
  BY <1>4 DEF RaiseConflict, ConflictStaysFenced
<1>5. ASSUME NEW b \in Budgets, NEW fact, fact.kind # "conflict", PersistFact(b, fact)
      PROVE  ConflictStaysFenced'
  <2>1. CASE receipt[b] = NoReceipt
    <3>1. receipt' = [receipt EXCEPT ![b] = [state |-> fact.kind, fact |-> fact]] /\ fence' = fence
      BY <1>5, <2>1 DEF PersistFact
    <3> QED
      BY <1>5, <3>1 DEF ConflictStaysFenced, HasConflict, BudgetTypeOK
  <2>2. CASE receipt[b] # NoReceipt
    BY <1>4, <1>5, <2>2 DEF PersistFact
  <2> QED
    BY <2>1, <2>2
<1>6. ASSUME NEW b \in Budgets, Confirm(b)
      PROVE  ConflictStaysFenced'
  <2>1. ASSUME NEW v \in Credits, ConfirmUsage(b, v)
        PROVE  ConflictStaysFenced'
    BY <1>5, <2>1 DEF ConfirmUsage, Final
  <2>2. CASE ConfirmNoSend(b)
    BY <1>5, <2>2 DEF ConfirmNoSend, NoCharge
  <2>3. CASE ConfirmSourceConflict(b)
    BY <1>4, <2>3 DEF ConfirmSourceConflict
  <2> QED
    BY <1>6, <2>1, <2>2, <2>3 DEF Confirm
<1>7. CASE Rebase
  BY <1>7 DEF Rebase, BeginRebase, AbortRebase, DropReader, CommitRebase, LiftFence, Quiet,
     ConflictStaysFenced, HasConflict, fenceVars, factVars
<1>8. CASE Life
  BY <1>8 DEF Life, BeginClose, FinishClose, Crash, Start, Recover, SetKey, LiftFence, KeepData,
     ConflictStaysFenced, HasConflict, fenceVars, factVars
<1> QED
  BY <1>1, <1>2, <1>3, <1>6, <1>7, <1>8 DEF BudgetNext

(* An account with money in doubt takes neither a budget nor a snapshot, also    *)
(* when the doubt came up during a rebase that was aborted or recovered.         *)
THEOREM DoubtStaysFenced == BudgetSpec => []ConflictStaysFenced
<1>1. BudgetInit => ConflictStaysFenced
  BY DEF BudgetInit, ConflictStaysFenced, HasConflict, NoReceipt
<1> QED
  BY <1>1, FenceStep, BudgetTypeCorrect, PTL DEF BudgetSpec

-----------------------------------------------------------------------------
(* The outbox.                                                               *)

\* A conflict that was published has not been taken back.
ConflictsStand ==
    \A i \in DOMAIN outbox : outbox[i].kind = "conflict" => receipt[outbox[i].budget].state = "conflict"

\* A receipt and its event are written together, so that the last event of b tells its state.
LEMMA PublishTells ==
    ASSUME BudgetTypeOK, OutboxTellsReceipts, ConflictsStand, BudgetTypeOK',
           NEW b \in Budgets, NEW kind \in {"final", "failed_no_charge", "conflict"}, NEW fact,
           receipt'[b].state = kind, \A c \in Budgets : c # b => receipt'[c] = receipt[c],
           receipt[b] = NoReceipt \/ kind = "conflict",
           Publish(Event(b, kind, fact))
    PROVE  OutboxTellsReceipts' /\ ConflictsStand'
<1> DEFINE e == Event(b, kind, fact)
<1>1. e.budget = b /\ e.kind = kind
  BY DEF Event
<1> DEFINE Events == [budget : Budgets, kind : {"final", "failed_no_charge", "conflict"}, fact : Facts]
<1>2. outbox \in Seq(Events)
  BY DEF BudgetTypeOK
<1> HIDE DEF Events
<1>3. \A i \in DOMAIN outbox : i \in Nat /\ outbox[i].budget \in Budgets
  <2>1. \A i \in DOMAIN outbox : i \in Nat /\ outbox[i] \in Events
    BY <1>2
  <2> QED
    BY <2>1 DEF Events
<1>4. receipt'[b].state = kind /\ \A c \in Budgets : c # b => receipt'[c] = receipt[c]
  OBVIOUS
<1>5. receipt'[b] # NoReceipt
  BY <1>4 DEF NoReceipt
<1>6. CASE \E i \in DOMAIN outbox : outbox[i] = e
  <2>1. PICK i \in DOMAIN outbox : outbox[i] = e
    BY <1>6
  <2>2. outbox' = outbox
    BY <1>6 DEF Publish
  <2>3. receipt[b] # NoReceipt
    <3> DEFINE mine == {j \in DOMAIN outbox : outbox[j].budget = b}
    <3>1. mine # {} /\ \A j \in mine : outbox[j].kind # "none"
      <4>1. \A j \in DOMAIN outbox : outbox[j] \in Events
        BY <1>2
      <4>2. i \in mine
        BY <1>1, <2>1
      <4>3. \A j \in DOMAIN outbox : outbox[j].kind # "none"
        BY <4>1 DEF Events
      <4> QED
        BY <4>2, <4>3
    <3>2. mine # {} => \E j \in mine : outbox[j].kind = receipt[b].state
      BY DEF OutboxTellsReceipts
    <3> QED
      BY <3>1, <3>2 DEF NoReceipt
  <2>4. kind = "conflict" /\ receipt[b].state = "conflict"
    BY <1>1, <2>1, <2>3 DEF ConflictsStand
  <2>5. \A c \in Budgets : receipt'[c].state = receipt[c].state /\ (receipt'[c] = NoReceipt <=> receipt[c] = NoReceipt)
    BY <1>4, <1>5, <2>3, <2>4
  <2>6. ConflictsStand'
    BY <1>3, <2>2, <2>5 DEF ConflictsStand
  <2>7. OutboxTellsReceipts'
    BY <2>2, <2>5 DEF OutboxTellsReceipts
  <2> QED
    BY <2>6, <2>7
<1>7. CASE \A i \in DOMAIN outbox : outbox[i] # e
  <2>1. outbox' = Append(outbox, e)
    BY <1>7 DEF Publish
  <2> DEFINE n == Len(outbox) + 1
  <2>2. n \in Nat /\ n \in DOMAIN outbox' /\ outbox'[n] = e
        /\ DOMAIN outbox' = DOMAIN outbox \cup {n}
        /\ (\A i \in DOMAIN outbox : i < n /\ outbox'[i] = outbox[i])
    BY <1>2, <2>1
  <2> HIDE DEF n, e
  <2>3. ConflictsStand'
    <3> SUFFICES ASSUME NEW i \in DOMAIN outbox', outbox'[i].kind = "conflict"
                 PROVE  receipt'[outbox'[i].budget].state = "conflict"
      BY DEF ConflictsStand
    <3>1. CASE i = n
      BY <1>1, <1>4, <2>2, <3>1
    <3>2. CASE i \in DOMAIN outbox
      <4>1. outbox[i].kind = "conflict" /\ outbox[i].budget \in Budgets /\ receipt[outbox[i].budget].state = "conflict"
        BY <1>3, <2>2, <3>2 DEF ConflictsStand
      <4>2. outbox[i].budget = b => kind = "conflict"
        BY <4>1 DEF NoReceipt
      <4> QED
        BY <1>4, <2>2, <3>2, <4>1, <4>2
    <3> QED
      BY <2>2, <3>1, <3>2
  <2>4. ASSUME NEW c \in Budgets
        PROVE  LET mine == {i \in DOMAIN outbox' : outbox'[i].budget = c}
               IN  IF mine = {} THEN receipt'[c] = NoReceipt
                   ELSE \E i \in mine : (\A j \in mine : j <= i) /\ outbox'[i].kind = receipt'[c].state
    <3> DEFINE old == {i \in DOMAIN outbox : outbox[i].budget = c}
               new == {i \in DOMAIN outbox' : outbox'[i].budget = c}
    <3>1. CASE c = b
      <4>1. n \in new /\ \A j \in new : j <= n
        BY <1>1, <1>3, <2>2, <3>1
      <4>2. outbox'[n].kind = receipt'[c].state
        BY <1>1, <1>4, <2>2, <3>1
      <4> QED
        BY <4>1, <4>2
    <3>2. CASE c # b
      <4>1. new = old
        BY <1>1, <2>2, <3>2
      <4>2. \A i \in old : outbox'[i] = outbox[i]
        BY <2>2
      <4>3. IF old = {} THEN receipt[c] = NoReceipt
            ELSE \E i \in old : (\A j \in old : j <= i) /\ outbox[i].kind = receipt[c].state
        BY DEF OutboxTellsReceipts
      <4> QED
        BY <1>4, <3>2, <4>1, <4>2, <4>3
    <3> QED
      BY <3>1, <3>2
  <2> QED
    BY <2>3, <2>4 DEF OutboxTellsReceipts
<1> QED
  BY <1>6, <1>7

LEMMA OutboxStep ==
    BudgetTypeOK /\ OutboxTellsReceipts /\ ConflictsStand /\ [BudgetNext]_vars => OutboxTellsReceipts' /\ ConflictsStand'
<1> SUFFICES ASSUME BudgetTypeOK, OutboxTellsReceipts, ConflictsStand, [BudgetNext]_vars
             PROVE  OutboxTellsReceipts' /\ ConflictsStand'
  OBVIOUS
<1>0. BudgetTypeOK'
  BY BudgetStepType
<1>1. ASSUME UNCHANGED <<receipt, outbox>>
      PROVE  OutboxTellsReceipts' /\ ConflictsStand'
  BY <1>1 DEF OutboxTellsReceipts, ConflictsStand
<1>2. CASE UNCHANGED vars
  BY <1>1, <1>2 DEF vars, factVars
<1>3. ASSUME NEW b \in Budgets, Client(b) \/ Work(b) \/ SweepInterruptedText(b) \/ Expire(b)
      PROVE  UNCHANGED <<receipt, outbox>>
  BY <1>3 DEF Client, PrepareBudget, CancelBudget, ConsumeBudget, Work, FailBeforeSend, LeaveUnsent, MarkSendIntent,
     SendUpstream, FinishResult, FinishBudget, MarkUnknown, SweepInterruptedText, Expire, factVars
<1>4. ASSUME NEW b \in Budgets, NEW fact, fact.kind \in {"final", "failed_no_charge"}, PersistFact(b, fact)
      PROVE  OutboxTellsReceipts' /\ ConflictsStand'
  <2>1. CASE receipt[b] = NoReceipt
    <3>1. receipt' = [receipt EXCEPT ![b] = [state |-> fact.kind, fact |-> fact]] /\ Publish(Event(b, fact.kind, fact))
      BY <1>4, <2>1 DEF PersistFact
    <3>2. receipt'[b].state = fact.kind /\ \A c \in Budgets : c # b => receipt'[c] = receipt[c]
      BY <3>1 DEF BudgetTypeOK
    <3> QED
      BY <1>0, <1>4, <2>1, <3>1, <3>2, PublishTells
  <2>2. CASE receipt[b] # NoReceipt
    <3>1. receipt' = [receipt EXCEPT ![b] = [state |-> "conflict", fact |-> receipt[b].fact]]
          /\ Publish(Event(b, "conflict", fact))
      BY <1>4, <2>2 DEF PersistFact, RaiseConflict
    <3>2. receipt'[b].state = "conflict" /\ \A c \in Budgets : c # b => receipt'[c] = receipt[c]
      BY <3>1 DEF BudgetTypeOK
    <3> QED
      BY <1>0, <3>1, <3>2, PublishTells
  <2> QED
    BY <2>1, <2>2
<1>5. ASSUME NEW b \in Budgets, Confirm(b)
      PROVE  OutboxTellsReceipts' /\ ConflictsStand'
  <2>1. ASSUME NEW v \in Credits, ConfirmUsage(b, v)
        PROVE  OutboxTellsReceipts' /\ ConflictsStand'
    BY <1>4, <2>1 DEF ConfirmUsage, Final
  <2>2. CASE ConfirmNoSend(b)
    BY <1>4, <2>2 DEF ConfirmNoSend, NoCharge
  <2>3. CASE ConfirmSourceConflict(b)
    <3>1. PICK f : receipt' = [receipt EXCEPT ![b] = [state |-> "conflict", fact |-> f]]
      BY <2>3 DEF ConfirmSourceConflict, RaiseConflict
    <3>2. receipt'[b].state = "conflict" /\ \A c \in Budgets : c # b => receipt'[c] = receipt[c]
      BY <3>1 DEF BudgetTypeOK
    <3>3. Publish(Event(b, "conflict", Source))
      BY <2>3 DEF ConfirmSourceConflict
    <3> QED
      BY <1>0, <3>2, <3>3, PublishTells
  <2> QED
    BY <1>5, <2>1, <2>2, <2>3 DEF Confirm
<1>6. CASE Rebase
  BY <1>1, <1>6 DEF Rebase, BeginRebase, AbortRebase, DropReader, CommitRebase, factVars
<1>7. CASE Life
  BY <1>1, <1>7 DEF Life, BeginClose, FinishClose, Crash, Start, Recover, SetKey, KeepData, factVars
<1> QED
  BY <1>1, <1>2, <1>3, <1>5, <1>6, <1>7 DEF BudgetNext

(* The core reads events, not receipts: what the last event of a budget says is  *)
(* what its receipt says, although an event is written once only.                *)
THEOREM EventsTellReceipts == BudgetSpec => []OutboxTellsReceipts
<1>1. BudgetInit => OutboxTellsReceipts /\ ConflictsStand
  BY DEF BudgetInit, OutboxTellsReceipts, ConflictsStand
<1> QED
  BY <1>1, OutboxStep, BudgetTypeCorrect, PTL DEF BudgetSpec

-----------------------------------------------------------------------------
(* Steps.                                                                    *)

\* What one step may do to the facts about b.
FactsStep(b) ==
    /\ prepared[b] \in NoSend \cup {"send_intent"} => prepared'[b] = prepared[b]
    /\ execution[b] \in Terminal => execution'[b] = execution[b]
    /\ stage[b] = "D" => stage'[b] = "D" /\ charged'[b] = charged[b]
    /\ receipt[b] # NoReceipt => receipt'[b].fact = receipt[b].fact

LEMMA OutboxAppended ==
    ASSUME BudgetTypeOK, NEW e, Publish(e) \/ UNCHANGED outbox, BudgetTypeOK'
    PROVE  Len(outbox') >= Len(outbox) /\ SubSeq(outbox', 1, Len(outbox)) = outbox
<1> DEFINE Events == [budget : Budgets, kind : {"final", "failed_no_charge", "conflict"}, fact : Facts]
<1>1. outbox \in Seq(Events) /\ outbox' \in Seq(Events)
  BY DEF BudgetTypeOK
<1> HIDE DEF Events
<1>2. CASE outbox' = outbox
  BY <1>1, <1>2
<1>3. CASE outbox' = Append(outbox, e)
  BY <1>1, <1>3
<1> QED
  BY <1>2, <1>3 DEF Publish

LEMMA StepKeepsFacts ==
    ASSUME BudgetInv, BudgetNext, BudgetTypeOK'
    PROVE  /\ \A b \in Budgets : FactsStep(b)
           /\ Len(outbox') >= Len(outbox) /\ SubSeq(outbox', 1, Len(outbox)) = outbox
<1> USE DEF FactsStep
<1>0. BudgetTypeOK /\ \A b \in Budgets : Agrees(b)
  BY DEF BudgetInv
<1>1. ASSUME UNCHANGED <<prepared, stage, charged, receipt, outbox>>,
             \A b \in Budgets : execution[b] \in Terminal => execution'[b] = execution[b]
      PROVE  \A b \in Budgets : FactsStep(b)
  BY <1>1
<1>2. ASSUME NEW b \in Budgets, Client(b)
      PROVE  (\A c \in Budgets : FactsStep(c)) /\ UNCHANGED outbox
  <2>1. UNCHANGED <<execution, charged, receipt, outbox>>
    BY <1>2 DEF Client, PrepareBudget, CancelBudget, ConsumeBudget, factVars
  <2>2. \A c \in Budgets : c # b => prepared'[c] = prepared[c] /\ stage'[c] = stage[c]
    <3>1. PICK p, s : prepared' = [prepared EXCEPT ![b] = p] /\ (stage' = [stage EXCEPT ![b] = s] \/ stage' = stage)
      BY <1>2 DEF Client, PrepareBudget, CancelBudget, ConsumeBudget, DecideNoSend
    <3> QED
      BY <1>0, <3>1 DEF BudgetTypeOK
  <2>3. prepared[b] \in {"none", "prepared"} /\ stage[b] # "D"
    BY <1>0, <1>2 DEF Client, PrepareBudget, CancelBudget, ConsumeBudget, Agrees
  <2> QED
    BY <2>1, <2>2, <2>3 DEF NoSend
<1>3. ASSUME NEW b \in Budgets, Work(b) \/ SweepInterruptedText(b) \/ Expire(b)
      PROVE  (\A c \in Budgets : FactsStep(c)) /\ UNCHANGED outbox
  <2>1. CASE FailBeforeSend(b) \/ MarkSendIntent(b)
    <3>1. UNCHANGED <<charged, receipt, outbox>>
      BY <2>1 DEF FailBeforeSend, MarkSendIntent, slotVars, factVars
    <3>2. \A c \in Budgets : c # b => prepared'[c] = prepared[c] /\ stage'[c] = stage[c] /\ execution'[c] = execution[c]
      BY <1>0, <2>1 DEF FailBeforeSend, MarkSendIntent, DecideNoSend, BudgetTypeOK, slotVars
    <3>3. prepared[b] = "consumed" /\ stage[b] = "P" /\ execution[b] = "none"
      BY <1>0, <2>1 DEF FailBeforeSend, MarkSendIntent, Agrees
    <3> QED
      BY <3>1, <3>2, <3>3 DEF NoSend, Terminal
  <2>2. CASE LeaveUnsent(b) \/ SendUpstream(b) \/ Expire(b) \/ MarkUnknown(b)
    <3>1. UNCHANGED <<prepared, stage, charged, receipt, outbox>>
      BY <2>2 DEF LeaveUnsent, SendUpstream, Expire, MarkUnknown, prepVars, slotVars, factVars
    <3>2. \A c \in Budgets : execution[c] \in Terminal => execution'[c] = execution[c]
      BY <1>0, <2>2 DEF LeaveUnsent, SendUpstream, Expire, MarkUnknown, Terminal, BudgetTypeOK
    <3> QED
      BY <1>1, <3>1, <3>2
  <2>3. ASSUME NEW result \in Terminal, FinishBudget(b, result)
        PROVE  (\A c \in Budgets : FactsStep(c)) /\ UNCHANGED outbox
    <3>1. UNCHANGED <<prepared, charged, receipt, outbox>>
      BY <2>3 DEF FinishBudget, prepVars, factVars
    <3>2. \A c \in Budgets : c # b => stage'[c] = stage[c] /\ execution'[c] = execution[c]
      BY <1>0, <2>3 DEF FinishBudget, BudgetTypeOK
    <3>3. execution[b] \notin Terminal /\ (stage[b] = "D" => stage'[b] = "D")
      BY <1>0, <2>3 DEF FinishBudget, BudgetTypeOK, Terminal
    <3> QED
      BY <3>1, <3>2, <3>3
  <2> QED
    BY <1>3, <2>1, <2>2, <2>3 DEF Work, FinishResult, SweepInterruptedText, Terminal
<1>4. ASSUME NEW b \in Budgets, NEW fact, PersistFact(b, fact)
      PROVE  (\A c \in Budgets : FactsStep(c)) /\ \E e : Publish(e)
  <2>1. UNCHANGED <<prepared, execution>>
    BY <1>4 DEF PersistFact, prepVars
  <2>2. CASE receipt[b] = NoReceipt
    <3>1. stage[b] # "D"
      BY <1>0, <2>2, FactTypes DEF Agrees, NoReceipt
    <3>2. /\ receipt' = [receipt EXCEPT ![b] = [state |-> fact.kind, fact |-> fact]]
          /\ Publish(Event(b, fact.kind, fact))
          /\ \/ stage' = [stage EXCEPT ![b] = "D"] /\ charged' = [charged EXCEPT ![b] = fact.amount]
             \/ UNCHANGED slotVars
      BY <1>4, <2>2 DEF PersistFact
    <3>3. \A c \in Budgets : c # b => receipt'[c] = receipt[c] /\ stage'[c] = stage[c] /\ charged'[c] = charged[c]
      BY <1>0, <3>2 DEF BudgetTypeOK, slotVars
    <3> QED
      BY <2>1, <2>2, <3>1, <3>2, <3>3
  <2>3. CASE receipt[b] # NoReceipt
    <3>1. /\ receipt' = [receipt EXCEPT ![b] = [state |-> "conflict", fact |-> receipt[b].fact]]
          /\ Publish(Event(b, "conflict", fact))
          /\ UNCHANGED <<stage, charged>>
      BY <1>4, <2>3 DEF PersistFact, RaiseConflict, slotVars
    <3>2. \A c \in Budgets : receipt'[c].fact = receipt[c].fact
      BY <1>0, <3>1 DEF BudgetTypeOK
    <3> QED
      BY <2>1, <3>1, <3>2
  <2> QED
    BY <2>2, <2>3
<1>5. ASSUME NEW b \in Budgets, ConfirmSourceConflict(b)
      PROVE  (\A c \in Budgets : FactsStep(c)) /\ \E e : Publish(e)
  <2>1. UNCHANGED <<prepared, execution, stage, charged>> /\ Publish(Event(b, "conflict", Source))
    BY <1>5 DEF ConfirmSourceConflict, prepVars, slotVars
  <2>2. receipt' = [receipt EXCEPT ![b] = [state |-> "conflict", fact |-> IF receipt[b] = NoReceipt THEN Source ELSE receipt[b].fact]]
    BY <1>5 DEF ConfirmSourceConflict, RaiseConflict
  <2>3. \A c \in Budgets : receipt[c] # NoReceipt => receipt'[c].fact = receipt[c].fact
    BY <1>0, <2>2 DEF BudgetTypeOK
  <2> QED
    BY <2>1, <2>3
<1>6. ASSUME Rebase \/ Life
      PROVE  (\A c \in Budgets : FactsStep(c)) /\ UNCHANGED outbox
  <2>1. UNCHANGED <<prepared, stage, charged, receipt, outbox>>
    BY <1>6 DEF Rebase, BeginRebase, AbortRebase, DropReader, CommitRebase, Life, BeginClose, FinishClose, Crash,
       Start, Recover, SetKey, KeepData, prepVars, slotVars, factVars
  <2>2. \A c \in Budgets : execution[c] \in Terminal => execution'[c] = execution[c]
    BY <1>6 DEF Rebase, BeginRebase, AbortRebase, DropReader, CommitRebase, Life, BeginClose, FinishClose, Crash,
       Start, Recover, SetKey, KeepData, Terminal
  <2> QED
    BY <1>1, <2>1, <2>2
<1>7. ASSUME NEW b \in Budgets, Confirm(b)
      PROVE  (\A c \in Budgets : FactsStep(c)) /\ \E e : Publish(e)
  BY <1>4, <1>5, <1>7 DEF Confirm, ConfirmUsage, ConfirmNoSend
<1>8. (\A c \in Budgets : FactsStep(c)) /\ ((\E e : Publish(e)) \/ UNCHANGED outbox)
  BY <1>2, <1>3, <1>6, <1>7 DEF BudgetNext
<1> QED
  BY <1>0, <1>8, OutboxAppended

(* A decision about sending, a result, a charge and the first fact of a receipt   *)
(* are final, and the outbox is only appended to.                                 *)
THEOREM FactsStay == BudgetSpec => FactsAreFinal
<1>1. ASSUME BudgetInv, BudgetTypeOK', [BudgetNext]_vars
      PROVE  [/\ \A b \in Budgets :
                    /\ prepared[b] \in NoSend \cup {"send_intent"} => prepared'[b] = prepared[b]
                    /\ execution[b] \in Terminal => execution'[b] = execution[b]
                    /\ stage[b] = "D" => stage'[b] = "D" /\ charged'[b] = charged[b]
                    /\ receipt[b] # NoReceipt => receipt'[b].fact = receipt[b].fact
              /\ Len(outbox') >= Len(outbox) /\ SubSeq(outbox', 1, Len(outbox)) = outbox]_vars
  BY <1>1, StepKeepsFacts DEF FactsStep
<1> QED
  BY <1>1, BudgetAlwaysAgrees, BudgetTypeCorrect, PTL DEF BudgetSpec, FactsAreFinal

(* A new snapshot swallows a charge only behind a fence, after its receipt and    *)
(* with nothing else held, so that no credits leave the account unexplained.      *)
THEOREM SnapshotsCoverSettled == BudgetSpec => CoveredWhenQuiet
<1>1. ASSUME BudgetInv, BudgetNext, NEW b \in Budgets, covered'[b], ~covered[b]
      PROVE  /\ receipt[b].state = "final" /\ execution[b] \in Terminal
             /\ \A c \in Budgets : stage[c] \notin Holding /\ receipt[c].state # "conflict"
  <2>1. PICK s \in Snapshots : CommitRebase(s)
    BY <1>1 DEF BudgetNext, Client, PrepareBudget, CancelBudget, ConsumeBudget, Work, FailBeforeSend, LeaveUnsent,
       MarkSendIntent, SendUpstream, FinishResult, FinishBudget, MarkUnknown, SweepInterruptedText, Expire,
       Confirm, ConfirmUsage, ConfirmNoSend, PersistFact, ConfirmSourceConflict,
       Rebase, BeginRebase, AbortRebase, DropReader, Life, BeginClose, FinishClose, Crash,
       Start, Recover, SetKey, KeepData, fenceVars
  <2>2. stage[b] = "D" /\ Quiet
    BY <1>1, <2>1 DEF CommitRebase
  <2>3. prepared[b] = "send_intent"
    BY <1>1, <2>2 DEF BudgetInv, BudgetTypeOK, Agrees
  <2> QED
    BY <2>2, <2>3 DEF Quiet, HasConflict
<1>2. ASSUME BudgetInv, [BudgetNext]_vars
      PROVE  [\A b \in Budgets : covered'[b] /\ ~covered[b] =>
                 /\ receipt[b].state = "final" /\ execution[b] \in Terminal
                 /\ \A c \in Budgets : stage[c] \notin Holding /\ receipt[c].state # "conflict"]_vars
  BY <1>1, <1>2
<1> QED
  BY <1>2, BudgetAlwaysAgrees, PTL DEF BudgetSpec, CoveredWhenQuiet
-----------------------------------------------------------------------------
(* The capacity of the account. Only finitely many budgets have a slot, so     *)
(* what they hold and what they were charged are sums. A step moves one slot:  *)
(* into the sums when its hold is checked, from the holds to the charges when  *)
(* its receipt is read, and out of both when its hold is given back.           *)

WithinHolds == \A b \in Budgets : stage[b] = "D" => charged[b] <= HoldOf[b]

Slots == {b \in Budgets : stage[b] # "none"}

ExposureInv == IsFiniteSet(Slots) /\ ExposureCarried

LEMMA CapacityType ==
    ASSUME BudgetTypeOK
    PROVE  capacity[1] \in Nat /\ capacity[2] \in Nat
BY BudgetConstants DEF BudgetTypeOK

\* Both sums are over finite sets of natural numbers, and grow with the set.
LEMMA ExposureType ==
    ASSUME BudgetTypeOK, IsFiniteSet(Slots), NEW S, S \subseteq Budgets
    PROVE  /\ IsFiniteSet(Holders(S)) /\ IsFiniteSet(Uncovered(S))
           /\ \A b \in Holders(S) : HoldOf[b] \in Nat
           /\ \A b \in Uncovered(S) : charged[b] \in Nat
           /\ HoldSum(S) \in Nat /\ ChargeSum(S) \in Nat
<1>1. Holders(S) \subseteq Slots /\ Uncovered(S) \subseteq Slots
  BY DEF Holders, Uncovered, Slots, Holding
<1>2. IsFiniteSet(Holders(S)) /\ IsFiniteSet(Uncovered(S))
  BY <1>1, FS_Subset
<1>3. \A b \in Holders(S) : HoldOf[b] \in Nat
  BY BudgetConstants DEF Holders
<1>4. \A b \in Uncovered(S) : charged[b] \in Nat
  BY DEF Uncovered, BudgetTypeOK
<1> QED
  BY <1>2, <1>3, <1>4, SumNat DEF HoldSum, ChargeSum

\* What the check of a new hold says of everything held and charged.
LEMMA CapacityCarries ==
    ASSUME BudgetTypeOK, IsFiniteSet(Slots), NEW b \in Budgets, stage[b] = "none",
           CheckCapacity(b, epoch)
    PROVE  /\ HoldSum(Budgets) + HoldOf[b] + ChargeSum(Budgets) <= capacity[1] + capacity[2]
           /\ b \notin Videos \/ HoldSum(Budgets \ Videos) > 0
                => HoldSum(Budgets) + HoldOf[b] + ChargeSum(Budgets) <= capacity[1]
<1> DEFINE others  == Budgets \ {b}
           general == HoldSum(others \ Videos)
           videos  == HoldSum(others \cap Videos)
           spent   == ChargeSum(others)
<1>1. /\ Holders(others \ Videos) = Holders(Budgets \ Videos)
      /\ Uncovered(others) = Uncovered(Budgets)
      /\ Holders(Budgets) = Holders(others \ Videos) \cup Holders(others \cap Videos)
      /\ Holders(others \ Videos) \cap Holders(others \cap Videos) = {}
  BY BudgetConstants DEF Holders, Uncovered, Holding
<1>2. general = HoldSum(Budgets \ Videos) /\ spent = ChargeSum(Budgets)
  BY <1>1 DEF HoldSum, ChargeSum
<1>3. /\ IsFiniteSet(Holders(others \ Videos)) /\ IsFiniteSet(Holders(others \cap Videos))
      /\ \A c \in Holders(others \ Videos) \cup Holders(others \cap Videos) : HoldOf[c] \in Int
      /\ general \in Nat /\ videos \in Nat
  <2>1. others \ Videos \subseteq Budgets /\ others \cap Videos \subseteq Budgets
    OBVIOUS
  <2>2. \A c \in Holders(others \ Videos) \cup Holders(others \cap Videos) : HoldOf[c] \in Int
    BY BudgetConstants DEF Holders
  <2> QED
    BY <2>1, <2>2, ExposureType
<1>4. HoldSum(Budgets) = general + videos
  <2> DEFINE G == Holders(others \ Videos)
             V == Holders(others \cap Videos)
  <2>1. IsFiniteSet(G) /\ IsFiniteSet(V) /\ G \cap V = {} /\ \A c \in G \cup V : HoldOf[c] \in Int
    BY <1>1, <1>3
  <2>2. Holders(Budgets) = G \cup V
    BY <1>1
  <2>3. general = SumFunctionOnSet(HoldOf, G) /\ videos = SumFunctionOnSet(HoldOf, V)
    BY DEF HoldSum
  <2> HIDE DEF G, V
  <2>4. SumFunctionOnSet(HoldOf, G \cup V) = SumFunctionOnSet(HoldOf, G) + SumFunctionOnSet(HoldOf, V)
    BY <2>1, SumUnion
  <2> QED
    BY <2>2, <2>3, <2>4 DEF HoldSum
<1>5. /\ general + videos + HoldOf[b] <= Floor(capacity[1] + capacity[2] - spent)
      /\ b \notin Videos \/ general > 0 => general + videos + HoldOf[b] <= Floor(capacity[1] - spent)
  BY DEF CheckCapacity
<1>6. spent \in Nat /\ HoldOf[b] \in Nat /\ HoldOf[b] > 0 /\ capacity[1] \in Nat /\ capacity[2] \in Nat
  BY <1>2, ExposureType, CapacityType, BudgetConstants
<1> HIDE DEF others, general, videos, spent
<1>7. general + videos + HoldOf[b] <= capacity[1] + capacity[2] - spent
  BY <1>3, <1>5, <1>6 DEF Floor
<1>8. b \notin Videos \/ general > 0 => general + videos + HoldOf[b] <= capacity[1] - spent
  BY <1>3, <1>5, <1>6 DEF Floor
<1> QED
  BY <1>2, <1>3, <1>4, <1>6, <1>7, <1>8

\* Steps that at most give holds back.
LEMMA ExposureShrinks ==
    ASSUME BudgetTypeOK, ExposureInv, UNCHANGED <<capacity, charged, covered>>,
           \A b \in Budgets : stage'[b] \in Holding => stage[b] \in Holding,
           \A b \in Budgets : stage'[b] = "D" <=> stage[b] = "D",
           \A b \in Budgets : stage[b] = "none" => stage'[b] = "none"
    PROVE  ExposureInv'
<1>1. IsFiniteSet(Slots) /\ IsFiniteSet(Slots)'
  <2>1. Slots' \subseteq Slots
    BY DEF Slots
  <2> QED
    BY <2>1, FS_Subset DEF ExposureInv
<1>2. \A S \in SUBSET Budgets : HoldSum(S)' <= HoldSum(S) /\ HoldSum(S) \in Nat /\ HoldSum(S)' \in Nat
  <2> SUFFICES ASSUME NEW S \in SUBSET Budgets
               PROVE  HoldSum(S)' <= HoldSum(S) /\ HoldSum(S) \in Nat /\ HoldSum(S)' \in Nat
    OBVIOUS
  <2>1. Holders(S)' \subseteq Holders(S)
    BY DEF Holders
  <2>2. IsFiniteSet(Holders(S)) /\ \A b \in Holders(S) : HoldOf[b] \in Nat
    BY <1>1, ExposureType
  <2>3. SumFunctionOnSet(HoldOf, Holders(S)') <= SumFunctionOnSet(HoldOf, Holders(S))
    BY <2>1, <2>2, SumSubset
  <2>4. SumFunctionOnSet(HoldOf, Holders(S)') \in Nat
    BY <2>1, <2>2, FS_Subset, SumNat
  <2> QED
    BY <1>1, <2>3, <2>4, ExposureType DEF HoldSum
<1>3. Uncovered(Budgets)' = Uncovered(Budgets)
  BY DEF Uncovered
<1>4. ChargeSum(Budgets)' = ChargeSum(Budgets) /\ ChargeSum(Budgets) \in Nat
  BY <1>1, <1>3, ExposureType DEF ChargeSum
<1>5. WithinHolds' => WithinHolds
  BY DEF WithinHolds
<1>6. /\ HoldSum(Budgets)' <= HoldSum(Budgets) /\ HoldSum(Budgets) \in Nat /\ HoldSum(Budgets)' \in Nat
      /\ HoldSum(Budgets \ Videos)' <= HoldSum(Budgets \ Videos)
      /\ HoldSum(Budgets \ Videos) \in Nat /\ HoldSum(Budgets \ Videos)' \in Nat
  BY <1>2
<1>7. ExposureCarried'
  BY <1>4, <1>5, <1>6, CapacityType DEF ExposureInv, ExposureCarried, WithinHolds
<1> QED
  BY <1>1, <1>7 DEF ExposureInv

LEMMA ExposurePrepared ==
    ASSUME BudgetInv, ExposureInv, NEW b \in Budgets, PrepareBudget(b)
    PROVE  ExposureInv'
<1>0. BudgetTypeOK /\ IsFiniteSet(Slots) /\ CheckCapacity(b, epoch) /\ stage[b] = "none"
  BY DEF BudgetInv, Agrees, ExposureInv, PrepareBudget
<1>1. /\ stage'[b] = "P" /\ \A c \in Budgets : c # b => stage'[c] = stage[c]
      /\ UNCHANGED <<capacity, charged, covered>>
  BY <1>0 DEF PrepareBudget, BudgetTypeOK, acctVars, fenceVars
<1>2. Holders(Budgets)' = Holders(Budgets) \cup {b} /\ b \notin Holders(Budgets)
  BY <1>0, <1>1 DEF Holders, Holding
<1>3. Holders(Budgets \ Videos)' = Holders(Budgets \ Videos) \cup (IF b \in Videos THEN {} ELSE {b})
  BY <1>0, <1>1 DEF Holders, Holding
<1>4. Uncovered(Budgets)' = Uncovered(Budgets)
  BY <1>0, <1>1 DEF Uncovered
<1>5. ChargeSum(Budgets)' = ChargeSum(Budgets)
  BY <1>1, <1>4 DEF ChargeSum
<1>6. HoldSum(Budgets)' = HoldSum(Budgets) + HoldOf[b]
  <2>1. IsFiniteSet(Holders(Budgets)) /\ \A c \in Holders(Budgets) \cup {b} : HoldOf[c] \in Int
    BY <1>0, ExposureType, BudgetConstants DEF Holders
  <2>2. SumFunctionOnSet(HoldOf, Holders(Budgets) \cup {b})
          = SumFunctionOnSet(HoldOf, Holders(Budgets)) + HoldOf[b]
    BY <1>2, <2>1, SumAdd
  <2> QED
    BY <1>2, <2>2 DEF HoldSum
<1>7. b \in Videos => HoldSum(Budgets \ Videos)' = HoldSum(Budgets \ Videos)
  BY <1>3 DEF HoldSum
<1>8. IsFiniteSet(Slots)'
  <2>1. Slots' = Slots \cup {b}
    BY <1>1 DEF Slots
  <2> QED
    BY <1>0, <2>1, FS_AddElement
<1>9. HoldSum(Budgets) \in Nat /\ ChargeSum(Budgets) \in Nat /\ HoldOf[b] \in Nat
  BY <1>0, ExposureType, BudgetConstants
<1>10. (HoldSum(Budgets) + ChargeSum(Budgets))' = HoldSum(Budgets) + HoldOf[b] + ChargeSum(Budgets)
  BY <1>5, <1>6, <1>9
<1>11. ExposureCarried'
  BY <1>0, <1>1, <1>7, <1>10, CapacityCarries DEF ExposureCarried
<1> QED
  BY <1>8, <1>11 DEF ExposureInv

\* A receipt turns a hold into a charge.
LEMMA ExposureCharged ==
    ASSUME BudgetInv, BudgetTypeOK', ExposureInv, NEW b \in Budgets, NEW v \in Nat,
           stage[b] \in Holding, UNCHANGED <<capacity, covered>>,
           stage' = [stage EXCEPT ![b] = "D"], charged' = [charged EXCEPT ![b] = v]
    PROVE  ExposureInv'
<1>0. BudgetTypeOK /\ IsFiniteSet(Slots) /\ stage[b] # "D"
  BY DEF BudgetInv, ExposureInv, Holding
<1>1. /\ stage'[b] = "D" /\ charged'[b] = v
      /\ \A c \in Budgets : c # b => stage'[c] = stage[c] /\ charged'[c] = charged[c]
  BY <1>0 DEF BudgetTypeOK
<1>2. IsFiniteSet(Slots)'
  <2>1. Slots' \subseteq Slots
    BY <1>1 DEF Slots, Holding
  <2> QED
    BY <1>0, <2>1, FS_Subset
<1>3. HoldSum(Budgets) = HoldOf[b] + HoldSum(Budgets)'
  <2>1. Holders(Budgets)' = Holders(Budgets) \ {b} /\ b \in Holders(Budgets)
    BY <1>1 DEF Holders, Holding
  <2>2. IsFiniteSet(Holders(Budgets)) /\ \A c \in Holders(Budgets) : HoldOf[c] \in Int
    BY <1>0, ExposureType
  <2>3. SumFunctionOnSet(HoldOf, Holders(Budgets))
          = HoldOf[b] + SumFunctionOnSet(HoldOf, Holders(Budgets) \ {b})
    BY <2>1, <2>2, SumRemove
  <2> QED
    BY <2>1, <2>3 DEF HoldSum
<1>4. HoldSum(Budgets \ Videos)' <= HoldSum(Budgets \ Videos)
  <2>1. Holders(Budgets \ Videos)' \subseteq Holders(Budgets \ Videos)
    BY <1>1 DEF Holders, Holding
  <2>2. /\ IsFiniteSet(Holders(Budgets \ Videos))
        /\ \A c \in Holders(Budgets \ Videos) : HoldOf[c] \in Nat
    BY <1>0, ExposureType
  <2>3. SumFunctionOnSet(HoldOf, Holders(Budgets \ Videos)')
          <= SumFunctionOnSet(HoldOf, Holders(Budgets \ Videos))
    BY <2>1, <2>2, SumSubset
  <2> QED
    BY <2>3 DEF HoldSum
<1>5. ChargeSum(Budgets)' <= ChargeSum(Budgets) + v
  <2> DEFINE U == Uncovered(Budgets)
             f == charged'
  <2>1. \A c \in U : f[c] = charged[c] /\ charged[c] \in Nat
    BY <1>0, <1>1, ExposureType DEF Uncovered
  <2>2. IsFiniteSet(U) /\ b \notin U /\ f[b] = v
    BY <1>0, <1>1, ExposureType DEF Uncovered
  <2>3. Uncovered(Budgets)' = U \cup (IF covered[b] THEN {} ELSE {b})
    BY <1>0, <1>1 DEF Uncovered
  <2>4. /\ ChargeSum(Budgets)' = SumFunctionOnSet(f, Uncovered(Budgets)')
        /\ ChargeSum(Budgets) = SumFunctionOnSet(charged, U)
    BY DEF ChargeSum
  <2> HIDE DEF U, f
  <2>5. SumFunctionOnSet(f, U) = SumFunctionOnSet(charged, U) /\ SumFunctionOnSet(charged, U) \in Nat
    BY <2>1, <2>2, SumSame, SumNat
  <2>6. SumFunctionOnSet(f, U \cup {b}) = SumFunctionOnSet(f, U) + f[b]
    <3>1. \A c \in U \cup {b} : f[c] \in Int
      BY <2>1, <2>2
    <3> QED
      BY <2>2, <3>1, SumAdd
  <2>7. CASE covered[b]
    <3>1. Uncovered(Budgets)' = U
      BY <2>3, <2>7
    <3> QED
      BY <2>4, <2>5, <3>1
  <2>8. CASE ~covered[b]
    <3>1. Uncovered(Budgets)' = U \cup {b}
      BY <2>3, <2>8
    <3> QED
      BY <2>2, <2>4, <2>5, <2>6, <3>1
  <2> QED
    BY <2>7, <2>8
<1>6. WithinHolds' => WithinHolds /\ v <= HoldOf[b]
  BY <1>0, <1>1 DEF WithinHolds
<1>7. /\ HoldSum(Budgets) \in Nat /\ ChargeSum(Budgets) \in Nat /\ HoldSum(Budgets \ Videos) \in Nat
      /\ HoldSum(Budgets)' \in Nat /\ ChargeSum(Budgets)' \in Nat /\ HoldSum(Budgets \ Videos)' \in Nat
  <2>1. \A S \in SUBSET Budgets : HoldSum(S) \in Nat /\ ChargeSum(S) \in Nat
    BY <1>0, ExposureType
  <2>2. \A S \in SUBSET Budgets : HoldSum(S)' \in Nat /\ ChargeSum(S)' \in Nat
    <3> SUFFICES ASSUME NEW S \in SUBSET Budgets PROVE HoldSum(S)' \in Nat /\ ChargeSum(S)' \in Nat
      OBVIOUS
    <3>1. Holders(S)' \subseteq Slots /\ Uncovered(S)' \subseteq Slots
      BY <1>1 DEF Holders, Uncovered, Slots, Holding
    <3>2. IsFiniteSet(Holders(S)') /\ IsFiniteSet(Uncovered(S)')
      BY <1>0, <3>1, FS_Subset
    <3>3. \A c \in Holders(S)' : HoldOf[c] \in Nat
      BY BudgetConstants DEF Holders
    <3>4. \A c \in Uncovered(S)' : charged'[c] \in Nat
      BY DEF Uncovered, BudgetTypeOK
    <3> QED
      BY <3>2, <3>3, <3>4, SumNat DEF HoldSum, ChargeSum
  <2> QED
    BY <2>1, <2>2
<1>8. HoldOf[b] \in Nat /\ capacity[1] \in Nat /\ capacity[2] \in Nat
  BY <1>0, CapacityType, BudgetConstants
<1>9. WithinHolds' => (HoldSum(Budgets) + ChargeSum(Budgets))' <= HoldSum(Budgets) + ChargeSum(Budgets)
  BY <1>3, <1>5, <1>6, <1>7, <1>8
<1>10. ExposureCarried'
  BY <1>4, <1>6, <1>7, <1>8, <1>9 DEF ExposureInv, ExposureCarried, WithinHolds
<1> QED
  BY <1>2, <1>10 DEF ExposureInv

\* A snapshot is taken when nothing is held, and covers every charge.
LEMMA ExposureRebased ==
    ASSUME BudgetInv, ExposureInv, NEW s \in Snapshots, CommitRebase(s)
    PROVE  ExposureInv'
<1>1. stage' = stage /\ capacity' = s /\ s[1] \in Nat /\ s[2] \in Nat
  BY BudgetConstants DEF CommitRebase, slotVars
<1>2. \A S \in SUBSET Budgets : Holders(S)' = {}
  BY <1>1 DEF CommitRebase, Quiet, Holders
<1>3. Uncovered(Budgets)' = {}
  BY <1>1 DEF CommitRebase, Uncovered
<1>4. HoldSum(Budgets)' = 0 /\ HoldSum(Budgets \ Videos)' = 0 /\ ChargeSum(Budgets)' = 0
  BY <1>2, <1>3, SumEmpty DEF HoldSum, ChargeSum
<1>5. ExposureCarried'
  BY <1>1, <1>4 DEF ExposureCarried
<1> QED
  BY <1>1, <1>5 DEF ExposureInv, Slots

LEMMA ExposureStep == BudgetInv /\ BudgetInv' /\ ExposureInv /\ [BudgetNext]_vars => ExposureInv'
<1> SUFFICES ASSUME BudgetInv, BudgetInv', ExposureInv, [BudgetNext]_vars PROVE ExposureInv'
  OBVIOUS
<1>0. BudgetTypeOK /\ BudgetTypeOK'
  BY DEF BudgetInv
<1>1. ASSUME UNCHANGED <<capacity, charged, covered, stage>> PROVE ExposureInv'
  BY <1>0, <1>1, ExposureShrinks
<1>2. ASSUME NEW b \in Budgets, NEW state, DecideNoSend(b, state),
             UNCHANGED <<capacity, charged, covered>>
      PROVE  ExposureInv'
  <2>1. stage[b] = "P" /\ stage'[b] = "released" /\ \A c \in Budgets : c # b => stage'[c] = stage[c]
    BY <1>0, <1>2 DEF DecideNoSend, BudgetTypeOK
  <2> QED
    BY <1>0, <1>2, <2>1, ExposureShrinks DEF Holding
<1>3. ASSUME NEW b \in Budgets, Client(b) PROVE ExposureInv'
  <2>1. CASE PrepareBudget(b)
    BY <2>1, ExposurePrepared
  <2>2. CASE CancelBudget(b)
    BY <1>2, <2>2 DEF CancelBudget, acctVars, fenceVars
  <2>3. CASE ConsumeBudget(b)
    BY <1>1, <1>2, <2>3, Zenon DEF ConsumeBudget, acctVars, fenceVars
  <2> QED
    BY <1>3, <2>1, <2>2, <2>3 DEF Client
<1>4. ASSUME NEW b \in Budgets, NEW result, FinishBudget(b, result) PROVE ExposureInv'
  <2>1. stage'[b] = (IF stage[b] = "P" THEN "R" ELSE stage[b])
        /\ \A c \in Budgets : c # b => stage'[c] = stage[c]
    BY <1>0, <1>4 DEF FinishBudget, BudgetTypeOK
  <2>2. UNCHANGED <<capacity, charged, covered>>
    BY <1>4 DEF FinishBudget, acctVars, fenceVars
  <2> QED
    BY <1>0, <2>1, <2>2, ExposureShrinks DEF Holding
<1>5. ASSUME NEW b \in Budgets, Work(b) \/ SweepInterruptedText(b) \/ Expire(b) PROVE ExposureInv'
  <2>1. CASE FailBeforeSend(b)
    BY <1>2, <2>1 DEF FailBeforeSend, acctVars, fenceVars
  <2>2. CASE LeaveUnsent(b) \/ MarkSendIntent(b) \/ SendUpstream(b) \/ MarkUnknown(b) \/ Expire(b)
    BY <1>1, <2>2
    DEF LeaveUnsent, MarkSendIntent, SendUpstream, MarkUnknown, Expire, acctVars, fenceVars, slotVars
  <2>3. CASE SweepInterruptedText(b) \/ \E result \in Terminal : FinishResult(b, result)
    BY <1>4, <2>3 DEF SweepInterruptedText, FinishResult
  <2> QED
    BY <1>5, <2>1, <2>2, <2>3 DEF Work
<1>6. ASSUME NEW b \in Budgets, NEW fact, PersistFact(b, fact), fact.kind = "final" => fact.amount \in Nat
      PROVE  ExposureInv'
  <2>1. UNCHANGED <<capacity, covered>>
    BY <1>6 DEF PersistFact, acctVars
  <2>2. CASE receipt[b] = NoReceipt /\ fact.kind = "final"
    <3>1. /\ stage[b] \in Holding /\ stage' = [stage EXCEPT ![b] = "D"]
          /\ charged' = [charged EXCEPT ![b] = fact.amount]
      BY <1>6, <2>2 DEF PersistFact
    <3> QED
      BY <1>0, <1>6, <2>1, <2>2, <3>1, ExposureCharged
  <2>3. CASE ~(receipt[b] = NoReceipt /\ fact.kind = "final")
    <3>1. UNCHANGED slotVars
      BY <1>6, <2>3 DEF PersistFact
    <3> QED
      BY <1>1, <2>1, <3>1 DEF slotVars
  <2> QED
    BY <2>2, <2>3
<1>7. ASSUME NEW b \in Budgets, Confirm(b) PROVE ExposureInv'
  <2>1. ASSUME NEW v \in Credits, ConfirmUsage(b, v) PROVE ExposureInv'
    <3>1. Final(v).amount \in Nat
      BY BudgetConstants DEF Final
    <3> QED
      BY <1>6, <2>1, <3>1 DEF ConfirmUsage
  <2>2. CASE ConfirmNoSend(b)
    BY <1>6, <2>2 DEF ConfirmNoSend, NoCharge
  <2>3. CASE ConfirmSourceConflict(b)
    BY <1>1, <2>3 DEF ConfirmSourceConflict, acctVars, slotVars
  <2> QED
    BY <1>7, <2>1, <2>2, <2>3 DEF Confirm
<1>8. CASE Rebase
  BY <1>1, <1>8, ExposureRebased
  DEF Rebase, BeginRebase, AbortRebase, DropReader, acctVars, fenceVars, slotVars
<1>9. CASE Life
  BY <1>1, <1>9
  DEF Life, BeginClose, FinishClose, Crash, Start, Recover, SetKey, KeepData, acctVars, fenceVars, slotVars
<1>10. CASE UNCHANGED vars
  BY <1>1, <1>10 DEF vars, acctVars, fenceVars, slotVars
<1> QED
  BY <1>3, <1>5, <1>7, <1>8, <1>9, <1>10 DEF BudgetNext

(* No interleaving of preparing, sending, failing, late receipts, conflicts,      *)
(* snapshots, crashes and recoveries promises more than the snapshot carries, as  *)
(* long as no receipt is above its hold.                                          *)
THEOREM ExposureAlwaysCarried == BudgetSpec => []ExposureCarried
<1>1. BudgetInit => ExposureInv
  <2> SUFFICES ASSUME BudgetInit PROVE ExposureInv
    OBVIOUS
  <2>1. \A S \in SUBSET Budgets : Holders(S) = {} /\ Uncovered(S) = {}
    BY DEF BudgetInit, Holders, Uncovered, Holding
  <2>2. HoldSum(Budgets) = 0 /\ HoldSum(Budgets \ Videos) = 0 /\ ChargeSum(Budgets) = 0
    BY <2>1, SumEmpty DEF HoldSum, ChargeSum
  <2>3. Slots = {} /\ capacity[1] \in Nat /\ capacity[2] \in Nat
    BY BudgetConstants DEF BudgetInit, Slots
  <2> QED
    BY <2>2, <2>3, FS_EmptySet DEF ExposureInv, ExposureCarried
<1>2. BudgetInv /\ BudgetInv' /\ ExposureInv /\ [BudgetNext]_vars => ExposureInv'
  BY ExposureStep
<1>3. ExposureInv => ExposureCarried
  BY DEF ExposureInv
<1> QED
  BY <1>1, <1>2, <1>3, BudgetAlwaysAgrees, PTL DEF BudgetSpec
=============================================================================
