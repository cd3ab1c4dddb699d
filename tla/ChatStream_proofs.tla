--------------------------- MODULE ChatStream_proofs ---------------------------
(* Theorems about the actors of a chat, for any number of concurrent streams.  *)
(* First that the actors use the lease as its own specification allows, so     *)
(* that what UpstreamLease_proofs shows holds of the gateway; then what        *)
(* worker, watch and recovery may not do to each other.                       *)
EXTENDS ChatStream, UpstreamLease_proofs

-----------------------------------------------------------------------------
(* The chat implements the lease.                                             *)

LEMMA SettleChatMoves ==
    ASSUME NEW r \in Requests, NEW o, SettleChat(r, o)
    PROVE  [LeaseNext]_vars
BY DEF SettleChat, OutcomesFor, LeaseNext, OwnerNext

LEMMA SettleMoves ==
    ASSUME NEW a \in Actors, NEW r \in Requests, Settle(a, r) \/ Fallback(a, r)
    PROVE  [LeaseNext]_vars
<1>1. PICK o : o = outcome[a][r]
  OBVIOUS
<1>2. UNCHANGED vars \/ SettleChat(r, o) \/ SettleChat(r, "unknown")
  BY <1>1 DEF Settle, Fallback
<1>3. QED
  BY <1>2, SettleChatMoves

LEMMA ChatMoves == [ChatNext]_chatVars => [LeaseNext]_vars
<1> SUFFICES ASSUME [ChatNext]_chatVars PROVE [LeaseNext]_vars
  OBVIOUS
<1>1. ASSUME NEW r \in Requests, WorkerNext(r) PROVE [LeaseNext]_vars
  BY <1>1 DEF WorkerNext, Preflight, Recover, Send, Return, Panic, Deliver, LeaseNext, OwnerNext
<1>2. ASSUME NEW r \in Requests, NEW a \in Actors, ActorNext(a, r) PROVE [LeaseNext]_vars
  BY <1>2, SettleMoves DEF ActorNext, Record, Ask, LeaseNext, OwnerNext
<1>3. ASSUME NEW r \in Requests,
             Watch(r) \/ StopWatch(r) \/ HeartbeatTask(r) \/ ClientLeaves(r) \/ UpstreamEnds(r)
      PROVE  [LeaseNext]_vars
  BY <1>3 DEF Watch, StopWatch, HeartbeatTask, ClientLeaves, UpstreamEnds, LeaseNext, OwnerNext
<1>4. CASE Stop \/ Crash \/ StartRecovery \/ StartValidation
  BY <1>4 DEF Stop, Crash, StartRecovery, StartValidation, LeaseNext, AdminStep
<1>5. CASE Environment
  BY <1>5 DEF Environment, LeaseNext, AdminStep
<1>6. QED
  BY <1>1, <1>2, <1>3, <1>4, <1>5 DEF ChatNext, chatVars

\* Every behaviour of the actors, crashes and errors of the store included, is
\* one of the lease's specification.
THEOREM ChatImplementsLease == ChatSpec => ImplementsLease
<1>1. ChatInit => LeaseInit
  BY DEF ChatInit
<1>2. QED
  BY <1>1, ChatMoves, PTL DEF ChatSpec, ImplementsLease, LeaseSpec

\* What the lease's theorems give the gateway: slots, agreement, conserved
\* balances and an escrow.
THEOREM ChatKeepsLease ==
    ChatSpec => /\ [](LeaseTypeOK /\ AllAgree)
                /\ []SlotsWithinLimit
                /\ []NeverOverdrawn
                /\ []Conservation
                /\ ImplementsBudgetHold
BY ChatImplementsLease, AlwaysAgree, LeaseSlots, LeaseSolvency, LeaseConservation, LeaseImplementation, PTL
DEF ImplementsLease

-----------------------------------------------------------------------------
(* Types of the actors.                                                       *)

ActorTypeOK ==
    /\ service \in {"up", "stopped", "starting"}
    /\ pc \in [Actors -> [Requests -> Steps]]
    /\ outcome \in [Actors -> [Requests -> Outcome]]
    /\ cancelled \in [Requests -> BOOLEAN]
    /\ closed \in [Requests -> BOOLEAN]
    /\ gone \in [Requests -> BOOLEAN]
    /\ upstream \in [Requests -> {"idle", "working", "finished", "refused", "stopped"}]

LEMMA GotoMoves ==
    ASSUME ActorTypeOK, NEW a \in Actors, NEW r \in Requests, NEW step \in Steps,
           Goto(a, r, step)
    PROVE  /\ pc' \in [Actors -> [Requests -> Steps]]
           /\ \A b \in Actors, q \in Requests :
                pc'[b][q] = IF b = a /\ q = r THEN step ELSE pc[b][q]
BY DEF Goto, ActorTypeOK

LEMMA DecideMoves ==
    ASSUME ActorTypeOK, NEW a \in Actors, NEW r \in Requests, NEW o \in Outcome,
           Decide(a, r, o)
    PROVE  /\ outcome' \in [Actors -> [Requests -> Outcome]]
           /\ \A b \in Actors, q \in Requests :
                outcome'[b][q] = IF b = a /\ q = r THEN o ELSE outcome[b][q]
BY DEF Decide, ActorTypeOK

LEMMA ActorStepType == ActorTypeOK /\ [ChatNext]_chatVars => ActorTypeOK'
<1> SUFFICES ASSUME ActorTypeOK, [ChatNext]_chatVars PROVE ActorTypeOK'
  OBVIOUS
<1> USE DEF Actors, Steps, Outcome
<1>1. ASSUME NEW r \in Requests, NEW a \in UpstreamAccounts, Preflight(r, a) PROVE ActorTypeOK'
  BY <1>1 DEF Preflight, Goto, ActorTypeOK
<1>2. ASSUME NEW r \in Requests, Recover(r) PROVE ActorTypeOK'
  BY <1>2 DEF Recover, Goto, ActorTypeOK
<1>3. ASSUME NEW r \in Requests, Send(r) PROVE ActorTypeOK'
  BY <1>3 DEF Send, ActorTypeOK
<1>4. ASSUME NEW r \in Requests, NEW o \in {"success", "rejected", "unknown"}, Return(r, o)
      PROVE  ActorTypeOK'
  BY <1>4 DEF Return, Goto, Decide, ActorTypeOK
<1>5. ASSUME NEW r \in Requests, Panic(r) PROVE ActorTypeOK'
  BY <1>5 DEF Panic, Goto, Decide, ActorTypeOK
<1>6. ASSUME NEW r \in Requests, Deliver(r) PROVE ActorTypeOK'
  <2>1. pc' \in [Actors -> [Requests -> Steps]]
    BY <1>6, GotoMoves DEF Deliver
  <2>2. \/ UNCHANGED outcome
        \/ \E o \in Outcome : Decide("worker", r, o)
    BY <1>6 DEF Deliver, ActorTypeOK
  <2>3. outcome' \in [Actors -> [Requests -> Outcome]]
    BY <2>2, DecideMoves DEF ActorTypeOK
  <2>4. cancelled' \in [Requests -> BOOLEAN] /\ closed' \in [Requests -> BOOLEAN]
    BY <1>6 DEF Deliver, ActorTypeOK
  <2>5. QED
    BY <1>6, <2>1, <2>3, <2>4 DEF Deliver, ActorTypeOK
<1>7. ASSUME NEW r \in Requests, NEW a \in Actors, Record(a, r) PROVE ActorTypeOK'
  BY <1>7 DEF Record, Goto, Decide, ActorTypeOK
<1>8. ASSUME NEW r \in Requests, NEW a \in Actors, Ask(a, r) PROVE ActorTypeOK'
  BY <1>8 DEF Ask, Goto, Decide, ActorTypeOK
<1>9. ASSUME NEW r \in Requests, NEW a \in Actors, Settle(a, r) \/ Fallback(a, r) PROVE ActorTypeOK'
  BY <1>9 DEF Settle, Fallback, Goto, ActorTypeOK
<1>10. ASSUME NEW r \in Requests, StopWatch(r) \/ ClientLeaves(r) \/ UpstreamEnds(r)
       PROVE  ActorTypeOK'
  <2>1. CASE StopWatch(r)
    BY <2>1, GotoMoves DEF StopWatch, ActorTypeOK
  <2>2. CASE ClientLeaves(r)
    BY <2>2 DEF ClientLeaves, ActorTypeOK
  <2>3. CASE UpstreamEnds(r)
    BY <2>3 DEF UpstreamEnds, ActorTypeOK
  <2>4. QED
    BY <1>10, <2>1, <2>2, <2>3
<1>11. ASSUME NEW r \in Requests, Watch(r) PROVE ActorTypeOK'
  <2>1. pc' \in [Actors -> [Requests -> Steps]]
    BY <1>11, GotoMoves DEF Watch
  <2>2. cancelled' \in [Requests -> BOOLEAN]
    BY <1>11 DEF Watch, ActorTypeOK
  <2>3. closed[r] \/ gone[r] \in BOOLEAN
    BY DEF ActorTypeOK
  <2>4. closed' \in [Requests -> BOOLEAN]
    BY <1>11, <2>3, Zenon DEF Watch, ActorTypeOK
  <2>5. QED
    BY <1>11, <2>1, <2>2, <2>4 DEF Watch, ActorTypeOK
<1>12. ASSUME NEW r \in Requests, HeartbeatTask(r) PROVE ActorTypeOK'
  BY <1>12 DEF HeartbeatTask, ActorTypeOK
<1>13. CASE Stop \/ Crash \/ StartRecovery \/ StartValidation
  BY <1>13 DEF Stop, Crash, StartRecovery, StartValidation, ActorTypeOK
<1>14. CASE Environment \/ UNCHANGED chatVars
  BY <1>14 DEF Environment, chatVars, actorVars, ActorTypeOK
<1>15. QED
  BY <1>1, <1>2, <1>3, <1>4, <1>5, <1>6, <1>7, <1>8, <1>9, <1>10, <1>11, <1>12, <1>13, <1>14
  DEF ChatNext, WorkerNext, ActorNext

\* Every variable of the lease and of its actors keeps its type.
THEOREM ChatTypeCorrect == ChatSpec => []ChatTypeOK
<1>1. ChatInit => ActorTypeOK
  BY DEF ChatInit, ActorTypeOK, Actors, Steps, Outcome
<1>2. LeaseTypeOK /\ ActorTypeOK => ChatTypeOK
  BY DEF ChatTypeOK, ActorTypeOK
<1>3. QED
  BY <1>1, <1>2, ActorStepType, ChatKeepsLease, PTL DEF ChatSpec

-----------------------------------------------------------------------------
(* Who may settle what.                                                       *)

LEMMA SettleChatHold ==
    ASSUME LeaseTypeOK, NEW r \in Requests, NEW o \in Outcome, SettleChat(r, o), NEW q \in Requests,
           reservation'[q] = "released", reservation[q] # "released"
    PROVE  q = r /\ o \in {"rejected", "canceled"}
<1>1. PICK l \in OutcomesFor(r, o) : SettleLease(r, l)
  BY DEF SettleChat, vars, quotaVars, holdVars
<1>2. l \in LeaseOutcome(r) /\ l.request = ClosesAs[o] /\ ApplySettlement(r, l.quota)
  BY <1>1 DEF OutcomesFor, SettleLease, CloseLease
<1>3. q = r /\ l.quota.kind = "release"
  BY <1>2 DEF ApplySettlement, LeaseTypeOK, TypeOK
<1>4. QED
  BY <1>2, <1>3, OutcomeType DEF ClosesAs, Outcome

\* A step of the lease that is not the settlement of a chat releases nothing
\* and opens no lease but the one it acquires.
QuietFor(q) ==
    /\ reservation'[q] = "released" => reservation[q] = "released"
    /\ Open(q)' => Open(q)
    /\ request'[q] = "cancel_requested" => request[q] = "cancel_requested"

LEMMA QuietSteps ==
    ASSUME LeaseTypeOK, AllAgree, NEW q \in Requests
    PROVE  /\ UNCHANGED vars => QuietFor(q)
           /\ RecoverExpired => QuietFor(q)
           /\ \A r \in Requests : Heartbeat(r) => QuietFor(q)
           /\ \A accts \in SUBSET UpstreamAccounts : SetSelectable(accts) => QuietFor(q)
           /\ Tick => QuietFor(q)
           /\ AdminStep => QuietFor(q)
           /\ \A r \in Requests, a \in UpstreamAccounts :
                 AcquireLease(r, a) /\ r # q => QuietFor(q)
<1>1. UNCHANGED <<request, reservation, leaseState>> => QuietFor(q)
  BY DEF QuietFor, Open
<1>2. RecoverExpired => QuietFor(q)
  BY DEF RecoverExpired, QuietFor, Open
<1>3. ASSUME NEW r \in Requests, Heartbeat(r) PROVE QuietFor(q)
  BY <1>3 DEF Heartbeat, QuietFor, Open, LeaseTypeOK, quotaVars, holdVars
<1>4. ASSUME NEW r \in Requests, NEW a \in UpstreamAccounts, AcquireLease(r, a), r # q
      PROVE  QuietFor(q)
  BY <1>4 DEF AcquireLease, ReserveDual, QuietFor, Open, LeaseTypeOK, TypeOK
<1>5. QED
  BY <1>1, <1>2, <1>3, <1>4, AdminCases
  DEF vars, quotaVars, holdVars, leaseVars, lifeVars, SetSelectable, Tick

-----------------------------------------------------------------------------
(* Refunds. An actor that is about to settle a lease as rejected or canceled *)
(* knows that the upstream is not working on it, and nothing can make it     *)
(* work on it any more.                                                      *)

RefundSafe(r) ==
    /\ reservation[r] = "released" =>
          \/ upstream[r] \in {"refused", "stopped"}
          \/ upstream[r] = "idle" /\ pc["worker"][r] \notin {"idle", "acquired", "executing"}
    /\ pc["worker"][r] \in {"deliver", "settling"} /\ outcome["worker"][r] = "rejected" =>
          upstream[r] \in {"idle", "refused"}
    /\ pc["worker"][r] = "ask" => outcome["worker"][r] # "rejected"
    /\ \A a \in Actors :
          pc[a][r] \in {"deliver", "settling"} /\ outcome[a][r] = "canceled" =>
             upstream[r] = "stopped"
    /\ outcome["watch"][r] \in {"canceled", "unknown"}

LEMMA RefundSettles ==
    ASSUME LeaseTypeOK, ActorTypeOK, NEW a \in Actors, NEW r \in Requests,
           Settle(a, r) \/ Fallback(a, r), NEW q \in Requests, RefundSafe(q)
    PROVE  RefundSafe(q)'
<1>1. PICK step \in {"done", "fallback"} : Goto(a, r, step)
  BY DEF Settle, Fallback
<1>2. \A b \in Actors, p \in Requests :
         pc'[b][p] = IF b = a /\ p = r THEN step ELSE pc[b][p]
  BY <1>1, GotoMoves DEF Steps
<1>3. UNCHANGED <<outcome, upstream>>
  BY DEF Settle, Fallback
<1>4. CASE reservation'[q] = "released" /\ reservation[q] # "released"
  <2>1. PICK o \in Outcome : o = outcome[a][r]
    BY DEF ActorTypeOK
  <2>2. ~UNCHANGED vars
    BY <1>4 DEF vars, quotaVars, holdVars
  <2>3. \/ SettleChat(r, o) /\ pc[a][r] = "settling"
        \/ SettleChat(r, "unknown")
    BY <2>1, <2>2 DEF Settle, Fallback
  <2>4. q = r /\ pc[a][r] = "settling" /\ o \in {"rejected", "canceled"}
    BY <1>4, <2>3, SettleChatHold DEF Outcome
  <2>5. upstream[q] \in {"idle", "refused", "stopped"}
        /\ (upstream[q] = "idle" => a = "worker")
    BY <2>1, <2>4 DEF RefundSafe, Actors
  <2>6. QED
    BY <1>2, <1>3, <2>4, <2>5 DEF RefundSafe, Actors
<1>5. CASE ~(reservation'[q] = "released" /\ reservation[q] # "released")
  BY <1>2, <1>3, <1>5 DEF RefundSafe, Actors
<1>6. QED
  BY <1>4, <1>5

LEMMA RefundStep ==
    ASSUME LeaseTypeOK, AllAgree, ActorTypeOK, NEW q \in Requests, q \in Streams,
           RefundSafe(q), [ChatNext]_chatVars
    PROVE  RefundSafe(q)'
<1> USE DEF Actors
<1>1. ASSUME NEW r \in Requests, NEW a \in UpstreamAccounts, Preflight(r, a)
      PROVE  RefundSafe(q)'
  <2>1. \A b \in Actors, p \in Requests :
           pc'[b][p] = IF b = "worker" /\ p = r THEN "acquired" ELSE pc[b][p]
    BY <1>1, GotoMoves DEF Preflight, Steps
  <2>2. reservation'[q] = "released" => r # q /\ reservation[q] = "released"
    BY <1>1 DEF Preflight, AcquireLease, ReserveDual, LeaseTypeOK, TypeOK
  <2>3. QED
    BY <1>1, <2>1, <2>2 DEF Preflight, RefundSafe
<1>2. ASSUME NEW r \in Requests, Recover(r) PROVE RefundSafe(q)'
  BY <1>2 DEF Recover, Goto, RefundSafe, ActorTypeOK, vars, quotaVars, holdVars
<1>3. ASSUME NEW r \in Requests, Send(r) PROVE RefundSafe(q)'
  BY <1>3 DEF Send, RefundSafe, ActorTypeOK, vars, quotaVars, holdVars
<1>4. ASSUME NEW r \in Requests, NEW o \in {"success", "rejected", "unknown"}, Return(r, o)
      PROVE  RefundSafe(q)'
  BY <1>4 DEF Return, Goto, Decide, RefundSafe, ActorTypeOK, vars, quotaVars, holdVars
<1>5. ASSUME NEW r \in Requests, Panic(r) PROVE RefundSafe(q)'
  BY <1>5 DEF Panic, Goto, Decide, RefundSafe, ActorTypeOK, vars, quotaVars, holdVars
<1>6. ASSUME NEW r \in Requests, Deliver(r) PROVE RefundSafe(q)'
  <2>1. \A b \in Actors, p \in Requests :
           pc'[b][p] = IF b = "worker" /\ p = r THEN "settling" ELSE pc[b][p]
    BY <1>6, GotoMoves DEF Deliver, Steps
  <2>2. \/ UNCHANGED outcome
        \/ Decide("worker", r, "unknown")
    BY <1>6 DEF Deliver, Decide, ActorTypeOK
  <2>3. \A b \in Actors, p \in Requests :
           \/ outcome'[b][p] = outcome[b][p]
           \/ b = "worker" /\ p = r /\ outcome'[b][p] = "unknown"
    BY <2>2, DecideMoves DEF Outcome
  <2>4. pc["worker"][r] = "deliver" /\ UNCHANGED <<reservation, upstream>>
    BY <1>6 DEF Deliver, vars, quotaVars, holdVars
  <2>5. QED
    BY <2>1, <2>3, <2>4 DEF RefundSafe
<1>7. ASSUME NEW r \in Requests, NEW a \in Actors, Record(a, r) PROVE RefundSafe(q)'
  <2>1. \A b \in Actors, p \in Requests :
           pc'[b][p] = IF b = a /\ p = r THEN "ask" ELSE pc[b][p]
    BY <1>7, GotoMoves DEF Record, Steps
  <2>2. PICK o \in {"canceled", "unknown"} : Decide(a, r, o)
    BY <1>7 DEF Record
  <2>3. \A b \in Actors, p \in Requests :
           outcome'[b][p] = IF b = a /\ p = r THEN o ELSE outcome[b][p]
    BY <2>2, DecideMoves DEF Outcome
  <2>4. pc[a][r] = "record" /\ UNCHANGED <<reservation, upstream>>
    BY <1>7 DEF Record, RequestCancel, vars, quotaVars, holdVars
  <2>5. QED
    BY <2>1, <2>3, <2>4 DEF RefundSafe
<1>8. ASSUME NEW r \in Requests, NEW a \in Actors, Ask(a, r) PROVE RefundSafe(q)'
  <2>1. PICK step \in {"deliver", "settling"} : Goto(a, r, step)
    BY <1>8 DEF Ask
  <2>2. \A b \in Actors, p \in Requests :
           pc'[b][p] = IF b = a /\ p = r THEN step ELSE pc[b][p]
    BY <2>1, GotoMoves DEF Steps
  <2>3. pc[a][r] = "ask" /\ UNCHANGED reservation
    BY <1>8 DEF Ask, vars, quotaVars, holdVars
  <2>4. CASE upstream[r] = "working" /\ upstream' = [upstream EXCEPT ![r] = "stopped"]
             /\ UNCHANGED outcome
    BY <2>2, <2>3, <2>4 DEF RefundSafe, ActorTypeOK
  <2>5. CASE Decide(a, r, "unknown") /\ UNCHANGED upstream
    <3>1. \A b \in Actors, p \in Requests :
             outcome'[b][p] = IF b = a /\ p = r THEN "unknown" ELSE outcome[b][p]
      BY <2>5, DecideMoves DEF Outcome
    <3>2. QED
      BY <2>2, <2>3, <2>5, <3>1 DEF RefundSafe
  <2>6. QED
    BY <1>8, <2>4, <2>5 DEF Ask
<1>9. ASSUME NEW r \in Requests, NEW a \in Actors, Settle(a, r) \/ Fallback(a, r)
      PROVE  RefundSafe(q)'
  BY <1>9, RefundSettles
<1>10. ASSUME NEW r \in Requests, Watch(r) \/ StopWatch(r) PROVE RefundSafe(q)'
  BY <1>10 DEF Watch, StopWatch, Goto, RefundSafe, ActorTypeOK, vars, quotaVars, holdVars
<1>11. ASSUME NEW r \in Requests, HeartbeatTask(r) \/ ClientLeaves(r) PROVE RefundSafe(q)'
  BY <1>11, QuietSteps DEF HeartbeatTask, ClientLeaves, RefundSafe, QuietFor
<1>12. ASSUME NEW r \in Requests, UpstreamEnds(r) PROVE RefundSafe(q)'
  BY <1>12 DEF UpstreamEnds, RefundSafe, ActorTypeOK, vars, quotaVars, holdVars
<1>13. CASE Crash
  BY <1>13 DEF Crash, Running, RefundSafe, ActorTypeOK, vars, quotaVars, holdVars
<1>14. CASE Stop \/ StartRecovery \/ StartValidation \/ Environment \/ UNCHANGED chatVars
  <2>1. QuietFor(q) /\ UNCHANGED <<pc, outcome, upstream>>
    BY <1>14, QuietSteps
    DEF Stop, StartRecovery, StartValidation, Environment, AdminStep, chatVars, actorVars
  <2>2. QED
    BY <2>1 DEF RefundSafe, QuietFor
<1>15. QED
  BY <1>1, <1>2, <1>3, <1>4, <1>5, <1>6, <1>7, <1>8, <1>9, <1>10, <1>11, <1>12, <1>13, <1>14
  DEF ChatNext, WorkerNext, ActorNext

\* The money of a stream is never given back for work the upstream is doing or
\* has done, whichever of worker, watch and recovery is first, whatever the store
\* refuses, and whatever the chats beside it are answered.
THEOREM ChatRefunds == ChatSpec => []NoRefundForAcceptedWork
<1> DEFINE Inv == \A r \in Streams : RefundSafe(r)
<1>0. Streams \subseteq Requests
  BY ChatConstants
<1>1. ChatInit => Inv /\ ActorTypeOK
  BY <1>0 DEF ChatInit, LeaseInit, Init, RefundSafe, ActorTypeOK, Actors, Steps, Outcome
<1>2. LeaseTypeOK /\ AllAgree /\ ActorTypeOK /\ Inv /\ [ChatNext]_chatVars => Inv'
  BY <1>0, RefundStep
<1>3. Inv => NoRefundForAcceptedWork
  BY DEF RefundSafe, NoRefundForAcceptedWork
<1> HIDE DEF Inv
<1>4. QED
  BY <1>1, <1>2, <1>3, ActorStepType, ChatKeepsLease, PTL DEF ChatSpec

-----------------------------------------------------------------------------
(* Abandoned leases. A worker comes to its end only behind a closed lease:    *)
(* the settlement it decided on goes through, or, where a recorded            *)
(* cancellation is in its way, the unknown one does.                          *)

Owned(r) ==
    /\ pc["watch"][r] # "idle" => r \in Streams
    /\ r \notin Streams =>
          /\ pc["worker"][r] \notin {"record", "ask", "deliver"}
          /\ outcome["worker"][r] # "canceled"
          /\ request[r] # "cancel_requested"
    /\ Open(r) => pc["worker"][r] \notin {"idle", "done"}

LEMMA SettleChatCloses ==
    ASSUME LeaseTypeOK, NEW r \in Requests, NEW o \in Outcome, SettleChat(r, o), NEW q \in Requests
    PROVE  /\ q = r => ~Open(q)'
           /\ Open(q)' => Open(q)
           /\ request'[q] = "cancel_requested" => request[q] = "cancel_requested"
<1>1. CASE ~Open(r) /\ UNCHANGED vars
  BY <1>1 DEF vars, leaseVars, lifeVars, quotaVars, holdVars, Open
<1>2. ASSUME NEW l \in OutcomesFor(r, o), SettleLease(r, l)
      PROVE  /\ q = r => ~Open(q)'
             /\ Open(q)' => Open(q)
             /\ request'[q] = "cancel_requested" => request[q] = "cancel_requested"
  <2>1. l \in LeaseOutcome(r) /\ CloseLease(r, l)
    BY <1>2 DEF OutcomesFor, SettleLease
  <2>2. leaseState' = [leaseState EXCEPT ![r] = l.lease]
        /\ request' = [request EXCEPT ![r] = IF l.request = "unknown" THEN "unknown" ELSE "settled"]
        /\ l.lease \in {"succeeded", "failed", "unknown"}
    BY <2>1, OutcomeType DEF CloseLease
  <2>3. QED
    BY <2>2 DEF Open, LeaseTypeOK, TypeOK
<1>3. QED
  BY <1>1, <1>2 DEF SettleChat

\* An open lease can always be closed as unknown; before any cancellation it
\* can be closed as whatever the worker decided.
LEMMA CanAlwaysClose ==
    ASSUME LeaseTypeOK, AllAgree, NEW r \in Requests, Open(r), NEW o \in Outcome,
           o = "unknown" \/ (o # "canceled" /\ request[r] # "cancel_requested")
    PROVE  \E l \in OutcomesFor(r, o) : CanClose(r, l)
<1>0. request[r] \in {"reserved", "cancel_requested"}
  BY DEF AllAgree, Agrees, Open
<1> DEFINE unknown == [lease |-> "unknown", request |-> "unknown",
                       quota |-> [kind |-> "unknown", units |-> 0]]
           success == [lease |-> "succeeded", request |-> "succeeded",
                       quota |-> [kind |-> "unmetered", units |-> 0]]
           failure == [lease |-> "failed", request |-> "failed",
                       quota |-> [kind |-> "release", units |-> 0]]
<1>1. CASE o = "unknown"
  <2>1. unknown \in OutcomesFor(r, o)
    BY <1>1 DEF OutcomesFor, LeaseOutcome, Settlement, ClosesAs
  <2>2. CanClose(r, unknown)
    BY <1>0 DEF CanClose, CanBecomeUnknown, CanTransition, RequestSuccessors
  <2>3. QED
    BY <2>1, <2>2
<1>2. CASE o = "success" /\ request[r] = "reserved"
  <2>1. success \in OutcomesFor(r, o)
    BY <1>2 DEF OutcomesFor, LeaseOutcome, Settlement, ClosesAs
  <2>2. CanClose(r, success)
    BY <1>2 DEF CanClose, CanSettleTo
  <2>3. QED
    BY <2>1, <2>2
<1>3. CASE o = "rejected" /\ request[r] = "reserved"
  <2>1. failure \in OutcomesFor(r, o)
    BY <1>3 DEF OutcomesFor, LeaseOutcome, Settlement, ClosesAs
  <2>2. CanClose(r, failure)
    BY <1>3 DEF CanClose, CanSettleTo, CanTransition, RequestSuccessors
  <2>3. QED
    BY <2>1, <2>2
<1>4. QED
  BY <1>0, <1>1, <1>2, <1>3 DEF Outcome

LEMMA OwnedSettles ==
    ASSUME ~StoreErrors, LeaseTypeOK, AllAgree, ActorTypeOK, NEW a \in Actors, NEW r \in Requests,
           Settle(a, r) \/ Fallback(a, r), NEW q \in Requests, Owned(q), Owned(r)
    PROVE  Owned(q)'
<1> USE DEF Actors
<1>1. PICK step \in {"done", "fallback"} : Goto(a, r, step)
  BY DEF Settle, Fallback
<1>2. \A b \in Actors, p \in Requests :
         pc'[b][p] = IF b = a /\ p = r THEN step ELSE pc[b][p]
  BY <1>1, GotoMoves DEF Steps
<1>3. UNCHANGED outcome /\ pc[a][r] \in {"settling", "fallback"}
  BY DEF Settle, Fallback
<1>4. ASSUME NEW o \in Outcome, SettleChat(r, o) PROVE Owned(q)'
  <2>1. /\ q = r => ~Open(q)'
        /\ Open(q)' => Open(q)
        /\ request'[q] = "cancel_requested" => request[q] = "cancel_requested"
    BY <1>4, SettleChatCloses
  <2>2. QED
    BY <1>2, <1>3, <2>1 DEF Owned
<1>5. CASE UNCHANGED vars /\ (a = "worker" /\ step = "done" => ~Open(r))
  <2>1. QuietFor(q)
    BY <1>5, QuietSteps
  <2>2. QED
    BY <1>2, <1>3, <1>5, <2>1 DEF Owned, QuietFor
<1>6. CASE Settle(a, r)
  <2>1. PICK o \in Outcome : o = outcome[a][r]
    BY DEF ActorTypeOK
  <2>2. CASE SettleChat(r, o)
    BY <1>4, <2>2
  <2>3. CASE /\ Open(r) /\ \A l \in OutcomesFor(r, o) : ~CanClose(r, l)
             /\ Goto(a, r, IF r \in Streams THEN "fallback" ELSE "done")
             /\ UNCHANGED vars
    <3>1. ~(o = "unknown" \/ (o # "canceled" /\ request[r] # "cancel_requested"))
      BY <2>3, CanAlwaysClose
    <3>2. a = "worker" => r \in Streams
      BY <2>1, <3>1 DEF Owned
    <3>3. a = "worker" => Goto(a, r, "fallback")
      BY <2>3, <3>2
    <3>4. a = "worker" => step = "fallback"
      BY <1>2, <3>3, GotoMoves DEF Steps
    <3>5. QED
      BY <1>5, <2>3, <3>4
  <2>4. QED
    BY <1>6, <2>1, <2>2, <2>3 DEF Settle, SettleChatFails
<1>7. CASE Fallback(a, r)
  <2>1. ~(Open(r) /\ \A l \in OutcomesFor(r, "unknown") : ~CanClose(r, l))
    BY CanAlwaysClose DEF Outcome
  <2>2. SettleChat(r, "unknown")
    BY <1>7, <2>1 DEF Fallback, SettleChatFails
  <2>3. QED
    BY <1>4, <2>2 DEF Outcome
<1>8. QED
  BY <1>6, <1>7

LEMMA OwnedStep ==
    ASSUME ~StoreErrors, LeaseTypeOK, AllAgree, ActorTypeOK, \A p \in Requests : Owned(p),
           NEW q \in Requests, [ChatNext]_chatVars
    PROVE  Owned(q)'
<1> USE DEF Actors
<1>0. Owned(q)
  OBVIOUS
<1>1. ASSUME NEW r \in Requests, NEW a \in UpstreamAccounts, Preflight(r, a)
      PROVE  Owned(q)'
  <2>1. \A b \in Actors, p \in Requests :
           pc'[b][p] = IF b = "worker" /\ p = r THEN "acquired" ELSE pc[b][p]
    BY <1>1, GotoMoves DEF Preflight, Steps
  <2>2. AcquireLease(r, a) /\ UNCHANGED outcome
    BY <1>1 DEF Preflight
  <2>3. CASE r = q
    BY <1>0, <2>1, <2>2, <2>3 DEF Owned, AcquireLease, LeaseTypeOK, TypeOK
  <2>4. CASE r # q
    BY <1>0, <2>1, <2>2, <2>4, QuietSteps DEF Owned, QuietFor
  <2>5. QED
    BY <2>3, <2>4
<1>2. ASSUME NEW r \in Requests, Recover(r) PROVE Owned(q)'
  <2>1. QuietFor(q) /\ UNCHANGED outcome
    BY <1>2, QuietSteps DEF Recover
  <2>2. QED
    BY <1>0, <1>2, <2>1 DEF Recover, Goto, Owned, QuietFor, ActorTypeOK
<1>3. ASSUME NEW r \in Requests, NEW o \in {"success", "rejected", "unknown"}, Return(r, o) \/ Panic(r)
      PROVE  Owned(q)'
  <2>1. QuietFor(q)
    BY <1>3, QuietSteps DEF Return, Panic
  <2>2. QED
    BY <1>0, <1>3, <2>1 DEF Return, Panic, Goto, Decide, Owned, QuietFor, ActorTypeOK
<1>4. ASSUME NEW r \in Requests, Deliver(r) PROVE Owned(q)'
  <2>1. \A b \in Actors, p \in Requests :
           pc'[b][p] = IF b = "worker" /\ p = r THEN "settling" ELSE pc[b][p]
    BY <1>4, GotoMoves DEF Deliver, Steps
  <2>2. QuietFor(q) /\ r \in Streams
    BY <1>4, QuietSteps DEF Deliver, Owned
  <2>3. q # r => outcome'["worker"][q] = outcome["worker"][q]
    BY <1>4 DEF Deliver, Decide, ActorTypeOK
  <2>4. QED
    BY <1>0, <2>1, <2>2, <2>3 DEF Owned, QuietFor
<1>5. ASSUME NEW r \in Requests, NEW a \in Actors, Record(a, r) PROVE Owned(q)'
  <2>1. \A b \in Actors, p \in Requests :
           pc'[b][p] = IF b = a /\ p = r THEN "ask" ELSE pc[b][p]
    BY <1>5, GotoMoves DEF Record, Steps
  <2>2. r \in Streams /\ pc[a][r] = "record"
    BY <1>5 DEF Record, Owned
  <2>3. UNCHANGED leaseState
    BY <1>5 DEF Record, RequestCancel, vars, leaseVars, lifeVars
  <2>4. q # r => outcome'["worker"][q] = outcome["worker"][q] /\ request'[q] = request[q]
    BY <1>5 DEF Record, Decide, RequestCancel, ActorTypeOK, LeaseTypeOK, TypeOK, vars, quotaVars,
         holdVars
  <2>5. QED
    BY <1>0, <2>1, <2>2, <2>3, <2>4 DEF Owned, Open
<1>6. ASSUME NEW r \in Requests, NEW a \in Actors, Ask(a, r) PROVE Owned(q)'
  <2>1. PICK step \in {"deliver", "settling"} : Goto(a, r, step)
    BY <1>6 DEF Ask
  <2>2. \A b \in Actors, p \in Requests :
           pc'[b][p] = IF b = a /\ p = r THEN step ELSE pc[b][p]
    BY <2>1, GotoMoves DEF Steps
  <2>3. r \in Streams /\ pc[a][r] = "ask" /\ QuietFor(q)
    BY <1>6, QuietSteps DEF Ask, Owned
  <2>4. q # r => outcome'["worker"][q] = outcome["worker"][q]
    BY <1>6 DEF Ask, Decide, ActorTypeOK
  <2>5. QED
    BY <1>0, <2>2, <2>3, <2>4 DEF Owned, QuietFor
<1>7. ASSUME NEW r \in Requests, NEW a \in Actors, Settle(a, r) \/ Fallback(a, r)
      PROVE  Owned(q)'
  BY <1>0, <1>7, OwnedSettles
<1>8. ASSUME NEW r \in Requests, Watch(r) \/ StopWatch(r) PROVE Owned(q)'
  <2>1. QuietFor(q) /\ UNCHANGED outcome
    BY <1>8, QuietSteps DEF Watch, StopWatch
  <2>2. QED
    BY <1>0, <1>8, <2>1 DEF Watch, StopWatch, Goto, Owned, QuietFor, ActorTypeOK
<1>9. ASSUME NEW r \in Requests, HeartbeatTask(r) \/ ClientLeaves(r) \/ Send(r) \/ UpstreamEnds(r)
      PROVE  Owned(q)'
  <2>1. QuietFor(q) /\ UNCHANGED <<pc, outcome>>
    BY <1>9, QuietSteps DEF HeartbeatTask, ClientLeaves, Send, UpstreamEnds
  <2>2. QED
    BY <1>0, <2>1 DEF Owned, QuietFor
<1>10. CASE Crash
  <2>1. QuietFor(q) /\ UNCHANGED outcome
    BY <1>10, QuietSteps DEF Crash
  <2>2. QED
    BY <1>0, <1>10, <2>1 DEF Crash, Running, Owned, QuietFor, ActorTypeOK
<1>11. CASE Stop \/ StartRecovery \/ StartValidation \/ Environment \/ UNCHANGED chatVars
  <2>1. QuietFor(q) /\ UNCHANGED <<pc, outcome>>
    BY <1>11, QuietSteps
    DEF Stop, StartRecovery, StartValidation, Environment, AdminStep, chatVars, actorVars
  <2>2. QED
    BY <1>0, <2>1 DEF Owned, QuietFor
<1>12. QED
  BY <1>1, <1>2, <1>3, <1>4, <1>5, <1>6, <1>7, <1>8, <1>9, <1>10, <1>11
  DEF ChatNext, WorkerNext, ActorNext

\* While the store answers, a worker that has ended has left no open lease
\* behind. An error of the store may strand one until its expiry.
THEOREM ChatClosesLeases ==
    ASSUME ~StoreErrors
    PROVE  ChatSpec => []NoAbandonedLease
<1> DEFINE Inv == \A r \in Requests : Owned(r)
<1>1. ChatInit => Inv /\ ActorTypeOK
  BY DEF ChatInit, LeaseInit, Init, Owned, Open, ActorTypeOK, Actors, Steps, Outcome
<1>2. LeaseTypeOK /\ AllAgree /\ ActorTypeOK /\ Inv /\ [ChatNext]_chatVars => Inv'
  BY OwnedStep
<1>3. Inv => NoAbandonedLease
  BY DEF Owned, NoAbandonedLease
<1> HIDE DEF Inv
<1>4. QED
  BY <1>1, <1>2, <1>3, ActorStepType, ChatKeepsLease, PTL DEF ChatSpec
=============================================================================
