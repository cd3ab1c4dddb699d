----------------------------- MODULE ChatStream -----------------------------
(***************************************************************************)
(* The actors behind one chat request of the enforcing gateway, on top of   *)
(* the upstream lease. A stream has a blocking worker that calls the        *)
(* upstream adapter, a heartbeat task, and a cancel watch that settles the   *)
(* lease on its own when the client goes away; both settle through the same  *)
(* helper, and only the lease decides which of them was first. A chat that   *)
(* is not streamed has a worker only.                                        *)
(*                                                                         *)
(* What the upstream does with the call is a variable no program can read:   *)
(* the adapter's answers are related to it, and so is what may be refunded.  *)
(***************************************************************************)
EXTENDS UpstreamLease

CONSTANTS
    Streams,          \* the requests that ask for a stream
    CancelConfirms,   \* the stream adapter can stop accepted work and say so
    StoreErrors,      \* calls of the store may fail with no effect
    Crashes,          \* the process may die and be started again
    Upkeep            \* keys and accounts come and go while requests run

ASSUME ChatConstants ==
    /\ Streams \subseteq Requests
    /\ {CancelConfirms, StoreErrors, Crashes, Upkeep} \subseteq BOOLEAN

VARIABLES
    service,    \* the gateway: "up", "stopped", or "starting" between its two checks
    pc,         \* where the worker and the cancel watch of a request are
    outcome,    \* the StreamTerminalOutcome each of them is going to settle
    cancelled,  \* the flag cancel_requested (heartbeat_failed implies it)
    closed,     \* the flag client_closed
    gone,       \* the client has dropped its end of the channel
    upstream    \* what became of the call at the upstream

actorVars == <<service, pc, outcome, cancelled, closed, gone, upstream>>
chatVars  == <<vars, actorVars>>

Actors == {"worker", "watch"}

Outcome == {"success", "rejected", "canceled", "unknown"}

\* Steps of one run of core_stream_chat; "dead" is an actor lost in a crash.
Steps == {"idle", "acquired", "executing", "watching", "record", "ask", "deliver",
          "settling", "fallback", "done", "dead"}

Running(a, r) == pc[a][r] \notin {"idle", "done", "dead"}

Goto(a, r, step) == pc' = [pc EXCEPT ![a][r] = step]

Decide(a, r, o) == outcome' = [outcome EXCEPT ![a][r] = o]

ChatInit ==
    /\ LeaseInit
    /\ service = "up"
    /\ pc = [a \in Actors |-> [r \in Requests |-> "idle"]]
    /\ outcome = [a \in Actors |-> [r \in Requests |-> "unknown"]]
    /\ cancelled = [r \in Requests |-> FALSE]
    /\ closed = [r \in Requests |-> FALSE]
    /\ gone = [r \in Requests |-> FALSE]
    /\ upstream = [r \in Requests |-> "idle"]

\* StreamTerminalOutcome::lease_outcome
ClosesAs == [success |-> "succeeded", rejected |-> "failed",
             canceled |-> "canceled", unknown |-> "unknown"]

OutcomesFor(r, o) == {l \in LeaseOutcome(r) : l.request = ClosesAs[o]}

\* settle_chat_lease: applied, not applied because the lease is closed already,
\* or an error that changes nothing.
SettleChat(r, o) ==
    \/ \E l \in OutcomesFor(r, o) : SettleLease(r, l)
    \/ ~Open(r) /\ UNCHANGED vars

SettleChatFails(r, o) ==
    \/ StoreErrors
    \/ Open(r) /\ \A l \in OutcomesFor(r, o) : ~CanClose(r, l)

-----------------------------------------------------------------------------
(* Faulty variants of the steps below.                                     *)

\* A recorded intention to cancel is taken for a confirmed one.
FaultyAsk(a, r) ==
    /\ pc[a][r] = "ask"
    /\ Goto(a, r, IF a = "worker" THEN "deliver" ELSE "settling")
    /\ UNCHANGED <<vars, service, outcome, cancelled, closed, gone, upstream>>

\* The intention to cancel is written without looking at the lease.
FaultyRecord(a, r) ==
    /\ pc[a][r] = "record"
    /\ request' = [request EXCEPT ![r] = "cancel_requested"]
    /\ Decide(a, r, "canceled")
    /\ Goto(a, r, "ask")
    /\ UNCHANGED <<adminVars, available, reservation, heldOn, ledger, leaseVars,
                   service, cancelled, closed, gone, upstream>>

\* An error of the settlement is ignored.
FaultySettle(a, r) ==
    /\ pc[a][r] = "settling"
    /\ \/ SettleChat(r, outcome[a][r])
       \/ SettleChatFails(r, outcome[a][r]) /\ UNCHANGED vars
    /\ Goto(a, r, "done")
    /\ UNCHANGED <<service, outcome, cancelled, closed, gone, upstream>>

\* The watch waits for the flag and does not look at the channel.
FaultyWatch(r) ==
    /\ pc["watch"][r] = "watching"
    /\ cancelled[r]
    /\ Goto("watch", r, "record")
    /\ UNCHANGED <<vars, service, outcome, cancelled, closed, gone, upstream>>

-----------------------------------------------------------------------------
(* The worker.                                                             *)

\* preflight_chat_with_lease_for_accounts takes the lease ...
Preflight(r, a) ==
    /\ service = "up"
    /\ AcquireLease(r, a)
    /\ Goto("worker", r, "acquired")
    /\ UNCHANGED <<service, outcome, cancelled, closed, gone, upstream>>

\* ... and reads the request again in a second transaction, which refuses a key
\* that has been disabled since: the lease just taken is then settled unknown, once.
Recover(r) ==
    /\ pc["worker"][r] = "acquired"
    /\ \/ /\ keyActive[KeyOf[r]]
          /\ pc' = [pc EXCEPT !["worker"][r] = "executing",
                              !["watch"][r] = IF r \in Streams THEN "watching" ELSE @]
       \/ /\ StoreErrors \/ ~keyActive[KeyOf[r]]
          /\ Goto("worker", r, "fallback")
    /\ UNCHANGED <<vars, service, outcome, cancelled, closed, gone, upstream>>

\* The adapter's call reaches the upstream; whatever happened to the lease or
\* the client in the meantime is not looked at again.
Send(r) ==
    /\ pc["worker"][r] = "executing"
    /\ upstream[r] = "idle"
    /\ upstream' = [upstream EXCEPT ![r] = "working"]
    /\ UNCHANGED <<vars, service, pc, outcome, cancelled, closed, gone>>

\* execute_stream returns. Success needs the upstream's end mark, Rejected a 4xx
\* before any output or a request that was never sent; everything else, timeouts,
\* broken streams, a closed sink and a noticed cancellation, is TransportUnknown.
\* A chat that is not streamed is Rejected by every HTTP error but 502, also by a
\* 500, 503 or 504 that says nothing about what the upstream has taken on.
Return(r, o) ==
    /\ pc["worker"][r] = "executing"
    /\ o = "success" => upstream[r] = "finished"
    /\ o = "rejected" /\ r \in Streams => upstream[r] \in {"idle", "refused"}
    /\ Decide("worker", r, o)
    /\ Goto("worker", r, IF r \notin Streams THEN "settling"
                         ELSE IF cancelled[r] \/ closed[r] THEN "record" ELSE "deliver")
    /\ UNCHANGED <<vars, service, cancelled, closed, gone, upstream>>

\* A panic in the adapter. The task that joins a stream's worker settles the
\* lease as unknown; nobody joins the handler of a chat that is not streamed.
Panic(r) ==
    /\ pc["worker"][r] = "executing"
    /\ Decide("worker", r, "unknown")
    /\ Goto("worker", r, IF r \in Streams THEN "settling" ELSE "dead")
    /\ UNCHANGED <<vars, service, cancelled, closed, gone, upstream>>

\* emit_terminal, which blocks until the client reads, and what follows it.
Deliver(r) ==
    /\ pc["worker"][r] = "deliver"
    /\ Goto("worker", r, "settling")
    /\ \/ /\ closed[r]
          /\ Decide("worker", r, IF outcome["worker"][r] \in {"success", "rejected"}
                                 THEN "unknown" ELSE outcome["worker"][r])
          /\ UNCHANGED <<cancelled, closed>>
       \/ /\ ~closed[r] /\ gone[r]
          /\ Decide("worker", r, "unknown")
          /\ cancelled' = [cancelled EXCEPT ![r] = TRUE]
          /\ closed' = [closed EXCEPT ![r] = TRUE]
       \/ /\ ~closed[r] /\ ~gone[r]
          /\ UNCHANGED <<outcome, cancelled, closed>>
    /\ UNCHANGED <<vars, service, gone, upstream>>

-----------------------------------------------------------------------------
(* Steps of the worker and of the watch: cancellation_outcome and           *)
(* settle_stream_outcome.                                                  *)

\* request_upstream_cancel records the intention once, on an open lease; where
\* there is nothing to record it succeeds all the same.
Record(a, r) ==
    /\ pc[a][r] = "record"
    /\ Goto(a, r, "ask")
    /\ \/ /\ RequestCancel(r) \/ (~(Open(r) /\ request[r] # "cancel_requested") /\ UNCHANGED vars)
          /\ Decide(a, r, "canceled")
       \/ /\ StoreErrors
          /\ Decide(a, r, "unknown")
          /\ UNCHANGED vars
    /\ UNCHANGED <<service, cancelled, closed, gone, upstream>>

\* CoreUpstreamExecutor::cancel_stream. Confirmed means that the work the
\* upstream had accepted was stopped.
Ask(a, r) ==
    /\ pc[a][r] = "ask"
    /\ Goto(a, r, IF a = "worker" THEN "deliver" ELSE "settling")
    /\ \/ /\ CancelConfirms
          /\ upstream[r] = "working"
          /\ upstream' = [upstream EXCEPT ![r] = "stopped"]
          /\ UNCHANGED outcome
       \/ /\ Decide(a, r, "unknown")
          /\ UNCHANGED upstream
    /\ UNCHANGED <<vars, service, cancelled, closed, gone>>

\* settle_stream_outcome: an error is followed by one attempt to settle unknown.
\* settle_core_lease_outcome, for a chat that is not streamed, gives up.
Settle(a, r) ==
    /\ pc[a][r] = "settling"
    /\ \/ SettleChat(r, outcome[a][r]) /\ Goto(a, r, "done")
       \/ /\ SettleChatFails(r, outcome[a][r])
          /\ Goto(a, r, IF r \in Streams THEN "fallback" ELSE "done")
          /\ UNCHANGED vars
    /\ UNCHANGED <<service, outcome, cancelled, closed, gone, upstream>>

Fallback(a, r) ==
    /\ pc[a][r] = "fallback"
    /\ SettleChat(r, "unknown") \/ (SettleChatFails(r, "unknown") /\ UNCHANGED vars)
    /\ Goto(a, r, "done")
    /\ UNCHANGED <<service, outcome, cancelled, closed, gone, upstream>>

-----------------------------------------------------------------------------
(* The watch, the heartbeat, the client, the upstream and the process.     *)

\* spawn_cancel_watch
Watch(r) ==
    /\ pc["watch"][r] = "watching"
    /\ gone[r] \/ cancelled[r]
    /\ closed' = [closed EXCEPT ![r] = @ \/ gone[r]]
    /\ cancelled' = [cancelled EXCEPT ![r] = TRUE]
    /\ Goto("watch", r, "record")
    /\ UNCHANGED <<vars, service, outcome, gone, upstream>>

\* Once the worker has ended the watch is aborted, unless its blocking part runs.
StopWatch(r) ==
    /\ pc["worker"][r] = "done"
    /\ pc["watch"][r] = "watching"
    /\ Goto("watch", r, "done")
    /\ UNCHANGED <<vars, service, outcome, cancelled, closed, gone, upstream>>

\* spawn_heartbeat: an error stops it and asks for the cancellation.
HeartbeatTask(r) ==
    /\ r \in Streams
    /\ Running("worker", r) /\ pc["worker"][r] # "acquired"
    /\ \/ Heartbeat(r) /\ UNCHANGED cancelled
       \/ StoreErrors /\ cancelled' = [cancelled EXCEPT ![r] = TRUE] /\ UNCHANGED vars
    /\ UNCHANGED <<service, pc, outcome, closed, gone, upstream>>

ClientLeaves(r) ==
    /\ pc["watch"][r] # "idle"
    /\ gone' = [gone EXCEPT ![r] = TRUE]
    /\ UNCHANGED <<vars, service, pc, outcome, cancelled, closed, upstream>>

UpstreamEnds(r) ==
    /\ upstream[r] = "working"
    /\ \E end \in {"finished", "refused"} : upstream' = [upstream EXCEPT ![r] = end]
    /\ UNCHANGED <<vars, service, pc, outcome, cancelled, closed, gone>>

\* The gateway is stopped from its window, with its blocking threads running
\* on, or the process dies with all of them.
Stop ==
    /\ service = "up"
    /\ service' = "stopped"
    /\ UNCHANGED <<vars, pc, outcome, cancelled, closed, gone, upstream>>

Crash ==
    /\ Crashes
    /\ service' = "stopped"
    /\ pc' = [a \in Actors |-> [r \in Requests |-> IF Running(a, r) THEN "dead" ELSE pc[a][r]]]
    /\ UNCHANGED <<vars, outcome, cancelled, closed, gone, upstream>>

\* SchedulerRuntime::new recovers the expired leases and then validates the
\* event groups, before the listener is started.
StartRecovery ==
    /\ service = "stopped"
    /\ IF Expired = {} THEN UNCHANGED vars ELSE RecoverExpired
    /\ service' = "starting"
    /\ UNCHANGED <<pc, outcome, cancelled, closed, gone, upstream>>

StartValidation ==
    /\ service = "starting"
    /\ ReconcileEventGroups
    /\ service' = "up"
    /\ UNCHANGED <<leaseVars, pc, outcome, cancelled, closed, gone, upstream>>

\* Administration, account health and time go on around the actors.
Environment ==
    /\ \/ \E k \in Keys, n \in Grants : GrantKey(k, n) /\ UNCHANGED leaseVars
       \/ Upkeep /\ \E k \in Keys, enabled \in BOOLEAN :
                       UpdateKey(k, enabled, keyLimit[k]) /\ UNCHANGED leaseVars
       \/ Upkeep /\ \E accts \in SUBSET UpstreamAccounts : SetSelectable(accts)
       \/ Tick
    /\ UNCHANGED actorVars

WorkerNext(r) ==
    \/ \E a \in UpstreamAccounts : Preflight(r, a)
    \/ Recover(r)
    \/ Send(r)
    \/ \E o \in {"success", "rejected", "unknown"} : Return(r, o)
    \/ Panic(r)
    \/ Deliver(r)

ActorNext(a, r) == Record(a, r) \/ Ask(a, r) \/ Settle(a, r) \/ Fallback(a, r)

ChatNext ==
    \/ \E r \in Requests :
        \/ WorkerNext(r)
        \/ \E a \in Actors : ActorNext(a, r)
        \/ Watch(r) \/ StopWatch(r) \/ HeartbeatTask(r) \/ ClientLeaves(r) \/ UpstreamEnds(r)
    \/ Stop \/ Crash \/ StartRecovery \/ StartValidation
    \/ Environment

ChatSpec == ChatInit /\ [][ChatNext]_chatVars

\* The watch of a stream is scheduled: its timer fires every 50 ms, and a
\* thread of the blocking pool runs what it starts. Nothing is assumed of the
\* worker, whose adapter may never return, of the client or of the upstream.
FairChatSpec ==
    /\ ChatSpec
    /\ \A r \in Requests : WF_chatVars(Watch(r) \/ ActorNext("watch", r))

-----------------------------------------------------------------------------
(* Properties.                                                             *)

\* Every variable has its type.
ChatTypeOK ==
    /\ LeaseTypeOK
    /\ service \in {"up", "stopped", "starting"}
    /\ pc \in [Actors -> [Requests -> Steps]]
    /\ outcome \in [Actors -> [Requests -> Outcome]]
    /\ {cancelled, closed, gone} \subseteq [Requests -> BOOLEAN]
    /\ upstream \in [Requests -> {"idle", "working", "finished", "refused", "stopped"}]

\* A stream's money is never given back for work the upstream is doing or has
\* done, whichever of worker, watch and recovery is first to settle ("never
\* release the reservation in the disconnect path" unless the cancellation is
\* confirmed). Of a chat that is not streamed it is not true: a server error,
\* whatever the upstream did, releases its money (Return).
NoRefundForAcceptedWork ==
    \A r \in Streams : reservation[r] = "released" => upstream[r] \notin {"working", "finished"}

\* A worker that runs to its end leaves no open lease behind, although the watch
\* may have recorded a cancellation that its own settlement cannot follow any
\* more (settle_stream_outcome falls back to an unknown outcome).
NoAbandonedLease ==
    \A r \in Requests : Open(r) => pc["worker"][r] \notin {"idle", "done"}

\* The actors and the process use the lease as its own specification allows:
\* everything that is proved or checked of UpstreamLease holds of them.
ImplementsLease == LeaseSpec

\* The lease of a stream whose client has gone is closed, even if the adapter
\* never returns: the watch does it, unless it dies with the process.
ClosedStreamSettles ==
    \A r \in Requests : gone[r] ~> (~Open(r) \/ pc["watch"][r] = "dead" \/ pc["worker"][r] = "dead")
=============================================================================
