---------------------------- MODULE UpstreamLease ----------------------------
(***************************************************************************)
(* The upstream scheduler of aiwork-core on top of the budget ledger: one   *)
(* transaction reserves the money and leases a slot of an upstream account, *)
(* and from then on one lease, one request and one reservation end          *)
(* together. An outcome nobody knows keeps money and slot until it is        *)
(* reconciled with evidence inside the lease's window.                      *)
(*                                                                         *)
(* Requests here come through preflight_reserve_with_lease only. Time is a  *)
(* small integer; what makes an account selectable besides its free slots   *)
(* (health, cooldown, a fresh observation with enough units) is one flag.   *)
(***************************************************************************)
EXTENDS CoreQuota

CONSTANTS
    UpstreamAccounts,
    MaxConcurrency,   \* [UpstreamAccounts -> Nat]: upstream_accounts.max_concurrency
    LeaseTtl,         \* SchedulerLeaseRequest.lease_ttl_ms, 15 minutes
    ReconcileTtl,     \* SchedulerLeaseRequest.reconcile_ttl_ms, 10 minutes
    MaxTime           \* bound: the last instant of the clock

NoAccount == "no account"

ASSUME LeaseConstants ==
    /\ MaxConcurrency \in [UpstreamAccounts -> Nat]
    /\ LeaseTtl \in Nat \ {0}
    /\ ReconcileTtl \in Nat \ {0}
    /\ MaxTime \in Nat
    /\ NoAccount \notin UpstreamAccounts

VARIABLES
    now,
    selectable,       \* accounts enabled, available, not cooling and freshly observed
    leaseState,       \* upstream_leases.state of the request's lease, or "none"
    leaseAccount,     \* upstream_leases.account_ref
    leaseExpires,     \* lease_expires_at_ms
    reconcileUntil    \* reconcile_until_ms; 0 where it is NULL

lifeVars  == <<leaseState, leaseAccount, leaseExpires, reconcileUntil>>
leaseVars == <<now, selectable, lifeVars>>
vars      == <<quotaVars, leaseVars>>

LeaseState == {"held", "active", "succeeded", "failed", "unknown"}

Open(r) == leaseState[r] \in {"held", "active"}

OnSlot(a) == {r \in Requests : leaseAccount[r] = a /\ leaseState[r] \in {"held", "active", "unknown"}}

LeaseInit ==
    /\ Init
    /\ now = 0
    /\ selectable \in SUBSET UpstreamAccounts
    /\ leaseState = [r \in Requests |-> "none"]
    /\ leaseAccount = [r \in Requests |-> NoAccount]
    /\ leaseExpires = [r \in Requests |-> 0]
    /\ reconcileUntil = [r \in Requests |-> 0]

-----------------------------------------------------------------------------
(* Operations of the store, one transaction each.                          *)

\* preflight_reserve_with_lease for a request that does not exist yet; it does
\* not look at the key's concurrency limit. select_upstream_candidate ranks by
\* observed units, so any selectable account with a free slot may be the first.
AcquireLease(r, a) ==
    /\ keyActive[KeyOf[r]]
    /\ request[r] = "absent"
    /\ a \in selectable
    /\ Cardinality(OnSlot(a)) < MaxConcurrency[a]
    /\ ReserveDual(r)
    /\ request' = [request EXCEPT ![r] = "reserved"]
    /\ leaseState' = [leaseState EXCEPT ![r] = "held"]
    /\ leaseAccount' = [leaseAccount EXCEPT ![r] = a]
    /\ leaseExpires' = [leaseExpires EXCEPT ![r] = now + LeaseTtl]
    /\ reconcileUntil' = [reconcileUntil EXCEPT ![r] = now + ReconcileTtl]
    /\ UNCHANGED <<adminVars, now, selectable>>

\* heartbeat_upstream_lease: extends an open lease, expired or not, but never
\* its reconciliation window.
Heartbeat(r) ==
    /\ Open(r)
    /\ leaseState' = [leaseState EXCEPT ![r] = "active"]
    /\ leaseExpires' = [leaseExpires EXCEPT ![r] = now + LeaseTtl]
    /\ UNCHANGED <<quotaVars, now, selectable, leaseAccount, reconcileUntil>>

\* request_upstream_cancel records the intent, once.
RequestCancel(r) ==
    /\ Open(r)
    /\ CanTransition(request[r], "cancel_requested")
    /\ request' = [request EXCEPT ![r] = "cancel_requested"]
    /\ UNCHANGED <<adminVars, available, reservation, heldOn, ledger, leaseVars>>

\* What a LeaseOutcome does to the three rows: Success with or without the
\* actual units, Rejected (not accepted), Canceled, and the two outcomes that
\* leave everything unknown (TransportUnknown, Rejected but accepted).
LeaseOutcome(r) ==
    [lease : {"succeeded"}, request : {"succeeded"},
     quota : {s \in Settlement(r) : s.kind \in {"commit", "unmetered"}}]
    \cup [lease : {"failed"}, request : {"failed", "canceled"},
          quota : {s \in Settlement(r) : s.kind = "release"}]
    \cup [lease : {"unknown"}, request : {"unknown"},
          quota : {s \in Settlement(r) : s.kind = "unknown"}]

CanBecomeUnknown(r) == request[r] = "unknown" \/ CanTransition(request[r], "unknown")

\* The request can follow the lease; otherwise the transaction is rolled back.
CanClose(r, o) ==
    IF o.request = "unknown" THEN CanBecomeUnknown(r) ELSE CanSettleTo(request[r], o.request)

CloseLease(r, o) ==
    /\ CanClose(r, o)
    /\ request' = [request EXCEPT ![r] = IF o.request = "unknown" THEN "unknown" ELSE "settled"]
    /\ ApplySettlement(r, o.quota)
    /\ leaseState' = [leaseState EXCEPT ![r] = o.lease]
    /\ reconcileUntil' = [reconcileUntil EXCEPT ![r] = IF o.lease = "unknown" THEN @ ELSE 0]
    /\ UNCHANGED <<leaseAccount, leaseExpires>>

\* settle_upstream_lease_with_status; on a lease that is not open it reports
\* "not applied" and changes nothing.
SettleLease(r, o) ==
    /\ Open(r)
    /\ CloseLease(r, o)
    /\ UNCHANGED <<adminVars, now, selectable>>

\* reconcile_unknown_upstream_lease
ReconcileLease(r, o) ==
    /\ leaseState[r] = "unknown"
    /\ o.lease # "unknown"
    /\ now <= reconcileUntil[r]
    /\ CloseLease(r, o)
    /\ UNCHANGED <<adminVars, now, selectable>>

\* recover_expired_upstream_leases: all expired leases in one transaction.
Expired == {r \in Requests : Open(r) /\ leaseExpires[r] <= now}

\* A faulty variant: the recovery forgets the reservations.
FaultyRecoverExpired ==
    LET unknown(f) == [r \in Requests |-> IF r \in Expired THEN "unknown" ELSE f[r]]
    IN  /\ Expired # {}
        /\ request' = unknown(request)
        /\ leaseState' = unknown(leaseState)
        /\ UNCHANGED <<adminVars, available, heldOn, ledger, now, selectable, reservation,
                       leaseAccount, leaseExpires, reconcileUntil>>

RecoverExpired ==
    LET unknown(f) == [r \in Requests |-> IF r \in Expired THEN "unknown" ELSE f[r]]
    IN  /\ Expired # {}
        /\ \A r \in Expired : CanBecomeUnknown(r)
        /\ reservation' = unknown(reservation)
        /\ request' = unknown(request)
        /\ leaseState' = unknown(leaseState)
        /\ reconcileUntil' =
             [r \in Requests |-> IF r \in Expired THEN now + ReconcileTtl ELSE reconcileUntil[r]]
        /\ UNCHANGED <<adminVars, available, heldOn, ledger, now, selectable,
                       leaseAccount, leaseExpires>>

\* The account's health, its cooldown and its observations.
SetSelectable(accts) ==
    /\ selectable' = accts
    /\ UNCHANGED <<quotaVars, now, lifeVars>>

Tick ==
    /\ now < MaxTime
    /\ now' = now + 1
    /\ UNCHANGED <<quotaVars, selectable, lifeVars>>

\* Operations of CoreQuota that meet a lease: keys are granted money, enabled
\* and disabled, and the startup check may quarantine their accounts.
AdminStep ==
    /\ \/ \E k \in Keys, n \in Grants : GrantKey(k, n)
       \/ \E k \in Keys, enabled \in BOOLEAN : UpdateKey(k, enabled, keyLimit[k])
       \/ ReconcileEventGroups
    /\ UNCHANGED leaseVars

OwnerNext ==
    \E r \in Requests :
        \/ \E a \in UpstreamAccounts : AcquireLease(r, a)
        \/ Heartbeat(r)
        \/ RequestCancel(r)
        \/ \E o \in LeaseOutcome(r) : SettleLease(r, o) \/ ReconcileLease(r, o)

LeaseNext ==
    \/ OwnerNext
    \/ RecoverExpired
    \/ \E accts \in SUBSET UpstreamAccounts : SetSelectable(accts)
    \/ Tick
    \/ AdminStep

LeaseSpec == LeaseInit /\ [][LeaseNext]_vars

-----------------------------------------------------------------------------
(* Properties.                                                             *)

\* Every variable has its type.
LeaseTypeOK ==
    /\ TypeOK
    /\ now \in Nat
    /\ selectable \subseteq UpstreamAccounts
    /\ leaseState \in [Requests -> LeaseState \cup {"none"}]
    /\ leaseAccount \in [Requests -> UpstreamAccounts \cup {NoAccount}]
    /\ leaseExpires \in [Requests -> Nat]
    /\ reconcileUntil \in [Requests -> Nat]

\* The lease, the request and the reservation tell one story, whatever order
\* heartbeats, cancels, settlements and the recovery of expired leases come in,
\* and whichever of them the store refuses: in particular a lease that may have
\* cost something never stands beside money that was given back, and nothing is
\* settled while the lease is open.
LeaseAgreesWithHold ==
    \A r \in Requests :
        CASE leaseState[r] = "none"      -> reservation[r] = "none" /\ request[r] = "absent"
          [] Open(r)                     -> reservation[r] = "held" /\ request[r] \in {"reserved", "cancel_requested"}
          [] leaseState[r] = "unknown"   -> reservation[r] = "unknown" /\ request[r] = "unknown"
          [] leaseState[r] = "failed"    -> reservation[r] = "released" /\ request[r] = "settled"
          [] leaseState[r] = "succeeded" -> reservation[r] \in {"committed", "unknown"} /\ request[r] = "settled"

\* An upstream account never has more leases that may be running on it than
\* its slots: an unknown lease keeps its slot (select_upstream_candidate).
SlotsWithinLimit ==
    \A a \in UpstreamAccounts : Cardinality(OnSlot(a)) <= MaxConcurrency[a]
=============================================================================
