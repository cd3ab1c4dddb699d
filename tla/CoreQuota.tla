------------------------------ MODULE CoreQuota ------------------------------
(***************************************************************************)
(* The budget ledger of aiwork-core: API keys, the two budget accounts a   *)
(* request is charged against (its key's account and, where one exists,    *)
(* its user's cap account), the reservation that holds the amount while    *)
(* the request runs, and the settlement that returns or commits it.        *)
(*                                                                         *)
(* Every operation of the store runs in one IMMEDIATE SQLite transaction   *)
(* behind one mutex, so it is one atomic step here; an error rolls the     *)
(* whole transaction back, so a failed guard leaves the state unchanged.   *)
(* One resource kind is modelled; a request stands for one idempotency key *)
(* of its API key, so repeating it finds the request already there.        *)
(***************************************************************************)
EXTENDS Integers, FiniteSets, FiniteSetsExt

CONSTANTS
    Keys,         \* API keys
    Users,        \* owners of keys; also the names of the user_cap accounts
    UserOf,       \* [Keys -> Users]
    Requests,     \* logical requests, one per idempotency key
    KeyOf,        \* [Requests -> Keys]
    Amount,       \* [Requests -> positive integer], the amount reserved
    Limits,       \* the concurrency limits an administrator may set on a key
    MaxGranted    \* bound: what one account may be granted in total

Accounts == Keys \cup Users

ASSUME QuotaConstants ==
    /\ UserOf \in [Keys -> Users]
    /\ KeyOf \in [Requests -> Keys]
    /\ Amount \in [Requests -> Nat \ {0}]
    /\ Keys \cap Users = {}
    /\ Limits \subseteq Nat \ {0}
    /\ MaxGranted \in Nat

VARIABLES
    keyActive,    \* api_keys.status = 'active'
    keyLimit,     \* api_keys.max_concurrency
    version,      \* quota_budget_accounts.version; 0 where there is no account row
    migration,    \* quota_budget_accounts.migration_state
    granted,      \* sum of the 'adjust' rows of quota_ledger, per account
    available,    \* running sum of all rows of quota_ledger, per account
    request,      \* requests.state, or "absent"
    reservation,  \* quota_reservations.state, or "none"
    heldOn,       \* the reservation's key_budget_account_id and user_cap_account_id
    ledger        \* the rows of quota_ledger in the reservation's event group

keyVars   == <<keyActive, keyLimit>>
adminVars == <<keyActive, keyLimit, version, migration, granted>>
holdVars  == <<available, request, reservation, heldOn, ledger>>
quotaVars == <<adminVars, holdVars>>

-----------------------------------------------------------------------------
(* The request life cycle.                                                 *)

RequestState ==
    {"received", "validating", "reserved", "queued", "dispatched", "completing",
     "cancel_requested", "canceled", "succeeded", "failed", "unknown", "settled"}

ReservationState == {"held", "released", "committed", "unknown"}

MigrationState == {"ready", "reconcile_required"}

RequestSuccessors ==
    [received         |-> {"validating"},
     validating       |-> {"reserved", "failed", "unknown"},
     reserved         |-> {"queued", "failed", "unknown", "cancel_requested"},
     queued           |-> {"dispatched", "failed", "unknown", "cancel_requested"},
     dispatched       |-> {"completing", "failed", "unknown", "cancel_requested"},
     completing       |-> {"succeeded", "failed", "unknown", "cancel_requested"},
     cancel_requested |-> {"canceled", "unknown"},
     canceled         |-> {"settled"},
     succeeded        |-> {"settled"},
     failed           |-> {"settled"},
     unknown          |-> {"canceled", "succeeded", "failed", "settled"},
     settled          |-> {}]

CanTransition(s, t) == t \in RequestSuccessors[s]

\* settle_request_state: the walk to `final` and on to "settled" exists. Every
\* intermediate state is left again inside the same transaction.
CanSettleTo(s, final) ==
    \/ /\ final = "succeeded"
       /\ s \in {"reserved", "queued", "dispatched", "completing", "succeeded", "unknown"}
    \/ /\ final \in {"failed", "unknown"}
       /\ CanTransition(s, final)
    \/ /\ final = "canceled"
       /\ s \in {"cancel_requested", "unknown"}

-----------------------------------------------------------------------------
(* Balances and the event group of a reservation.                          *)

EventKind == {"reserve", "release", "commit"}

Row == [account : Accounts, kind : EventKind, amount : Nat, version : Nat]

\* insert_reservation_budget_event: one row per account of the reservation.
Rows(r, accts, kind, amount) ==
    {[account |-> a, kind |-> kind, amount |-> amount, version |-> version[a]] : a \in accts}

Credited(accts, delta) ==
    [a \in Accounts |-> IF a \in accts THEN available[a] + delta ELSE available[a]]

Unsettled(r) == reservation[r] \in {"held", "unknown"}

\* The held part of budget_balance_in_transaction.
HoldsOn(a) == {r \in Requests : Unsettled(r) /\ a \in heldOn[r]}

Held(a) == SumFunctionOnSet(Amount, HoldsOn(a))

\* The settled part of budget_balance_in_transaction.
SettledRows(a) ==
    {re \in UNION {{r} \X ledger[r] : r \in Requests} :
        re[2].account = a /\ re[2].kind = "commit"}

Settled(a) == SumFunctionOnSet([re \in SettledRows(a) |-> re[2].amount], SettledRows(a))

Exists(a) == version[a] > 0

Ready(a) == Exists(a) /\ migration[a] = "ready"

\* The accounts a new reservation of r is held on: the key's, and the user's
\* cap account if it exists.
AccountsFor(r) == {KeyOf[r]} \cup {u \in {UserOf[KeyOf[r]]} : Exists(u)}

-----------------------------------------------------------------------------
(* Reserve and settle, as parts of larger transactions.                    *)

\* A faulty reservation: the user's cap account is charged but not checked.
FaultyReserveDual(r) ==
    /\ reservation[r] = "none"
    /\ \A a \in AccountsFor(r) : Ready(a)
    /\ available[KeyOf[r]] >= Amount[r]
    /\ reservation' = [reservation EXCEPT ![r] = "held"]
    /\ heldOn' = [heldOn EXCEPT ![r] = AccountsFor(r)]
    /\ ledger' = [ledger EXCEPT ![r] = Rows(r, AccountsFor(r), "reserve", Amount[r])]
    /\ available' = Credited(AccountsFor(r), -Amount[r])

\* A faulty settlement: only the key's account is settled.
FaultyKeyOnlySettlement(r, s) ==
    /\ s.kind \in {"release", "commit"}
    /\ heldOn' = heldOn
    /\ reservation' =
         [reservation EXCEPT ![r] = IF s.kind = "release" THEN "released" ELSE "committed"]
    /\ ledger' =
         [ledger EXCEPT ![r] = @ \cup
            Rows(r, {KeyOf[r]}, s.kind, IF s.kind = "release" THEN Amount[r] ELSE s.units)]
    /\ available' = Credited({KeyOf[r]}, Amount[r] - s.units)

\* A faulty settlement: a commit refunds the whole reservation.
FaultyRefund(r, s) ==
    /\ s.kind = "commit"
    /\ heldOn' = heldOn
    /\ reservation' = [reservation EXCEPT ![r] = "committed"]
    /\ ledger' = [ledger EXCEPT ![r] = @ \cup Rows(r, heldOn[r], "commit", s.units)]
    /\ available' = Credited(heldOn[r], Amount[r])

\* reserve_dual_in_transaction for a request that has no reservation.
ReserveDual(r) ==
    /\ reservation[r] = "none"
    /\ \A a \in AccountsFor(r) : Ready(a) /\ available[a] >= Amount[r]
    /\ reservation' = [reservation EXCEPT ![r] = "held"]
    /\ heldOn' = [heldOn EXCEPT ![r] = AccountsFor(r)]
    /\ ledger' = [ledger EXCEPT ![r] = Rows(r, AccountsFor(r), "reserve", Amount[r])]
    /\ available' = Credited(AccountsFor(r), -Amount[r])

\* A settlement; "unmetered" is Commit with an unknown actual amount.
Settlement(r) ==
    [kind : {"commit"}, units : 0..Amount[r]] \cup
    [kind : {"release", "unmetered", "unknown"}, units : {0}]

\* apply_dual_settlement. It does not look at the reservation's state: its
\* callers do.
ApplySettlement(r, s) ==
    /\ heldOn' = heldOn
    /\ \/ /\ s.kind = "release"
          /\ reservation' = [reservation EXCEPT ![r] = "released"]
          /\ ledger' = [ledger EXCEPT ![r] = @ \cup Rows(r, heldOn[r], "release", Amount[r])]
          /\ available' = Credited(heldOn[r], Amount[r])
       \/ /\ s.kind = "commit"
          /\ s.units <= Amount[r]
          /\ reservation' = [reservation EXCEPT ![r] = "committed"]
          /\ ledger' = [ledger EXCEPT ![r] = @ \cup Rows(r, heldOn[r], "commit", s.units)]
          /\ available' = Credited(heldOn[r], Amount[r] - s.units)
       \/ /\ s.kind \in {"unmetered", "unknown"}
          /\ reservation' = [reservation EXCEPT ![r] = "unknown"]
          /\ UNCHANGED <<ledger, available>>

-----------------------------------------------------------------------------
(* Faulty variants of the operations below, one per property: each property *)
(* is known to reject one.                                                 *)

\* The limit is compared before the new request is counted.
FaultyPreflightReserve(r) ==
    /\ keyActive[KeyOf[r]]
    /\ request[r] = "absent"
    /\ Cardinality({q \in Requests : KeyOf[q] = KeyOf[r] /\ request[q] \notin {"absent", "settled"}})
          <= keyLimit[KeyOf[r]]
    /\ ReserveDual(r)
    /\ request' = [request EXCEPT ![r] = "reserved"]
    /\ UNCHANGED adminVars

-----------------------------------------------------------------------------
(* Operations.                                                             *)

Init ==
    /\ keyActive = [k \in Keys |-> TRUE]
    /\ keyLimit \in [Keys -> Limits]
    /\ version = [a \in Accounts |-> 0]
    /\ migration = [a \in Accounts |-> "ready"]
    /\ granted = [a \in Accounts |-> 0]
    /\ available = [a \in Accounts |-> 0]
    /\ request = [r \in Requests |-> "absent"]
    /\ reservation = [r \in Requests |-> "none"]
    /\ heldOn = [r \in Requests |-> {}]
    /\ ledger = [r \in Requests |-> {}]

\* An 'adjust' row: creates the account with version 1 or advances its version.
Adjust(a, n) ==
    /\ Exists(a) => Ready(a)
    /\ granted[a] + n <= MaxGranted
    /\ version' = [version EXCEPT ![a] = @ + 1]
    /\ granted' = [granted EXCEPT ![a] = @ + n]
    /\ available' = [available EXCEPT ![a] = @ + n]
    /\ UNCHANGED <<keyVars, migration, request, reservation, heldOn, ledger>>

\* key_quota_grant_as_admin
GrantKey(k, n) ==
    /\ keyActive[k]
    /\ Adjust(k, n)

\* quota_pool_grant_as_admin
GrantPool(u, n) == Adjust(u, n)

\* allocated_key_quota_in_transaction: what the user's active keys still have.
AllocatedKeys(u) ==
    LET mine == {k \in Keys : UserOf[k] = u /\ keyActive[k] /\ Exists(k)}
    IN  SumFunctionOnSet([k \in mine |-> available[k] + Held(k)], mine)

\* key_quota_allocate_from_pool_as_admin
AllocateFromPool(k, n) ==
    /\ keyActive[k]
    /\ Ready(UserOf[k])
    /\ n <= available[UserOf[k]] - AllocatedKeys(UserOf[k])
    /\ Adjust(k, n)

\* update_api_key_as_admin; revoke_api_key_as_admin is the case that keeps the limit.
UpdateKey(k, enabled, limit) ==
    /\ keyActive' = [keyActive EXCEPT ![k] = enabled]
    /\ keyLimit' = [keyLimit EXCEPT ![k] = limit]
    /\ UNCHANGED <<version, migration, granted, holdVars>>

\* The states preflight_reserve counts against a key's concurrency.
CountedStates ==
    {"received", "validating", "reserved", "queued", "dispatched", "completing", "unknown"}

ActiveRequests(k) == {r \in Requests : KeyOf[r] = k /\ request[r] \in CountedStates}

\* preflight_reserve: a new request goes straight to "reserved".
PreflightReserve(r) ==
    /\ keyActive[KeyOf[r]]
    /\ request[r] = "absent"
    /\ Cardinality(ActiveRequests(KeyOf[r])) < keyLimit[KeyOf[r]]
    /\ ReserveDual(r)
    /\ request' = [request EXCEPT ![r] = "reserved"]
    /\ UNCHANGED adminVars

\* The settlements and final request states the callers of settle_request pass:
\* settle_chat in core_bridge.rs and the router's chat and video handlers.
SettleCalls(r) ==
    {c \in Settlement(r) \X {"succeeded", "failed", "unknown"} :
        <<c[1].kind, c[2]>> \in {<<"commit", "succeeded">>, <<"commit", "failed">>,
            <<"unmetered", "succeeded">>, <<"release", "failed">>, <<"unknown", "unknown">>}}

\* settle_request (settle_impl). A reservation that is no longer held is only
\* compared with the replayed settlement: nothing changes.
SettleRequest(r, s, final) ==
    /\ reservation[r] = "held"
    /\ CanSettleTo(request[r], final)
    /\ request' = [request EXCEPT ![r] = "settled"]
    /\ ApplySettlement(r, s)
    /\ UNCHANGED adminVars

\* validate_quota_event_group
GroupConsistent(r) ==
    LET final == [released |-> "release", committed |-> "commit"]
        isFinal == reservation[r] \in {"released", "committed"}
        Of(a, kind) == {e \in ledger[r] : e.account = a /\ e.kind = kind}
    IN  /\ reservation[r] # "unknown"
        /\ Cardinality(ledger[r]) = Cardinality(heldOn[r])
        /\ \A e \in ledger[r] :
              /\ e.account \in heldOn[r]
              /\ e.version = version[e.account]
              /\ \/ e.kind = "reserve" /\ e.amount = Amount[r]
                 \/ e.kind = "release" /\ reservation[r] = "released" /\ e.amount = Amount[r]
                 \/ e.kind = "commit" /\ reservation[r] = "committed" /\ e.amount <= Amount[r]
        /\ \A a \in heldOn[r] :
              /\ Cardinality(Of(a, "reserve")) = 1
              /\ isFinal => Cardinality(Of(a, final[reservation[r]])) = 1

\* reconcile_quota_event_groups, run when an enforcing scheduler starts.
ReconcileEventGroups ==
    /\ migration' =
         [a \in Accounts |->
            IF \E r \in Requests :
                  reservation[r] # "none" /\ a \in heldOn[r] /\ ~GroupConsistent(r)
            THEN "reconcile_required"
            ELSE migration[a]]
    /\ UNCHANGED <<keyVars, version, granted, holdVars>>

Grants == 1..MaxGranted

AdminNext ==
    \/ \E u \in Users, n \in Grants : GrantPool(u, n)
    \/ \E k \in Keys, n \in Grants : AllocateFromPool(k, n)
    \/ \E k \in Keys, enabled \in BOOLEAN, limit \in Limits : UpdateKey(k, enabled, limit)

RequestNext ==
    \/ \E r \in Requests : PreflightReserve(r)
    \/ \E r \in Requests : \E c \in SettleCalls(r) : SettleRequest(r, c[1], c[2])

Next ==
    \/ AdminNext
    \/ RequestNext
    \/ \E k \in Keys, n \in Grants : GrantKey(k, n)
    \/ ReconcileEventGroups

Spec == Init /\ [][Next]_quotaVars

-----------------------------------------------------------------------------
(* Properties.                                                             *)

\* Every variable has its type.
TypeOK ==
    /\ keyActive \in [Keys -> BOOLEAN]
    /\ keyLimit \in [Keys -> Limits]
    /\ version \in [Accounts -> Nat]
    /\ migration \in [Accounts -> MigrationState]
    /\ granted \in [Accounts -> Nat]
    /\ available \in [Accounts -> Int]
    /\ request \in [Requests -> RequestState \cup {"absent"}]
    /\ reservation \in [Requests -> ReservationState \cup {"none"}]
    /\ heldOn \in [Requests -> SUBSET Accounts]
    /\ ledger \in [Requests -> SUBSET Row]

\* No sequence of grants, reservations, settlements and key updates drives an
\* account below zero: a reservation is checked against both accounts, a
\* settlement never takes more than was held (reserve_dual_in_transaction,
\* apply_dual_settlement).
NeverOverdrawn == \A a \in Accounts : available[a] >= 0

\* What an account was granted is, at every moment, still available, held by
\* an unsettled reservation or committed: the three sums that
\* budget_balance_in_transaction computes from two tables agree.
Conservation == \A a \in Accounts : available[a] + Held(a) + Settled(a) = granted[a]

\* A reservation's event group says the same as its state, on every account it
\* is held on: one reserve row each; a release (or commit) row on each of them,
\* of one amount, exactly when the reservation was released (committed). No
\* request is charged on one account and refunded on the other.
GroupReserved(r) ==
    LET reserves == {e \in ledger[r] : e.kind = "reserve"}
    IN  /\ reservation[r] = "none" <=> heldOn[r] = {}
        /\ {e.account : e \in reserves} = heldOn[r]
        /\ \A e \in reserves : e.amount = Amount[r]
        /\ \A e, f \in ledger[r] : e.kind = f.kind /\ e.account = f.account => e = f

GroupSettled(r) ==
    LET done == {e \in ledger[r] : e.kind # "reserve"}
    IN  /\ done = {} <=> reservation[r] \in {"none", "held", "unknown"}
        /\ \A e \in done : e.kind = (IF reservation[r] = "released" THEN "release" ELSE "commit")
        /\ done # {} => {e.account : e \in done} = heldOn[r]
        /\ \A e, f \in done : e.amount = f.amount /\ e.amount <= Amount[r]

LedgerMatchesReservation == \A r \in Requests : GroupReserved(r) /\ GroupSettled(r)

\* A settled reservation is final: no later call changes its state or adds a
\* row to its event group (settle_impl acts on held reservations only).
SettledOnce ==
    [][\A r \in Requests :
         reservation[r] \in {"released", "committed"} =>
            reservation'[r] = reservation[r] /\ ledger'[r] = ledger[r]]_quotaVars

\* The ledger is an escrow: all or none of a reservation's accounts are
\* charged, once, and an unknown outcome keeps the hold (reserve_dual and
\* apply_dual_settlement, whichever operation calls them).
HoldOf == [none |-> "free", held |-> "held", unknown |-> "held",
           released |-> "returned", committed |-> "charged"]

Escrow == INSTANCE BudgetHold
            WITH wallet <- available,
                 hold   <- [r \in Requests |-> HoldOf[reservation[r]]],
                 payers <- heldOn

ImplementsBudgetHold == Escrow!Spec

\* A request holds money exactly while it is between "reserved" and "settled"
\* in this flow, except for the hold that an unknown outcome leaves behind.
HoldFollowsRequest ==
    \A r \in Requests :
        /\ request[r] = "absent" <=> reservation[r] = "none"
        /\ request[r] \notin {"absent", "settled"} => reservation[r] = "held"
        /\ reservation[r] = "held" => request[r] # "settled"

\* No step raises the number of requests counted against a key above the key's
\* limit, although administrators change the limit and the status of the key
\* while requests run (preflight_reserve counts and inserts in one transaction).
AdmissionWithinLimit ==
    [][\A k \in Keys :
         Cardinality(ActiveRequests(k)') > Cardinality(ActiveRequests(k)) =>
            Cardinality(ActiveRequests(k)') <= keyLimit[k]]_quotaVars

\* Startup quarantines an account only for one of the reasons its comment gives:
\* an event group that is malformed or incomplete (against its reservation's
\* state), whose version is not the account's, or whose outcome is unknown.
GroupAtFault(r) ==
    \/ reservation[r] = "unknown"
    \/ ~(GroupReserved(r) /\ GroupSettled(r))
    \/ \E e \in ledger[r] : e.version # version[e.account]

QuarantineHasCause ==
    [][\A a \in Accounts :
         migration[a] = "ready" /\ migration'[a] = "reconcile_required" =>
            \E r \in Requests : a \in heldOn[r] /\ GroupAtFault(r)]_quotaVars
=============================================================================
