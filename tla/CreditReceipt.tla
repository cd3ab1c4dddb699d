---------------------------- MODULE CreditReceipt ----------------------------
(***************************************************************************)
(* Credit quotes and receipts of aiwork-core: a request whose price AI Work *)
(* decides is reserved at the most it may cost (its quote), and is settled  *)
(* by the first valid final receipt, however late, repeated or contradicted *)
(* the receipts arrive. The ledger, the accounts and the reservation are    *)
(* those of CoreQuota, for the resource "credits"; what AI Work itself      *)
(* still has is here too, since credits are allocated to keys against it.   *)
(*                                                                         *)
(* Each operation is one IMMEDIATE transaction. A quote is stored in the    *)
(* transaction that makes the reservation, so a request has a quote exactly *)
(* when it has a reservation. Amount[r] is the quote's max_credits. Nothing *)
(* in the repository takes a key's billing block away again.                *)
(***************************************************************************)
EXTENDS CoreQuota

CONSTANTS
    UpstreamTotal,  \* bound: the credits AI Work has at the start
    Charges,        \* what AI Work may charge for a request
    Payloads        \* the receipts that may arrive for a request

NoAmount == -1      \* a receipt without actual_credits; no settlement; no charge

Payload == [status  : {"final", "failed_no_charge", "pending", "unknown", "unverified"},
            actual  : Nat \cup {NoAmount},
            credits : BOOLEAN]               \* the unit is "credits"

ASSUME CreditConstants ==
    /\ UpstreamTotal \in Nat
    /\ Charges \subseteq Nat
    /\ Payloads \subseteq Payload

VARIABLES
    receipts,     \* billing_receipts of a request: payloads, each with its stored status
    settled,      \* billing_settlements.actual_credits, or NoAmount
    reconcile,    \* billing_settlements.reconcile_required
    blocked,      \* api_key_billing_blocks.reason, or "no"
    upstream,     \* external: the credits AI Work has left
    charge,       \* external: what AI Work took for a request, or NoAmount
    unchecked     \* history: credits given to keys since AI Work's total was last
                  \* found to cover them all

billVars   == <<receipts, settled, reconcile, blocked>>
worldVars  == <<upstream, charge>>
creditVars == <<quotaVars, billVars, worldVars, unchecked>>

-----------------------------------------------------------------------------
(* What a receipt says.                                                     *)

ValidFinal(p) ==
    /\ p.credits
    /\ \/ p.status = "final" /\ p.actual # NoAmount
       \/ p.status = "failed_no_charge" /\ p.actual \in {0, NoAmount}

Actual(p) == IF p.status = "failed_no_charge" THEN 0 ELSE p.actual

\* normalized_status: a final receipt that proves nothing is kept as unverified.
Normalized(p) ==
    IF p.credits /\ (p.status \in {"final", "failed_no_charge"} => ValidFinal(p))
    THEN p.status ELSE "unverified"

Stored(p, status) == [payload |-> p, stored |-> status]

Seen(r) == {row.payload : row \in receipts[r]}

\* INSERT OR IGNORE INTO api_key_billing_blocks: the first reason stays.
Block(k, reason) == [blocked EXCEPT ![k] = IF @ = "no" THEN reason ELSE @]

-----------------------------------------------------------------------------
(* Allocation against AI Work's total.                                      *)

Commitment(k) == IF available[k] + Held(k) > 0 THEN available[k] + Held(k) ELSE 0

Granted == {k \in Keys : Exists(k)}

\* A faulty sum: what is held is taken to be spent already.
FaultyCommitted ==
    SumFunctionOnSet([k \in Granted |-> IF available[k] > 0 THEN available[k] ELSE 0], Granted)

\* upstream_credit_capacity_in_transaction: what all keys together may still spend.
Committed == SumFunctionOnSet([k \in Granted |-> Commitment(k)], Granted)

\* key_quota_allocate_from_upstream_as_admin, with a snapshot just taken.
AllocateFromUpstream(k, n) ==
    /\ keyActive[k]
    /\ Committed <= upstream
    /\ n <= upstream - Committed
    /\ Adjust(k, n)
    /\ unchecked' = 0
    /\ UNCHANGED <<billVars, worldVars>>

\* The two ways to give a key credits that do not look at AI Work's total. The
\* next check then answers UpstreamCommitmentsExceedBalance: here, it is disabled.
GiveUnchecked(k, n) ==
    /\ GrantKey(k, n) \/ AllocateFromPool(k, n)
    /\ unchecked' = unchecked + n
    /\ UNCHANGED <<billVars, worldVars>>

-----------------------------------------------------------------------------
(* Faulty variants, one per property: each property rejects one.            *)

\* An open receipt gives the hold back.
FaultyOpenReceipt(r, p) ==
    /\ settled[r] = NoAmount
    /\ ~ValidFinal(p)
    /\ receipts' = [receipts EXCEPT ![r] = @ \cup {Stored(p, Normalized(p))}]
    /\ reservation[r] = "held"
    /\ CanSettleTo(request[r], "failed")
    /\ ApplySettlement(r, [kind |-> "release", units |-> 0])
    /\ request' = [request EXCEPT ![r] = "settled"]
    /\ UNCHANGED <<adminVars, settled, reconcile, blocked, worldVars, unchecked>>

\* A receipt above the quote is only noted in its settlement.
FaultySettleByReceipt(r, p) ==
    /\ settled[r] = NoAmount
    /\ ValidFinal(p)
    /\ Unsettled(r)
    /\ CanSettleTo(request[r], "succeeded")
    /\ receipts' = [receipts EXCEPT ![r] = @ \cup {Stored(p, p.status)}]
    /\ reservation' = [reservation EXCEPT ![r] = "committed"]
    /\ ledger' = [ledger EXCEPT ![r] = @ \cup Rows(r, heldOn[r], "commit", Actual(p))]
    /\ available' = Credited(heldOn[r], Amount[r] - Actual(p))
    /\ request' = [request EXCEPT ![r] = "settled"]
    /\ settled' = [settled EXCEPT ![r] = Actual(p)]
    /\ reconcile' = [reconcile EXCEPT ![r] = Actual(p) > Amount[r]]
    /\ UNCHANGED <<adminVars, heldOn, blocked, worldVars, unchecked>>

\* The latest final receipt is believed.
FaultyLatestFinal(r, p) ==
    /\ settled[r] # NoAmount
    /\ ValidFinal(p)
    /\ Actual(p) # settled[r]
    /\ receipts' = [receipts EXCEPT ![r] = @ \cup {Stored(p, "conflict")}]
    /\ settled' = [settled EXCEPT ![r] = Actual(p)]
    /\ reconcile' = [reconcile EXCEPT ![r] = TRUE]
    /\ blocked' = Block(KeyOf[r], "receipt_conflict")
    /\ UNCHANGED <<quotaVars, worldVars, unchecked>>

\* A contradiction is kept but its settlement is not marked.
FaultyContradictingFinal(r, p) ==
    /\ settled[r] # NoAmount
    /\ ValidFinal(p)
    /\ Actual(p) # settled[r]
    /\ receipts' = [receipts EXCEPT ![r] = @ \cup {Stored(p, "conflict")}]
    /\ blocked' = Block(KeyOf[r], "receipt_conflict")
    /\ UNCHANGED <<quotaVars, settled, reconcile, worldVars, unchecked>>

-----------------------------------------------------------------------------
(* Requests.                                                                *)

\* begin_billed_request
Begin(r) ==
    /\ request[r] = "absent"
    /\ keyActive[KeyOf[r]]
    /\ request' = [request EXCEPT ![r] = "received"]
    /\ UNCHANGED <<adminVars, available, reservation, heldOn, ledger, billVars, worldVars, unchecked>>

\* reserve_credit_quote, or with `checked` reserve_credit_quote_with_upstream_snapshot.
\* Repeated with the same quote it only answers. "validating" is passed through.
ReserveQuote(r, checked) ==
    /\ request[r] = "received"
    /\ keyActive[KeyOf[r]]
    /\ blocked[KeyOf[r]] = "no"
    /\ checked => Committed <= upstream
    /\ Cardinality(ActiveRequests(KeyOf[r]) \ {r}) < keyLimit[KeyOf[r]]
    /\ ReserveDual(r)
    /\ request' = [request EXCEPT ![r] = "reserved"]
    /\ unchecked' = IF checked THEN 0 ELSE unchecked
    /\ UNCHANGED <<adminVars, billVars, worldVars>>

\* External: AI Work takes what the work cost, once, before it reports it as final.
UpstreamCharges(r, c) ==
    /\ reservation[r] # "none"
    /\ charge[r] = NoAmount
    /\ c <= upstream
    /\ upstream' = upstream - c
    /\ charge' = [charge EXCEPT ![r] = c]
    /\ UNCHANGED <<quotaVars, billVars, unchecked>>

-----------------------------------------------------------------------------
(* apply_credit_receipt, for a payload not seen before.                     *)

\* Nothing final is known and the receipt is not final either: the hold stays.
OpenReceipt(r, p) ==
    /\ settled[r] = NoAmount
    /\ ~ValidFinal(p)
    /\ request[r] = "unknown" \/ CanTransition(request[r], "unknown")
    /\ receipts' = [receipts EXCEPT ![r] = @ \cup {Stored(p, Normalized(p))}]
    /\ reservation' = [reservation EXCEPT ![r] = IF @ = "held" THEN "unknown" ELSE @]
    /\ request' = [request EXCEPT ![r] = "unknown"]
    /\ UNCHANGED <<adminVars, available, heldOn, ledger, settled, reconcile, blocked, worldVars, unchecked>>

\* The first final receipt commits what it says, more than was held if need be.
SettleByReceipt(r, p) ==
    LET over  == Actual(p) > Amount[r]
        final == IF p.status = "failed_no_charge" THEN "failed" ELSE "succeeded"
    IN  /\ settled[r] = NoAmount
        /\ ValidFinal(p)
        /\ Unsettled(r)
        /\ CanSettleTo(request[r], final)
        /\ receipts' = [receipts EXCEPT ![r] = @ \cup {Stored(p, p.status)}]
        /\ reservation' = [reservation EXCEPT ![r] = "committed"]
        /\ ledger' = [ledger EXCEPT ![r] = @ \cup Rows(r, heldOn[r], "commit", Actual(p))]
        /\ available' = Credited(heldOn[r], Amount[r] - Actual(p))
        /\ request' = [request EXCEPT ![r] = "settled"]
        /\ settled' = [settled EXCEPT ![r] = Actual(p)]
        /\ reconcile' = [reconcile EXCEPT ![r] = over]
        /\ blocked' = IF over THEN Block(KeyOf[r], "over_quote") ELSE blocked
        /\ UNCHANGED <<adminVars, heldOn, worldVars, unchecked>>

\* After the settlement a receipt that is not final leaves no trace.
AgreeingFinal(r, p) ==
    /\ settled[r] # NoAmount
    /\ ValidFinal(p)
    /\ Actual(p) = settled[r]
    /\ receipts' = [receipts EXCEPT ![r] = @ \cup {Stored(p, p.status)}]
    /\ UNCHANGED <<quotaVars, settled, reconcile, blocked, worldVars, unchecked>>

ContradictingFinal(r, p) ==
    /\ settled[r] # NoAmount
    /\ ValidFinal(p)
    /\ Actual(p) # settled[r]
    /\ receipts' = [receipts EXCEPT ![r] = @ \cup {Stored(p, "conflict")}]
    /\ blocked' = Block(KeyOf[r], "receipt_conflict")
    /\ reconcile' = [reconcile EXCEPT ![r] = TRUE]
    /\ UNCHANGED <<quotaVars, settled, worldVars, unchecked>>

ApplyReceipt(r, p) ==
    /\ reservation[r] # "none"
    /\ p \notin Seen(r)
    /\ ValidFinal(p) => charge[r] # NoAmount
    /\ \/ OpenReceipt(r, p)
       \/ SettleByReceipt(r, p)
       \/ AgreeingFinal(r, p)
       \/ ContradictingFinal(r, p)

-----------------------------------------------------------------------------

CreditInit ==
    /\ Init
    /\ receipts = [r \in Requests |-> {}]
    /\ settled = [r \in Requests |-> NoAmount]
    /\ reconcile = [r \in Requests |-> FALSE]
    /\ blocked = [k \in Keys |-> "no"]
    /\ upstream = UpstreamTotal
    /\ charge = [r \in Requests |-> NoAmount]
    /\ unchecked = 0

\* Grants to the cap accounts and the start of a scheduler, as in CoreQuota,
\* which also has the administration of keys; here they stay active.
LedgerUpkeep ==
    /\ \/ \E u \in Users, n \in Grants : GrantPool(u, n)
       \/ ReconcileEventGroups
    /\ UNCHANGED <<billVars, worldVars, unchecked>>

CreditNext ==
    \/ \E k \in Keys, n \in Grants : AllocateFromUpstream(k, n) \/ GiveUnchecked(k, n)
    \/ \E r \in Requests : Begin(r)
    \/ \E r \in Requests, checked \in BOOLEAN : ReserveQuote(r, checked)
    \/ \E r \in Requests, c \in Charges : UpstreamCharges(r, c)
    \/ \E r \in Requests, p \in Payloads : ApplyReceipt(r, p)
    \/ LedgerUpkeep

CreditSpec == CreditInit /\ [][CreditNext]_creditVars

-----------------------------------------------------------------------------
(* Properties.                                                              *)

StoredStatus == {"final", "failed_no_charge", "pending", "unknown", "unverified", "conflict"}

\* Every variable has its type.
CreditTypeOK ==
    /\ TypeOK
    /\ receipts \in [Requests -> SUBSET [payload : Payloads, stored : StoredStatus]]
    /\ settled \in [Requests -> Nat \cup {NoAmount}]
    /\ reconcile \in [Requests -> BOOLEAN]
    /\ blocked \in [Keys -> {"no", "over_quote", "receipt_conflict"}]
    /\ upstream \in Nat
    /\ charge \in [Requests -> Nat \cup {NoAmount}]
    /\ unchecked \in Nat

\* A quoted request either has its settlement - its reservation is committed
\* and each account it was held on is charged exactly the settled amount - or
\* it still holds its quote in a state in which recoverable_billing_requests
\* finds it after a restart: no order of receipts loses a hold or charges
\* something other than the settlement says (apply_credit_receipt).
ChargedAsSettled(r) ==
    LET commits == {e \in ledger[r] : e.kind = "commit"}
    IN  /\ reservation[r] = "committed"
        /\ request[r] = "settled"
        /\ {e.account : e \in commits} = heldOn[r]
        /\ \A e \in commits : e.amount = settled[r]

SettledOrRecoverable ==
    \A r \in Requests :
        reservation[r] # "none" =>
            IF settled[r] # NoAmount
            THEN ChargedAsSettled(r)
            ELSE Unsettled(r) /\ request[r] \in {"reserved", "unknown"}

\* Only a charge above its quote drives an account below zero, and the key of
\* that request is then blocked (apply_credit_receipt, the over_quote branch).
DebtIsBlocked ==
    \A a \in Accounts :
        available[a] < 0 =>
            \E r \in Requests :
                /\ a \in heldOn[r]
                /\ settled[r] > Amount[r]
                /\ reconcile[r]
                /\ blocked[KeyOf[r]] # "no"

\* A settlement is marked for reconciliation exactly when it is above its quote
\* or a final receipt contradicts it, and its key is blocked from then on: a
\* contradiction that arrives after any number of agreeing receipts is not lost.
DoubtIsFlagged ==
    \A r \in Requests :
        /\ reconcile[r] <=>
             \/ settled[r] > Amount[r]
             \/ \E row \in receipts[r] : row.stored = "conflict"
        /\ reconcile[r] => blocked[KeyOf[r]] # "no"
        /\ \A row \in receipts[r] :
              ValidFinal(row.payload) =>
                 (row.stored = "conflict" <=> Actual(row.payload) # settled[r])

\* As long as AI Work charges no more than quoted and receipts tell what it
\* charged, what the keys may still spend exceeds what AI Work has by no more
\* than an administrator gave them since the last check that passed: no
\* interleaving of allocations, reservations, charges and late receipts
\* promises the same credits twice, and a check that passes makes good every
\* grant before it (upstream_credit_capacity_in_transaction).
Truthful ==
    \A r \in Requests :
        /\ charge[r] <= Amount[r]
        /\ settled[r] # NoAmount => settled[r] = charge[r]

InFlight == {r \in Requests : charge[r] # NoAmount /\ settled[r] = NoAmount}

KeysCovered ==
    Truthful => Committed - SumFunctionOnSet(charge, InFlight) <= upstream + unchecked

\* The first final receipt decides: whatever arrives later, in whatever order,
\* changes neither the amount nor what was charged for it.
FirstFinalDecides ==
    [][\A r \in Requests :
         settled[r] # NoAmount =>
            /\ settled'[r] = settled[r]
            /\ ledger'[r] = ledger[r]
            /\ request'[r] = request[r]]_creditVars

\* No quote is reserved on a key one of whose settlements is in doubt.
NoCreditAfterDoubt ==
    [][\A r, q \in Requests :
         reservation[r] = "none" /\ reservation'[r] # "none" /\ KeyOf[q] = KeyOf[r]
            => ~reconcile[q]]_creditVars
=============================================================================
