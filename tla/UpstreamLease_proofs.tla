-------------------------- MODULE UpstreamLease_proofs --------------------------
(* Theorems about the upstream scheduler, for every instance of its constants. *)
(* They rest on one invariant, the agreement of lease, request and             *)
(* reservation: whoever settles, recovers or reconciles a lease acts on money  *)
(* that is still held.                                                        *)
EXTENDS UpstreamLease, CoreQuota_proofs

-----------------------------------------------------------------------------
(* Types.                                                                    *)

LEMMA OutcomeType ==
    ASSUME NEW r \in Requests, NEW o \in LeaseOutcome(r)
    PROVE  /\ o.quota \in Settlement(r)
           /\ o.lease \in {"succeeded", "failed", "unknown"}
           /\ o.lease = "succeeded" => o.request = "succeeded" /\ o.quota.kind \in {"commit", "unmetered"}
           /\ o.lease = "failed" => o.request \in {"failed", "canceled"} /\ o.quota.kind = "release"
           /\ o.lease = "unknown" => o.request = "unknown" /\ o.quota.kind = "unknown"
BY DEF LeaseOutcome

LEMMA AcquireType ==
    ASSUME LeaseTypeOK, NEW r \in Requests, NEW a \in UpstreamAccounts, AcquireLease(r, a)
    PROVE  LeaseTypeOK'
<1>1. TypeOK /\ ReserveDual(r)
  BY DEF LeaseTypeOK, AcquireLease
<1>2. request' \in [Requests -> RequestState \cup {"absent"}]
  BY <1>1 DEF AcquireLease, TypeOK, RequestState
<1>3. TypeOK'
  BY <1>1, <1>2, ReserveDualType DEF AcquireLease, TypeOK, adminVars
<1>4. QED
  BY <1>3, LeaseConstants DEF LeaseTypeOK, AcquireLease, LeaseState

LEMMA CloseType ==
    ASSUME LeaseTypeOK, NEW r \in Requests, NEW o \in LeaseOutcome(r), CloseLease(r, o),
           UNCHANGED <<adminVars, now, selectable>>
    PROVE  LeaseTypeOK'
<1>1. TypeOK /\ o.quota \in Settlement(r) /\ ApplySettlement(r, o.quota)
  BY OutcomeType DEF LeaseTypeOK, CloseLease
<1>2. request' \in [Requests -> RequestState \cup {"absent"}]
  BY <1>1 DEF CloseLease, TypeOK, RequestState
<1>3. TypeOK'
  BY <1>1, <1>2, SettlementType DEF TypeOK, adminVars
<1>4. leaseState' \in [Requests -> LeaseState \cup {"none"}]
      /\ reconcileUntil' \in [Requests -> Nat]
  BY OutcomeType DEF LeaseTypeOK, CloseLease, LeaseState
<1>5. QED
  BY <1>3, <1>4 DEF LeaseTypeOK, CloseLease

LEMMA RecoverType == LeaseTypeOK /\ RecoverExpired => LeaseTypeOK'
<1> SUFFICES ASSUME LeaseTypeOK, RecoverExpired PROVE LeaseTypeOK'
  OBVIOUS
<1>1. TypeOK'
  BY DEF LeaseTypeOK, RecoverExpired, TypeOK, adminVars, RequestState, ReservationState
<1>2. QED
  BY <1>1, LeaseConstants DEF LeaseTypeOK, RecoverExpired, LeaseState

LEMMA LeaseStepType == LeaseTypeOK /\ [LeaseNext]_vars => LeaseTypeOK'
<1> SUFFICES ASSUME LeaseTypeOK, [LeaseNext]_vars PROVE LeaseTypeOK'
  OBVIOUS
<1>1. ASSUME NEW r \in Requests, NEW a \in UpstreamAccounts, AcquireLease(r, a)
      PROVE  LeaseTypeOK'
  BY <1>1, AcquireType
<1>2. ASSUME NEW r \in Requests, Heartbeat(r) PROVE LeaseTypeOK'
  BY <1>2, LeaseConstants
  DEF Heartbeat, LeaseTypeOK, LeaseState, TypeOK, quotaVars, adminVars, holdVars
<1>3. ASSUME NEW r \in Requests, RequestCancel(r) PROVE LeaseTypeOK'
  BY <1>3 DEF RequestCancel, LeaseTypeOK, TypeOK, RequestState, adminVars, leaseVars, lifeVars
<1>4. ASSUME NEW r \in Requests, NEW o \in LeaseOutcome(r), SettleLease(r, o) \/ ReconcileLease(r, o)
      PROVE  LeaseTypeOK'
  BY <1>4, CloseType DEF SettleLease, ReconcileLease
<1>5. CASE RecoverExpired
  BY <1>5, RecoverType
<1>6. ASSUME NEW accts \in SUBSET UpstreamAccounts, SetSelectable(accts) PROVE LeaseTypeOK'
  BY <1>6 DEF SetSelectable, LeaseTypeOK, TypeOK, quotaVars, adminVars, holdVars, lifeVars
<1>7. CASE Tick
  BY <1>7 DEF Tick, LeaseTypeOK, TypeOK, quotaVars, adminVars, holdVars, lifeVars
<1>8. CASE AdminStep
  <2>1. TypeOK /\ [Next]_quotaVars
    BY <1>8 DEF AdminStep, LeaseTypeOK, Next, AdminNext, TypeOK
  <2>2. QED
    BY <1>8, <2>1, StepType DEF AdminStep, LeaseTypeOK, leaseVars, lifeVars
<1>9. CASE UNCHANGED vars
  BY <1>9
  DEF vars, leaseVars, lifeVars, LeaseTypeOK, TypeOK, quotaVars, adminVars, holdVars
<1>10. QED
  BY <1>1, <1>2, <1>3, <1>4, <1>5, <1>6, <1>7, <1>8, <1>9 DEF LeaseNext, OwnerNext

\* Every variable of the ledger and of the scheduler keeps its type.
THEOREM LeaseTypeCorrect == LeaseSpec => []LeaseTypeOK
<1>1. LeaseInit => LeaseTypeOK
  BY InitType DEF LeaseInit, LeaseTypeOK, LeaseState
<1>2. QED
  BY <1>1, LeaseStepType, PTL DEF LeaseSpec

-----------------------------------------------------------------------------
(* A step of the scheduler, seen from the ledger and from the leases.         *)

\* The operations of CoreQuota that move no reservation.
LEMMA AdminCases ==
    ASSUME LeaseTypeOK, AdminStep
    PROVE  /\ UNCHANGED <<request, reservation, heldOn, ledger, leaseVars>>
           /\ UNCHANGED available \/ \E a \in Accounts, n \in Grants : Adjust(a, n)
BY DEF AdminStep, GrantKey, Adjust, UpdateKey, ReconcileEventGroups, holdVars, Accounts

LEMMA LeaseCases ==
    ASSUME LeaseTypeOK, [LeaseNext]_vars
    PROVE  \/ UNCHANGED <<request, reservation, heldOn, ledger, lifeVars>>
           \/ \E r \in Requests, a \in UpstreamAccounts : AcquireLease(r, a)
           \/ \E r \in Requests : Heartbeat(r) \/ RequestCancel(r)
           \/ \E r \in Requests : \E o \in LeaseOutcome(r) : SettleLease(r, o) \/ ReconcileLease(r, o)
           \/ RecoverExpired
BY AdminCases
DEF LeaseNext, OwnerNext, SetSelectable, Tick, vars, leaseVars, quotaVars, holdVars

-----------------------------------------------------------------------------
(* The agreement.                                                            *)

\* LeaseAgreesWithHold for one request, without the CASE.
Agrees(r) ==
    \/ leaseState[r] = "none" /\ reservation[r] = "none" /\ request[r] = "absent"
    \/ Open(r) /\ reservation[r] = "held" /\ request[r] \in {"reserved", "cancel_requested"}
    \/ leaseState[r] = "unknown" /\ reservation[r] = "unknown" /\ request[r] = "unknown"
    \/ leaseState[r] = "failed" /\ reservation[r] = "released" /\ request[r] = "settled"
    \/ leaseState[r] = "succeeded" /\ reservation[r] \in {"committed", "unknown"}
                                   /\ request[r] = "settled"

AllAgree == \A r \in Requests : Agrees(r)

LEMMA AgreesIsAgreement == LeaseTypeOK => (LeaseAgreesWithHold <=> AllAgree)
BY DEF LeaseTypeOK, LeaseAgreesWithHold, AllAgree, Agrees, Open, LeaseState

LEMMA AgreeStep == LeaseTypeOK /\ AllAgree /\ [LeaseNext]_vars => AllAgree'
<1> SUFFICES ASSUME LeaseTypeOK, AllAgree, [LeaseNext]_vars, NEW r \in Requests
             PROVE  Agrees(r)'
  BY DEF AllAgree
<1>0. Agrees(r) /\ TypeOK
  BY DEF AllAgree, LeaseTypeOK
<1>1. CASE UNCHANGED <<request, reservation, heldOn, ledger, lifeVars>>
  BY <1>0, <1>1 DEF Agrees, Open, lifeVars
<1>2. ASSUME NEW q \in Requests, NEW a \in UpstreamAccounts, AcquireLease(q, a)
      PROVE  Agrees(r)'
  BY <1>0, <1>2 DEF AcquireLease, ReserveDual, Agrees, Open, LeaseTypeOK, TypeOK
<1>3. ASSUME NEW q \in Requests, Heartbeat(q) \/ RequestCancel(q) PROVE Agrees(r)'
  BY <1>0, <1>3
  DEF Heartbeat, RequestCancel, Agrees, Open, LeaseTypeOK, TypeOK, quotaVars, holdVars,
      leaseVars, lifeVars
<1>4. ASSUME NEW q \in Requests, NEW o \in LeaseOutcome(q), SettleLease(q, o) \/ ReconcileLease(q, o)
      PROVE  Agrees(r)'
  <2>1. CloseLease(q, o)
    BY <1>4 DEF SettleLease, ReconcileLease
  <2>2. CASE q # r
    BY <1>0, <2>1, <2>2 DEF CloseLease, ApplySettlement, Agrees, Open, LeaseTypeOK, TypeOK
  <2>3. CASE q = r
    BY <2>1, <2>3, OutcomeType
    DEF CloseLease, ApplySettlement, Agrees, Open, LeaseTypeOK, TypeOK
  <2>4. QED
    BY <2>2, <2>3
<1>5. CASE RecoverExpired
  BY <1>0, <1>5 DEF RecoverExpired, Expired, Agrees, Open, LeaseTypeOK, TypeOK
<1>6. QED
  BY <1>1, <1>2, <1>3, <1>4, <1>5, LeaseCases

LEMMA AlwaysAgree == LeaseSpec => [](LeaseTypeOK /\ AllAgree)
<1>1. LeaseInit => AllAgree
  BY DEF LeaseInit, Init, AllAgree, Agrees
<1>2. QED
  BY <1>1, LeaseTypeCorrect, AgreeStep, PTL DEF LeaseSpec

\* Lease, request and reservation tell one story in every reachable state.
THEOREM LeaseAgreement == LeaseSpec => []LeaseAgreesWithHold
BY AlwaysAgree, AgreesIsAgreement, PTL

-----------------------------------------------------------------------------
(* What the agreement gives the ledger. Whatever the operations above it are, *)
(* four properties of the ledger need to know only this of a step: it moves   *)
(* no money, grants some, reserves for one request, settles one unsettled     *)
(* request, or leaves held reservations unknown.                              *)

LoseHeld ==
    /\ UNCHANGED <<available, heldOn, ledger>>
    /\ \A r \in Requests :
          reservation'[r] = reservation[r] \/ (reservation[r] = "held" /\ reservation'[r] = "unknown")

MoneyMove ==
    \/ UNCHANGED <<available, reservation, heldOn, ledger>>
    \/ \E a \in Accounts, n \in Grants : Adjust(a, n)
    \/ \E r \in Requests : ReserveDual(r)
    \/ \E r \in Requests : \E s \in Settlement(r) : Unsettled(r) /\ ApplySettlement(r, s)
    \/ LoseHeld

LEMMA MoveBalance == MoneyMove => BalanceStep
BY DEF MoneyMove, BalanceStep, LoseHeld

LEMMA MoveLedger ==
    TypeOK /\ LedgerMatchesReservation /\ MoneyMove => LedgerMatchesReservation'
<1> SUFFICES ASSUME TypeOK, LedgerMatchesReservation, MoneyMove, NEW r \in Requests
             PROVE  GroupReserved(r)' /\ GroupSettled(r)'
  BY DEF LedgerMatchesReservation
<1>0. GroupReserved(r) /\ GroupSettled(r)
  BY DEF LedgerMatchesReservation
<1>1. CASE UNCHANGED <<reservation[r], heldOn[r], ledger[r]>>
  BY <1>0, <1>1 DEF GroupReserved, GroupSettled
<1>2. ASSUME NEW q \in Requests, ReserveDual(q) PROVE GroupReserved(r)' /\ GroupSettled(r)'
  <2>1. CASE q = r
    BY <1>2, <2>1, ReservedGroup
  <2>2. CASE q # r
    BY <1>1, <1>2, <2>2 DEF ReserveDual, TypeOK
  <2>3. QED
    BY <2>1, <2>2
<1>3. ASSUME NEW q \in Requests, NEW s \in Settlement(q), Unsettled(q), ApplySettlement(q, s)
      PROVE  GroupReserved(r)' /\ GroupSettled(r)'
  <2>1. CASE q = r
    BY <1>0, <1>3, <2>1, SettledGroup
  <2>2. CASE q # r
    BY <1>1, <1>3, <2>2 DEF ApplySettlement, TypeOK
  <2>3. QED
    BY <2>1, <2>2
<1>4. CASE LoseHeld
  BY <1>0, <1>1, <1>4 DEF LoseHeld, GroupReserved, GroupSettled
<1>5. ASSUME NEW a \in Accounts, NEW n \in Grants, Adjust(a, n)
      PROVE  UNCHANGED <<reservation[r], heldOn[r], ledger[r]>>
  BY <1>5 DEF Adjust
<1>6. QED
  BY <1>1, <1>2, <1>3, <1>4, <1>5 DEF MoneyMove

LEMMA MoveFinal ==
    ASSUME TypeOK, MoneyMove, NEW r \in Requests, reservation[r] \in {"released", "committed"}
    PROVE  reservation'[r] = reservation[r] /\ ledger'[r] = ledger[r]
<1>1. ASSUME NEW q \in Requests, ReserveDual(q)
      PROVE  reservation'[r] = reservation[r] /\ ledger'[r] = ledger[r]
  BY <1>1 DEF ReserveDual, TypeOK
<1>2. ASSUME NEW q \in Requests, NEW s \in Settlement(q), Unsettled(q), ApplySettlement(q, s)
      PROVE  reservation'[r] = reservation[r] /\ ledger'[r] = ledger[r]
  BY <1>2 DEF Unsettled, ApplySettlement, TypeOK
<1>3. ASSUME NEW a \in Accounts, NEW n \in Grants, Adjust(a, n)
      PROVE  reservation'[r] = reservation[r] /\ ledger'[r] = ledger[r]
  BY <1>3 DEF Adjust
<1>4. QED
  BY <1>1, <1>2, <1>3 DEF MoneyMove, LoseHeld

LEMMA MoveEscrow == TypeOK /\ MoneyMove => [Escrow!Next]_(Escrow!vars)
<1> SUFFICES ASSUME TypeOK, MoneyMove PROVE [Escrow!Next]_(Escrow!vars)
  OBVIOUS
<1>1. ASSUME NEW a \in Accounts, NEW n \in Grants, Adjust(a, n) PROVE Escrow!Next
  BY <1>1, AdjustDeposits DEF Escrow!Next
<1>2. ASSUME NEW r \in Requests, ReserveDual(r) PROVE Escrow!Next
  BY <1>2, ReserveTakes DEF Escrow!Next
<1>3. ASSUME NEW r \in Requests, NEW s \in Settlement(r), Unsettled(r), ApplySettlement(r, s)
      PROVE  [Escrow!Next]_(Escrow!vars)
  BY <1>3, SettlementEnds DEF Escrow!Next
<1>4. CASE LoseHeld
  <2>1. \A r \in Requests : HoldOf[reservation[r]]' = HoldOf[reservation[r]]
    BY <1>4 DEF LoseHeld, HoldOf
  <2>2. QED
    BY <1>4, <2>1 DEF LoseHeld, Escrow!vars
<1>5. CASE UNCHANGED <<available, reservation, heldOn, ledger>>
  BY <1>5 DEF Escrow!vars
<1>6. QED
  BY <1>1, <1>2, <1>3, <1>4, <1>5 DEF MoneyMove

\* Only grants change what was granted.
GrantMove == UNCHANGED granted \/ \E b \in Accounts, n \in Grants : Adjust(b, n)

LEMMA MoveFunds ==
    ASSUME TypeOK, TypeOK', LedgerMatchesReservation, \A a \in Accounts : Funds(a),
           MoneyMove, GrantMove
    PROVE  \A a \in Accounts : Funds(a)'
<1> SUFFICES ASSUME NEW a \in Accounts PROVE Funds(a)'
  OBVIOUS
<1>0. Funds(a) /\ \A r \in Requests : GroupReserved(r) /\ GroupSettled(r)
  BY DEF LedgerMatchesReservation
<1>1. ASSUME NEW b \in Accounts, NEW n \in Grants, Adjust(b, n) PROVE Funds(a)'
  <2>1. available'[a] - available[a] = granted'[a] - granted[a]
    BY <1>1, QuotaConstants DEF Adjust, TypeOK, Grants
  <2>2. UNCHANGED <<reservation, heldOn, ledger>>
    BY <1>1 DEF Adjust
  <2> QED
    BY <1>0, <2>1, <2>2, FundsGranted
<1>2. CASE UNCHANGED <<available, reservation, heldOn, ledger, granted>>
  <2>1. available'[a] - available[a] = granted'[a] - granted[a]
    BY <1>2 DEF TypeOK
  <2> QED
    BY <1>0, <1>2, <2>1, FundsGranted
<1>3. ASSUME NEW r \in Requests, ReserveDual(r), UNCHANGED granted PROVE Funds(a)'
  <2>1. ledger[r] = {}
    BY <1>0, <1>3 DEF ReserveDual, GroupReserved, GroupSettled
  <2> QED
    BY <1>0, <1>3, <2>1, FundsReserved
<1>4. ASSUME NEW r \in Requests, NEW s \in Settlement(r), Unsettled(r), ApplySettlement(r, s),
             UNCHANGED granted
      PROVE  Funds(a)'
  BY <1>0, <1>4, FundsSettled
<1>5. CASE LoseHeld /\ UNCHANGED granted
  <2>1. \A r \in Requests : Unsettled(r)' = Unsettled(r)
    BY <1>5 DEF LoseHeld, Unsettled
  <2>2. HoldsOn(a)' = HoldsOn(a) /\ SettledRows(a)' = SettledRows(a)
    BY <1>5, <2>1 DEF LoseHeld, HoldsOn, SettledRows
  <2> QED
    BY <1>0, <1>5, <2>2, HeldSame, SettledSame DEF LoseHeld, Funds
<1> QED
  BY <1>1, <1>2, <1>3, <1>4, <1>5 DEF MoneyMove, GrantMove

LEMMA LeaseMoves ==
    ASSUME LeaseTypeOK, AllAgree, [LeaseNext]_vars
    PROVE  MoneyMove
<1>1. ASSUME NEW r \in Requests, NEW o \in LeaseOutcome(r), SettleLease(r, o) \/ ReconcileLease(r, o)
      PROVE  MoneyMove
  <2>1. Unsettled(r)
    BY <1>1 DEF SettleLease, ReconcileLease, AllAgree, Agrees, Open, Unsettled
  <2>2. o.quota \in Settlement(r) /\ ApplySettlement(r, o.quota)
    BY <1>1, OutcomeType DEF SettleLease, ReconcileLease, CloseLease
  <2>3. QED
    BY <2>1, <2>2 DEF MoneyMove
<1>2. CASE RecoverExpired
  <2>1. LoseHeld
    BY <1>2 DEF RecoverExpired, Expired, AllAgree, Agrees, Open, LoseHeld
  <2>2. QED
    BY <2>1 DEF MoneyMove
<1>3. CASE AdminStep
  BY <1>3, AdminCases DEF MoneyMove
<1>4. ASSUME NEW r \in Requests, NEW a \in UpstreamAccounts, AcquireLease(r, a)
      PROVE  MoneyMove
  BY <1>4 DEF AcquireLease, MoneyMove
<1>5. CASE UNCHANGED <<available, reservation, heldOn, ledger>>
  BY <1>5 DEF MoneyMove
<1>6. QED
  BY <1>1, <1>2, <1>3, <1>4, <1>5
  DEF LeaseNext, OwnerNext, Heartbeat, RequestCancel, SetSelectable, Tick, vars, quotaVars, holdVars

LEMMA LeaseGrants == [LeaseNext]_vars => GrantMove
BY DEF LeaseNext, OwnerNext, AcquireLease, Heartbeat, RequestCancel, SettleLease, ReconcileLease,
       RecoverExpired, SetSelectable, Tick, AdminStep, GrantKey, UpdateKey, ReconcileEventGroups,
       GrantMove, Accounts, vars, quotaVars, adminVars

LEMMA TypeOfLedger == LeaseTypeOK => TypeOK
BY DEF LeaseTypeOK

\* No operation of the scheduler overdraws an account.
THEOREM LeaseSolvency == LeaseSpec => []NeverOverdrawn
<1>1. LeaseInit => NeverOverdrawn
  BY DEF LeaseInit, Init, NeverOverdrawn
<1>2. QED
  BY <1>1, AlwaysAgree, LeaseMoves, MoveBalance, TypeOfLedger, StepNeverOverdrawn, PTL
  DEF LeaseSpec

\* The rows of a reservation and its state never disagree, on either account,
\* although settlement, reconciliation and recovery all reach the reservation.
THEOREM LeaseLedgerAgreement == LeaseSpec => []LedgerMatchesReservation
<1>1. LeaseInit => LedgerMatchesReservation
  BY DEF LeaseInit, Init, LedgerMatchesReservation, GroupReserved, GroupSettled
<1>2. QED
  BY <1>1, AlwaysAgree, LeaseMoves, MoveLedger, TypeOfLedger, PTL DEF LeaseSpec

\* What recovery leaves unknown is still held, and what reconciliation finds out
\* later is charged or given back once: no account gains or loses by it.
THEOREM LeaseConservation == LeaseSpec => []Conservation
<1> DEFINE AllFunds == \A a \in Accounts : Funds(a)
<1>1. LeaseInit => AllFunds
  BY InitFunds DEF LeaseInit
<1>2. /\ LeaseTypeOK /\ LeaseTypeOK' /\ AllAgree /\ LedgerMatchesReservation
      /\ AllFunds /\ [LeaseNext]_vars
      => AllFunds'
  BY LeaseMoves, LeaseGrants, MoveFunds DEF LeaseTypeOK
<1>3. AllFunds => Conservation
  BY DEF Funds, Conservation
<1>4. QED
  BY <1>1, <1>2, <1>3, AlwaysAgree, LeaseLedgerAgreement, PTL DEF LeaseSpec

\* Once money is given back or charged, no late settlement, recovery or
\* reconciliation touches it again.
THEOREM LeaseSettlementIsFinal == LeaseSpec => SettledOnce
<1>1. LeaseTypeOK /\ AllAgree /\ [LeaseNext]_vars =>
        [\A r \in Requests :
           reservation[r] \in {"released", "committed"} =>
              reservation'[r] = reservation[r] /\ ledger'[r] = ledger[r]]_quotaVars
  BY LeaseMoves, MoveFinal, TypeOfLedger
<1>2. QED
  BY <1>1, AlwaysAgree, PTL DEF LeaseSpec, SettledOnce

\* With leases, cancels, recovery and reconciliation added, the ledger is
\* still an escrow.
THEOREM LeaseImplementation == LeaseSpec => ImplementsBudgetHold
<1>1. LeaseInit => Escrow!Init
  BY DEF LeaseInit, Init, Escrow!Init, HoldOf
<1>2. QED
  BY <1>1, AlwaysAgree, LeaseMoves, MoveEscrow, TypeOfLedger, PTL
  DEF LeaseSpec, ImplementsBudgetHold, Escrow!Spec

-----------------------------------------------------------------------------
(* Slots. The leases that exist are finitely many at every moment.           *)

Leased == {r \in Requests : leaseState[r] # "none"}

FinitelyLeased == IsFiniteSet(Leased)

\* Only a new lease occupies a slot that was not occupied, and only its own.
SlotMove ==
    \/ \A b \in UpstreamAccounts : OnSlot(b)' \subseteq OnSlot(b)
    \/ \E r \in Requests, a \in UpstreamAccounts :
          /\ Cardinality(OnSlot(a)) < MaxConcurrency[a]
          /\ OnSlot(a)' \subseteq OnSlot(a) \cup {r}
          /\ \A b \in UpstreamAccounts \ {a} : OnSlot(b)' \subseteq OnSlot(b)

LEMMA SlotCases ==
    ASSUME LeaseTypeOK, [LeaseNext]_vars
    PROVE  SlotMove
<1>1. ASSUME NEW r \in Requests, NEW a \in UpstreamAccounts, AcquireLease(r, a)
      PROVE  /\ Cardinality(OnSlot(a)) < MaxConcurrency[a]
             /\ OnSlot(a)' \subseteq OnSlot(a) \cup {r}
             /\ \A b \in UpstreamAccounts \ {a} : OnSlot(b)' \subseteq OnSlot(b)
  BY <1>1 DEF AcquireLease, OnSlot, LeaseTypeOK
<1>2. ASSUME NEW r \in Requests, NEW o \in LeaseOutcome(r), SettleLease(r, o) \/ ReconcileLease(r, o)
      PROVE  \A b \in UpstreamAccounts : OnSlot(b)' \subseteq OnSlot(b)
  <2>1. /\ leaseState' = [leaseState EXCEPT ![r] = o.lease]
        /\ leaseAccount' = leaseAccount
        /\ leaseState[r] \in {"held", "active", "unknown"}
    BY <1>2 DEF SettleLease, ReconcileLease, CloseLease, Open
  <2>2. QED
    BY <2>1 DEF OnSlot, LeaseTypeOK
<1>3. ASSUME UNCHANGED lifeVars
      PROVE  \A b \in UpstreamAccounts : OnSlot(b)' \subseteq OnSlot(b)
  BY <1>3 DEF lifeVars, OnSlot
<1>4. ASSUME NEW r \in Requests, Heartbeat(r)
      PROVE  \A b \in UpstreamAccounts : OnSlot(b)' \subseteq OnSlot(b)
  BY <1>4 DEF Heartbeat, Open, OnSlot, LeaseTypeOK
<1>5. ASSUME RecoverExpired
      PROVE  \A b \in UpstreamAccounts : OnSlot(b)' \subseteq OnSlot(b)
  BY <1>5 DEF RecoverExpired, Expired, Open, OnSlot, LeaseTypeOK
<1>6. ASSUME NEW r \in Requests, RequestCancel(r) PROVE UNCHANGED lifeVars
  BY <1>6 DEF RequestCancel, leaseVars
<1>7. QED
  BY <1>1, <1>2, <1>3, <1>4, <1>5, <1>6, LeaseCases DEF SlotMove

\* Every operation makes at most one new lease.
LeasedMove == Leased' \subseteq Leased \/ \E r \in Requests : Leased' \subseteq Leased \cup {r}

LEMMA LeasedCases ==
    ASSUME LeaseTypeOK, [LeaseNext]_vars
    PROVE  LeasedMove
<1>1. ASSUME NEW q \in Requests, NEW t, leaseState' = [leaseState EXCEPT ![q] = t]
      PROVE  Leased' \subseteq Leased \cup {q}
  BY <1>1 DEF LeaseTypeOK, Leased
<1>2. CASE UNCHANGED leaseState
  BY <1>2 DEF LeasedMove, Leased
<1>3. CASE RecoverExpired
  BY <1>3 DEF RecoverExpired, Expired, Open, LeasedMove, Leased
<1>4. ASSUME NEW q \in Requests, NEW o \in LeaseOutcome(q), SettleLease(q, o) \/ ReconcileLease(q, o)
      PROVE  Leased' \subseteq Leased \cup {q}
  BY <1>1, <1>4 DEF SettleLease, ReconcileLease, CloseLease
<1>5. ASSUME NEW q \in Requests, Heartbeat(q) PROVE Leased' \subseteq Leased \cup {q}
  BY <1>1, <1>5 DEF Heartbeat
<1>6. ASSUME NEW q \in Requests, NEW a \in UpstreamAccounts, AcquireLease(q, a)
      PROVE  Leased' \subseteq Leased \cup {q}
  BY <1>1, <1>6 DEF AcquireLease
<1>7. ASSUME NEW q \in Requests, RequestCancel(q) PROVE UNCHANGED leaseState
  BY <1>7 DEF RequestCancel, leaseVars, lifeVars
<1>8. QED
  BY <1>2, <1>3, <1>4, <1>5, <1>6, <1>7, LeaseCases DEF lifeVars, LeasedMove

LEMMA MoveLeased == FinitelyLeased /\ LeasedMove => FinitelyLeased'
<1> SUFFICES ASSUME FinitelyLeased, LeasedMove PROVE FinitelyLeased'
  OBVIOUS
<1>1. ASSUME NEW q \in Requests, Leased' \subseteq Leased \cup {q} PROVE FinitelyLeased'
  <2>1. IsFiniteSet(Leased \cup {q})
    BY FS_AddElement DEF FinitelyLeased
  <2>2. QED
    BY <1>1, <2>1, FS_Subset DEF FinitelyLeased
<1>2. CASE Leased' \subseteq Leased
  BY <1>2, FS_Subset DEF FinitelyLeased
<1>3. QED
  BY <1>1, <1>2 DEF LeasedMove

LEMMA MoveSlots == FinitelyLeased /\ SlotsWithinLimit /\ SlotMove => SlotsWithinLimit'
<1> SUFFICES ASSUME FinitelyLeased, SlotsWithinLimit, SlotMove, NEW b \in UpstreamAccounts
             PROVE  Cardinality(OnSlot(b)') <= MaxConcurrency[b]
  BY DEF SlotsWithinLimit
<1>0. /\ IsFiniteSet(OnSlot(b))
      /\ Cardinality(OnSlot(b)) \in Nat
      /\ Cardinality(OnSlot(b)) <= MaxConcurrency[b]
      /\ MaxConcurrency[b] \in Nat
  <2>1. OnSlot(b) \subseteq Leased
    BY DEF OnSlot, Leased
  <2>2. QED
    BY <2>1, FS_Subset, FS_CardinalityType, LeaseConstants DEF FinitelyLeased, SlotsWithinLimit
<1>1. CASE OnSlot(b)' \subseteq OnSlot(b)
  <2>1. Cardinality(OnSlot(b)') <= Cardinality(OnSlot(b)) /\ Cardinality(OnSlot(b)') \in Nat
    BY <1>0, <1>1, FS_Subset, FS_CardinalityType
  <2>2. QED
    BY <1>0, <2>1
<1>2. ASSUME NEW r \in Requests, Cardinality(OnSlot(b)) < MaxConcurrency[b],
             OnSlot(b)' \subseteq OnSlot(b) \cup {r}
      PROVE  Cardinality(OnSlot(b)') <= MaxConcurrency[b]
  <2>1. /\ IsFiniteSet(OnSlot(b) \cup {r})
        /\ Cardinality(OnSlot(b) \cup {r}) <= Cardinality(OnSlot(b)) + 1
        /\ Cardinality(OnSlot(b) \cup {r}) \in Nat
    <3>1. CASE r \in OnSlot(b)
      <4>1. OnSlot(b) \cup {r} = OnSlot(b)
        BY <3>1
      <4>2. Cardinality(OnSlot(b)) <= Cardinality(OnSlot(b)) + 1
        BY <1>0
      <4>3. QED
        BY <1>0, <4>1, <4>2, Zenon
    <3>2. CASE r \notin OnSlot(b)
      <4>1. /\ IsFiniteSet(OnSlot(b) \cup {r})
            /\ Cardinality(OnSlot(b) \cup {r}) = Cardinality(OnSlot(b)) + 1
        BY <1>0, <3>2, FS_AddElement
      <4>2. QED
        BY <1>0, <4>1
    <3>3. QED
      BY <3>1, <3>2
  <2>2. Cardinality(OnSlot(b)') <= Cardinality(OnSlot(b) \cup {r})
        /\ Cardinality(OnSlot(b)') \in Nat
    BY <1>2, <2>1, FS_Subset, FS_CardinalityType
  <2>3. QED
    BY <1>0, <1>2, <2>1, <2>2
<1>3. QED
  BY <1>1, <1>2 DEF SlotMove

\* No upstream account ever runs more leases than its slots, however many
\* requests compete for it and however many outcomes stay unknown.
THEOREM LeaseSlots == LeaseSpec => []SlotsWithinLimit
<1>1. LeaseInit => FinitelyLeased
  <2>1. LeaseInit => Leased = {}
    BY DEF LeaseInit, Leased
  <2>2. QED
    BY <2>1, FS_EmptySet DEF FinitelyLeased
<1>2. LeaseInit => SlotsWithinLimit
  <2> SUFFICES ASSUME LeaseInit, NEW a \in UpstreamAccounts
               PROVE  Cardinality(OnSlot(a)) <= MaxConcurrency[a]
    BY DEF SlotsWithinLimit
  <2>1. OnSlot(a) = {}
    BY DEF LeaseInit, OnSlot
  <2>2. QED
    BY <2>1, FS_EmptySet, LeaseConstants
<1>3. QED
  BY <1>1, <1>2, LeaseTypeCorrect, LeasedCases, MoveLeased, SlotCases, MoveSlots, PTL DEF LeaseSpec
=============================================================================
