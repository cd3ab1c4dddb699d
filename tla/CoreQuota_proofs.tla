--------------------------- MODULE CoreQuota_proofs ---------------------------
(* Theorems about the budget ledger, for every set of keys, users, requests. *)
EXTENDS CoreQuota, Sums

LEMMA RowsType ==
    ASSUME TypeOK, NEW r \in Requests, NEW accts \in SUBSET Accounts,
           NEW kind \in EventKind, NEW n \in Nat
    PROVE  Rows(r, accts, kind, n) \in SUBSET Row
BY DEF Rows, Row, TypeOK

\* A row per account, and no others.
LEMMA RowsAccounts ==
    ASSUME NEW r, NEW accts, NEW kind, NEW n
    PROVE  {e.account : e \in Rows(r, accts, kind, n)} = accts
<1>1. ASSUME NEW a \in accts PROVE \E e \in Rows(r, accts, kind, n) : e.account = a
  <2> DEFINE row == [account |-> a, kind |-> kind, amount |-> n, version |-> version[a]]
  <2>1. row \in Rows(r, accts, kind, n) /\ row.account = a
    BY DEF Rows
  <2>2. QED
    BY <2>1
<1>2. \A e \in Rows(r, accts, kind, n) : e.account \in accts
  BY DEF Rows
<1>3. QED
  BY <1>1, <1>2

LEMMA CreditedType ==
    ASSUME TypeOK, NEW accts \in SUBSET Accounts, NEW n \in Int
    PROVE  /\ Credited(accts, n) \in [Accounts -> Int]
           /\ \A a \in Accounts : 
                Credited(accts, n)[a] = IF a \in accts THEN available[a] + n ELSE available[a]
BY DEF Credited, TypeOK

LEMMA AccountsForType ==
    ASSUME NEW r \in Requests
    PROVE  AccountsFor(r) \in SUBSET Accounts /\ KeyOf[r] \in AccountsFor(r)
BY QuotaConstants DEF AccountsFor, Accounts

LEMMA AmountType == ASSUME NEW r \in Requests PROVE Amount[r] \in Nat /\ Amount[r] > 0
BY QuotaConstants

LEMMA InitType == Init => TypeOK
BY QuotaConstants DEF Init, TypeOK, MigrationState, ReservationState, RequestState, Row, Accounts

LEMMA AdjustType ==
    ASSUME TypeOK, NEW a \in Accounts, NEW n \in Grants, Adjust(a, n)
    PROVE  TypeOK'
<1>1. n \in Nat /\ n > 0
  BY QuotaConstants DEF Grants
<1>2. QED
  BY <1>1 DEF Adjust, TypeOK, keyVars

LEMMA ReserveDualType ==
    ASSUME TypeOK, NEW r \in Requests, ReserveDual(r)
    PROVE  /\ reservation' \in [Requests -> ReservationState \cup {"none"}]
           /\ heldOn' \in [Requests -> SUBSET Accounts]
           /\ ledger' \in [Requests -> SUBSET Row]
           /\ available' \in [Accounts -> Int]
<1>1. Rows(r, AccountsFor(r), "reserve", Amount[r]) \in SUBSET Row
  BY RowsType, AccountsForType, AmountType DEF EventKind
<1>2. available' \in [Accounts -> Int]
  BY CreditedType, AccountsForType, AmountType DEF ReserveDual
<1>3. QED
  BY <1>1, <1>2, AccountsForType DEF ReserveDual, TypeOK, ReservationState

LEMMA SettlementType ==
    ASSUME TypeOK, NEW r \in Requests, NEW s \in Settlement(r), ApplySettlement(r, s)
    PROVE  /\ reservation' \in [Requests -> ReservationState \cup {"none"}]
           /\ heldOn' \in [Requests -> SUBSET Accounts]
           /\ ledger' \in [Requests -> SUBSET Row]
           /\ available' \in [Accounts -> Int]
<1>1. s.units \in Nat
  BY AmountType DEF Settlement
<1>2. heldOn[r] \in SUBSET Accounts /\ ledger[r] \in SUBSET Row
  BY DEF TypeOK
<1>3. Rows(r, heldOn[r], "release", Amount[r]) \in SUBSET Row
  BY RowsType, <1>2, AmountType DEF EventKind
<1>4. Rows(r, heldOn[r], "commit", s.units) \in SUBSET Row
  BY RowsType, <1>1, <1>2 DEF EventKind
<1>5. ledger' \in [Requests -> SUBSET Row]
  BY <1>2, <1>3, <1>4 DEF ApplySettlement, TypeOK
<1>6. available' \in [Accounts -> Int]
  <2>1. Amount[r] \in Int /\ Amount[r] - s.units \in Int
    BY <1>1, AmountType
  <2>2. \A n \in Int : Credited(heldOn[r], n) \in [Accounts -> Int]
    BY <1>2, CreditedType
  <2>3. QED
    BY <2>1, <2>2 DEF ApplySettlement, TypeOK
<1>7. QED
  BY <1>5, <1>6 DEF ApplySettlement, TypeOK, ReservationState

LEMMA StepType == TypeOK /\ [Next]_quotaVars => TypeOK'
<1> SUFFICES ASSUME TypeOK, [Next]_quotaVars PROVE TypeOK'
  OBVIOUS
<1>1. ASSUME NEW u \in Users, NEW n \in Grants, GrantPool(u, n) PROVE TypeOK'
  BY <1>1, AdjustType DEF GrantPool, Accounts
<1>2. ASSUME NEW k \in Keys, NEW n \in Grants, AllocateFromPool(k, n) \/ GrantKey(k, n)
      PROVE  TypeOK'
  BY <1>2, AdjustType DEF AllocateFromPool, GrantKey, Accounts
<1>3. ASSUME NEW k \in Keys, NEW enabled \in BOOLEAN, NEW limit \in Limits,
             UpdateKey(k, enabled, limit)
      PROVE  TypeOK'
  BY <1>3 DEF UpdateKey, holdVars, TypeOK
<1>4. ASSUME NEW r \in Requests, PreflightReserve(r) PROVE TypeOK'
  <2>1. ReserveDual(r)
    BY <1>4 DEF PreflightReserve
  <2>2. request' \in [Requests -> RequestState \cup {"absent"}]
    BY <1>4 DEF PreflightReserve, TypeOK, RequestState
  <2>3. QED
    BY <1>4, <2>1, <2>2, ReserveDualType DEF PreflightReserve, TypeOK, adminVars
<1>5. ASSUME NEW r \in Requests, NEW c \in SettleCalls(r), SettleRequest(r, c[1], c[2])
      PROVE  TypeOK'
  <2>1. c[1] \in Settlement(r)
    BY DEF SettleCalls
  <2>2. ApplySettlement(r, c[1])
    BY <1>5 DEF SettleRequest
  <2>3. request' \in [Requests -> RequestState \cup {"absent"}]
    BY <1>5 DEF SettleRequest, TypeOK, RequestState
  <2>4. QED
    BY <1>5, <2>1, <2>2, <2>3, SettlementType DEF SettleRequest, TypeOK, adminVars
<1>6. CASE ReconcileEventGroups
  BY <1>6 DEF ReconcileEventGroups, TypeOK, MigrationState, keyVars, holdVars
<1>7. CASE UNCHANGED quotaVars
  BY <1>7 DEF quotaVars, adminVars, holdVars, TypeOK
<1>8. QED
  BY <1>1, <1>2, <1>3, <1>4, <1>5, <1>6, <1>7
  DEF Next, AdminNext, RequestNext

\* Every variable keeps its type.
THEOREM TypeCorrect == Spec => []TypeOK
BY InitType, StepType, PTL DEF Spec

-----------------------------------------------------------------------------
(* The case split every step proof below uses: a step moves no reservation,  *)
(* or reserves one request, or settles one held reservation.                 *)

LEMMA StepCases ==
    ASSUME TypeOK, [Next]_quotaVars
    PROVE  \/ UNCHANGED <<request, reservation, heldOn, ledger>>
           \/ \E r \in Requests : PreflightReserve(r)
           \/ \E r \in Requests : \E c \in SettleCalls(r) : SettleRequest(r, c[1], c[2])
BY DEF Next, AdminNext, RequestNext, GrantPool, AllocateFromPool, GrantKey,
       Adjust, UpdateKey, ReconcileEventGroups, quotaVars, adminVars, holdVars

\* What any operation of the store may do to the balances.
BalanceStep ==
    \/ UNCHANGED available
    \/ \E a \in Accounts, n \in Grants : Adjust(a, n)
    \/ \E r \in Requests : ReserveDual(r)
    \/ \E r \in Requests : \E s \in Settlement(r) : ApplySettlement(r, s)

LEMMA AvailableCases == TypeOK /\ [Next]_quotaVars => BalanceStep
<1> SUFFICES ASSUME TypeOK, [Next]_quotaVars PROVE BalanceStep
  OBVIOUS
<1>1. ASSUME NEW r \in Requests, NEW c \in SettleCalls(r), SettleRequest(r, c[1], c[2])
      PROVE  \E s \in Settlement(r) : ApplySettlement(r, s)
  BY <1>1 DEF SettleCalls, SettleRequest
<1>2. QED
  BY <1>1 DEF BalanceStep, Next, AdminNext, RequestNext, GrantPool,
       AllocateFromPool, GrantKey, UpdateKey, PreflightReserve, ReconcileEventGroups,
       quotaVars, adminVars, holdVars, Accounts

LEMMA StepNeverOverdrawn == TypeOK /\ NeverOverdrawn /\ BalanceStep => NeverOverdrawn'
<1> SUFFICES ASSUME TypeOK, NeverOverdrawn, BalanceStep, NEW a \in Accounts
             PROVE  available'[a] >= 0
  BY DEF NeverOverdrawn
<1>0. available[a] \in Int /\ available[a] >= 0
  BY DEF TypeOK, NeverOverdrawn
<1>1. CASE UNCHANGED available
  BY <1>0, <1>1
<1>2. ASSUME NEW b \in Accounts, NEW n \in Grants, Adjust(b, n) PROVE available'[a] >= 0
  BY <1>0, <1>2, QuotaConstants DEF Adjust, TypeOK, Grants
<1>3. ASSUME NEW r \in Requests, ReserveDual(r) PROVE available'[a] >= 0
  <2>1. available' = Credited(AccountsFor(r), -Amount[r])
        /\ (a \in AccountsFor(r) => available[a] >= Amount[r])
    BY <1>3 DEF ReserveDual
  <2>2. QED
    BY <1>0, <2>1, AmountType DEF Credited
<1>4. ASSUME NEW r \in Requests, NEW s \in Settlement(r), ApplySettlement(r, s)
      PROVE  available'[a] >= 0
  <2>1. s.units \in Nat /\ s.units <= Amount[r]
    BY AmountType DEF Settlement
  <2>2. \/ available' = Credited(heldOn[r], Amount[r])
        \/ available' = Credited(heldOn[r], Amount[r] - s.units)
        \/ available' = available
    BY <1>4 DEF ApplySettlement
  <2>3. QED
    BY <1>0, <2>1, <2>2, AmountType DEF Credited
<1>5. QED
  BY <1>1, <1>2, <1>3, <1>4 DEF BalanceStep

\* No account is ever overdrawn.
THEOREM Solvency == Spec => []NeverOverdrawn
<1>1. Init => NeverOverdrawn
  BY DEF Init, NeverOverdrawn
<1>2. QED
  BY <1>1, TypeCorrect, AvailableCases, StepNeverOverdrawn, PTL DEF Spec

-----------------------------------------------------------------------------
(* The event group of a reservation says the same as its state.              *)

LEMMA ReservedGroup ==
    ASSUME TypeOK, NEW r \in Requests, ReserveDual(r)
    PROVE  GroupReserved(r)' /\ GroupSettled(r)'
<1>1. /\ reservation'[r] = "held"
      /\ heldOn'[r] = AccountsFor(r)
      /\ ledger'[r] = Rows(r, AccountsFor(r), "reserve", Amount[r])
  BY DEF ReserveDual, TypeOK
<1>2. \A e \in ledger'[r] : e.kind = "reserve" /\ e.amount = Amount[r]
                            /\ e.account \in AccountsFor(r) /\ e.version = version[e.account]
  BY <1>1 DEF Rows
<1>3. {e.account : e \in {f \in ledger'[r] : f.kind = "reserve"}} = AccountsFor(r)
  <2>1. {f \in ledger'[r] : f.kind = "reserve"} = Rows(r, AccountsFor(r), "reserve", Amount[r])
    BY <1>1, <1>2
  <2>2. QED
    BY <2>1, RowsAccounts
<1>4. \A e, f \in ledger'[r] : e.kind = f.kind /\ e.account = f.account => e = f
  BY <1>1 DEF Rows
<1>5. GroupReserved(r)'
  BY <1>1, <1>2, <1>3, <1>4, AccountsForType DEF GroupReserved
<1>6. GroupSettled(r)'
  BY <1>1, <1>2 DEF GroupSettled
<1>7. QED
  BY <1>5, <1>6

LEMMA SettledGroup ==
    ASSUME TypeOK, NEW r \in Requests, NEW s \in Settlement(r),
           Unsettled(r), GroupReserved(r), GroupSettled(r),
           ApplySettlement(r, s)
    PROVE  GroupReserved(r)' /\ GroupSettled(r)'
<1>0. heldOn'[r] = heldOn[r] /\ heldOn[r] # {} /\ \A e \in ledger[r] : e.kind = "reserve"
  BY DEF ApplySettlement, Unsettled, GroupReserved, GroupSettled
<1>1. CASE UNCHANGED ledger /\ reservation'[r] = "unknown"
  BY <1>0, <1>1 DEF GroupReserved, GroupSettled
<1>2. ASSUME NEW kind \in {"release", "commit"}, NEW n \in Nat, n <= Amount[r],
             ledger'[r] = ledger[r] \cup Rows(r, heldOn[r], kind, n),
             reservation'[r] = IF kind = "release" THEN "released" ELSE "committed"
      PROVE  GroupReserved(r)' /\ GroupSettled(r)'
  <2>1. \A e \in Rows(r, heldOn[r], kind, n) :
            e.kind = kind /\ e.amount = n /\ e.account \in heldOn[r]
    BY DEF Rows
  <2>2. \A e, f \in Rows(r, heldOn[r], kind, n) : e.account = f.account => e = f
    BY DEF Rows
  <2>3. {e.account : e \in Rows(r, heldOn[r], kind, n)} = heldOn[r]
    BY RowsAccounts
  <2>4. {e \in ledger'[r] : e.kind = "reserve"} = {e \in ledger[r] : e.kind = "reserve"}
    BY <1>2, <2>1
  <2>5. {e \in ledger'[r] : e.kind # "reserve"} = Rows(r, heldOn[r], kind, n)
    BY <1>0, <1>2, <2>1
  <2>6. \A e, f \in ledger'[r] : e.kind = f.kind /\ e.account = f.account => e = f
    BY <1>0, <1>2, <2>1, <2>2 DEF GroupReserved
  <2>7. GroupReserved(r)'
    BY <1>0, <1>2, <2>4, <2>6 DEF GroupReserved
  <2>8. Rows(r, heldOn[r], kind, n) # {}
    BY <1>0, <2>3
  <2>9. GroupSettled(r)'
    BY <1>0, <1>2, <2>1, <2>3, <2>5, <2>8 DEF GroupSettled
  <2>10. QED
    BY <2>7, <2>9
<1>3. QED
  <2>1. s.units \in Nat /\ s.units <= Amount[r]
    BY AmountType DEF Settlement
  <2>2. \/ /\ ledger'[r] = ledger[r] \cup Rows(r, heldOn[r], "release", Amount[r])
           /\ reservation'[r] = "released"
        \/ /\ ledger'[r] = ledger[r] \cup Rows(r, heldOn[r], "commit", s.units)
           /\ reservation'[r] = "committed"
        \/ UNCHANGED ledger /\ reservation'[r] = "unknown"
    BY DEF ApplySettlement, TypeOK
  <2>3. QED
    BY <1>1, <1>2, <2>1, <2>2, AmountType

LEMMA StepLedger ==
    TypeOK /\ LedgerMatchesReservation /\ [Next]_quotaVars => LedgerMatchesReservation'
<1> SUFFICES ASSUME TypeOK, LedgerMatchesReservation, [Next]_quotaVars, NEW r \in Requests
             PROVE  GroupReserved(r)' /\ GroupSettled(r)'
  BY DEF LedgerMatchesReservation
<1>0. GroupReserved(r) /\ GroupSettled(r)
  BY DEF LedgerMatchesReservation
<1>1. CASE UNCHANGED <<reservation[r], heldOn[r], ledger[r]>>
  BY <1>0, <1>1 DEF GroupReserved, GroupSettled
<1>2. ASSUME NEW q \in Requests, PreflightReserve(q) PROVE GroupReserved(r)' /\ GroupSettled(r)'
  <2>1. ReserveDual(q)
    BY <1>2 DEF PreflightReserve
  <2>2. CASE q = r
    BY <2>1, <2>2, ReservedGroup
  <2>3. CASE q # r
    BY <1>1, <2>1, <2>3 DEF ReserveDual, TypeOK
  <2>4. QED
    BY <2>2, <2>3
<1>3. ASSUME NEW q \in Requests, NEW c \in SettleCalls(q), SettleRequest(q, c[1], c[2])
      PROVE  GroupReserved(r)' /\ GroupSettled(r)'
  <2>1. /\ reservation[q] = "held"
        /\ c[1] \in Settlement(q)
        /\ ApplySettlement(q, c[1])
    BY <1>3 DEF SettleRequest, SettleCalls
  <2>2. CASE q = r
    BY <1>0, <2>1, <2>2, SettledGroup DEF Unsettled
  <2>3. CASE q # r
    BY <1>1, <2>1, <2>3 DEF ApplySettlement, TypeOK
  <2>4. QED
    BY <2>2, <2>3
<1>4. QED
  BY <1>1, <1>2, <1>3, StepCases

\* The rows of a reservation and its state never disagree, on either account.
THEOREM LedgerAgreement == Spec => []LedgerMatchesReservation
<1>1. Init => LedgerMatchesReservation
  BY DEF Init, LedgerMatchesReservation, GroupReserved, GroupSettled
<1>2. QED
  BY <1>1, TypeCorrect, StepLedger, PTL DEF Spec

-----------------------------------------------------------------------------
(* Requests and their holds.                                                 *)

LEMMA StepHold == TypeOK /\ HoldFollowsRequest /\ [Next]_quotaVars => HoldFollowsRequest'
<1> SUFFICES ASSUME TypeOK, HoldFollowsRequest, [Next]_quotaVars PROVE HoldFollowsRequest'
  OBVIOUS
<1>1. CASE UNCHANGED <<request, reservation, heldOn, ledger>>
  BY <1>1 DEF HoldFollowsRequest
<1>2. ASSUME NEW q \in Requests, PreflightReserve(q) PROVE HoldFollowsRequest'
  BY <1>2 DEF PreflightReserve, ReserveDual, HoldFollowsRequest, TypeOK
<1>3. ASSUME NEW q \in Requests, NEW c \in SettleCalls(q), SettleRequest(q, c[1], c[2])
      PROVE  HoldFollowsRequest'
  <2>1. /\ request' = [request EXCEPT ![q] = "settled"]
        /\ \E t \in {"released", "committed", "unknown"} :
              reservation' = [reservation EXCEPT ![q] = t]
    BY <1>3 DEF SettleRequest, ApplySettlement
  <2>2. QED
    BY <2>1 DEF HoldFollowsRequest, TypeOK
<1>4. QED
  BY <1>1, <1>2, <1>3, StepCases

\* A request holds money exactly while it is in flight.
THEOREM HoldDiscipline == Spec => []HoldFollowsRequest
<1>1. Init => HoldFollowsRequest
  BY DEF Init, HoldFollowsRequest
<1>2. QED
  BY <1>1, TypeCorrect, StepHold, PTL DEF Spec

LEMMA StepFinal ==
    ASSUME TypeOK, [Next]_quotaVars, NEW r \in Requests,
           reservation[r] \in {"released", "committed"}
    PROVE  reservation'[r] = reservation[r] /\ ledger'[r] = ledger[r]
<1>1. CASE UNCHANGED <<request, reservation, heldOn, ledger>>
  BY <1>1
<1>2. ASSUME NEW q \in Requests, PreflightReserve(q)
      PROVE  reservation'[r] = reservation[r] /\ ledger'[r] = ledger[r]
  BY <1>2 DEF PreflightReserve, ReserveDual, TypeOK
<1>3. ASSUME NEW q \in Requests, NEW c \in SettleCalls(q), SettleRequest(q, c[1], c[2])
      PROVE  reservation'[r] = reservation[r] /\ ledger'[r] = ledger[r]
  BY <1>3 DEF SettleRequest, ApplySettlement, TypeOK
<1>4. QED
  BY <1>1, <1>2, <1>3, StepCases

\* A released or committed reservation never changes again.
THEOREM SettlementIsFinal == Spec => SettledOnce
<1>1. TypeOK /\ [Next]_quotaVars =>
        [\A r \in Requests :
           reservation[r] \in {"released", "committed"} =>
              reservation'[r] = reservation[r] /\ ledger'[r] = ledger[r]]_quotaVars
  BY StepFinal
<1>2. QED
  BY <1>1, TypeCorrect, PTL DEF Spec, SettledOnce

-----------------------------------------------------------------------------
(* Admission. The requests that exist are finitely many at every moment,    *)
(* whatever the set of requests that could be made.                          *)

FinitelyMany == IsFiniteSet({r \in Requests : request[r] # "absent"})

LEMMA StepFinite == TypeOK /\ FinitelyMany /\ [Next]_quotaVars => FinitelyMany'
<1> SUFFICES ASSUME TypeOK, FinitelyMany, [Next]_quotaVars PROVE FinitelyMany'
  OBVIOUS
<1> DEFINE E == {r \in Requests : request[r] # "absent"}
<1>1. ASSUME NEW q \in Requests, NEW t, request' = [request EXCEPT ![q] = t]
      PROVE  FinitelyMany'
  <2>1. E' \subseteq E \cup {q}
    BY <1>1 DEF TypeOK
  <2>2. IsFiniteSet(E \cup {q})
    BY FS_AddElement DEF FinitelyMany
  <2>3. QED
    BY <2>1, <2>2, FS_Subset DEF FinitelyMany
<1>2. CASE UNCHANGED request
  BY <1>2 DEF FinitelyMany
<1>3. QED
  BY <1>1, <1>2, StepCases DEF PreflightReserve, SettleRequest

LEMMA StepAdmission ==
    ASSUME TypeOK, FinitelyMany, [Next]_quotaVars, NEW k \in Keys,
           Cardinality(ActiveRequests(k)') > Cardinality(ActiveRequests(k))
    PROVE  Cardinality(ActiveRequests(k)') <= keyLimit[k]
<1>0. IsFiniteSet(ActiveRequests(k)) /\ Cardinality(ActiveRequests(k)) \in Nat
  <2>1. ActiveRequests(k) \subseteq {r \in Requests : request[r] # "absent"}
    BY DEF ActiveRequests, CountedStates
  <2>2. QED
    BY <2>1, FS_Subset, FS_CardinalityType DEF FinitelyMany
<1>1. CASE ActiveRequests(k)' \subseteq ActiveRequests(k)
  <2>1. Cardinality(ActiveRequests(k)') <= Cardinality(ActiveRequests(k))
        /\ Cardinality(ActiveRequests(k)') \in Nat
    BY <1>0, <1>1, FS_Subset, FS_CardinalityType
  <2>2. QED
    BY <1>0, <2>1
<1>2. ASSUME NEW q \in Requests, PreflightReserve(q)
      PROVE  Cardinality(ActiveRequests(k)') <= keyLimit[k]
  <2>0. /\ request[q] = "absent"
        /\ request' = [request EXCEPT ![q] = "reserved"]
        /\ Cardinality(ActiveRequests(KeyOf[q])) < keyLimit[KeyOf[q]]
    BY <1>2 DEF PreflightReserve
  <2>1. CASE KeyOf[q] = k
    <3>1. q \notin ActiveRequests(k) /\ ActiveRequests(k)' = ActiveRequests(k) \cup {q}
      BY <2>0, <2>1 DEF ActiveRequests, CountedStates, TypeOK
    <3>2. Cardinality(ActiveRequests(k)') = Cardinality(ActiveRequests(k)) + 1
      BY <1>0, <3>1, FS_AddElement
    <3>3. keyLimit[k] \in Nat
      BY QuotaConstants DEF TypeOK
    <3>4. QED
      BY <1>0, <2>0, <2>1, <3>2, <3>3
  <2>2. CASE KeyOf[q] # k
    <3>1. ActiveRequests(k)' \subseteq ActiveRequests(k)
      BY <2>0, <2>2 DEF ActiveRequests, TypeOK
    <3>2. QED
      BY <1>1, <3>1
  <2>3. QED
    BY <2>1, <2>2
<1>3. ASSUME NEW q \in Requests, NEW c \in SettleCalls(q), SettleRequest(q, c[1], c[2])
      PROVE  Cardinality(ActiveRequests(k)') <= keyLimit[k]
  <2>1. ActiveRequests(k)' \subseteq ActiveRequests(k)
    BY <1>3 DEF SettleRequest, ActiveRequests, CountedStates, TypeOK
  <2>2. QED
    BY <1>1, <2>1
<1>4. CASE UNCHANGED request
  <2>1. ActiveRequests(k)' \subseteq ActiveRequests(k)
    BY <1>4 DEF ActiveRequests
  <2>2. QED
    BY <1>1, <2>1
<1>5. QED
  BY <1>2, <1>3, <1>4, StepCases

\* No step takes a key above its concurrency limit.
THEOREM Admission == Spec => AdmissionWithinLimit
<1>1. Init => FinitelyMany
  <2>1. Init => {r \in Requests : request[r] # "absent"} = {}
    BY DEF Init
  <2>2. QED
    BY <2>1, FS_EmptySet DEF FinitelyMany
<1>2. TypeOK /\ FinitelyMany /\ [Next]_quotaVars =>
        [\A k \in Keys :
           Cardinality(ActiveRequests(k)') > Cardinality(ActiveRequests(k)) =>
              Cardinality(ActiveRequests(k)') <= keyLimit[k]]_quotaVars
  BY StepAdmission
<1>3. QED
  BY <1>1, <1>2, TypeCorrect, StepFinite, PTL DEF Spec, AdmissionWithinLimit

-----------------------------------------------------------------------------
(* Conservation. The balance the code computes for an account is two sums,   *)
(* over the unsettled reservations it is held on and over its commit rows;    *)
(* both sets are finite at every moment and a step moves one amount at most.   *)

Funds(a) ==
    /\ IsFiniteSet(HoldsOn(a))
    /\ IsFiniteSet(SettledRows(a))
    /\ available[a] + Held(a) + Settled(a) = granted[a]

\* What a settled row of an account is.
LEMMA SettledRow ==
    ASSUME NEW a, NEW re
    PROVE  re \in SettledRows(a) <=>
             \E r \in Requests : \E e \in ledger[r] :
                re = <<r, e>> /\ e.account = a /\ e.kind = "commit"
BY DEF SettledRows

LEMMA SettledAmounts ==
    ASSUME TypeOK, NEW a, NEW re \in SettledRows(a)
    PROVE  re[2].amount \in Nat
<1>0. PICK r \in Requests : \E e \in ledger[r] : re = <<r, e>>
  BY SettledRow
<1>1. PICK e \in ledger[r] : re = <<r, e>>
  BY <1>0
<1>2. e \in Row
  BY <1>1 DEF TypeOK
<1> QED
  BY <1>1, <1>2 DEF Row

\* Both sums are natural numbers.
LEMMA FundsNat ==
    ASSUME TypeOK, NEW a, Funds(a)
    PROVE  Held(a) \in Nat /\ Settled(a) \in Nat
<1>1. \A r \in HoldsOn(a) : Amount[r] \in Nat
  BY AmountType DEF HoldsOn
<1>2. \A re \in SettledRows(a) : [q \in SettledRows(a) |-> q[2].amount][re] \in Nat
  BY SettledAmounts
<1> QED
  BY <1>1, <1>2, SumNat DEF Funds, Held, Settled

LEMMA HeldSame == ASSUME NEW a, HoldsOn(a)' = HoldsOn(a) PROVE Held(a)' = Held(a)
BY DEF Held

LEMMA SettledSame == ASSUME NEW a, SettledRows(a)' = SettledRows(a) PROVE Settled(a)' = Settled(a)
BY DEF Settled

LEMMA SettledAdds ==
    ASSUME TypeOK, TypeOK', NEW a, IsFiniteSet(SettledRows(a)), NEW re, re \notin SettledRows(a),
           SettledRows(a)' = SettledRows(a) \cup {re}
    PROVE  /\ IsFiniteSet(SettledRows(a))'
           /\ Settled(a)' = Settled(a) + re[2].amount
           /\ Settled(a) \in Int /\ re[2].amount \in Nat
<1> DEFINE S == SettledRows(a)
           f == [q \in S |-> q[2].amount]
           g == [q \in S \cup {re} |-> q[2].amount]
<1>1. \A q \in S \cup {re} : q[2].amount \in Nat
  <2>1. \A q \in S : q[2].amount \in Nat
    BY SettledAmounts
  <2>2. TypeOK' /\ re \in SettledRows(a)' => (re[2].amount \in Nat)
    <3>1. SUFFICES ASSUME TypeOK', re \in SettledRows(a)' PROVE re[2].amount \in Nat
      OBVIOUS
    <3>0. PICK r \in Requests : \E e \in ledger'[r] : re = <<r, e>>
      BY <3>1 DEF SettledRows
    <3>2. PICK e \in ledger'[r] : re = <<r, e>>
      BY <3>0
    <3>3. e \in Row
      BY <3>1, <3>2 DEF TypeOK
    <3> QED
      BY <3>2, <3>3 DEF Row
  <2> QED
    BY <2>1, <2>2
<1>2. SumFunctionOnSet(g, S) = SumFunctionOnSet(f, S)
  BY SumSame
<1>3. SumFunctionOnSet(g, S \cup {re}) = SumFunctionOnSet(g, S) + g[re]
  BY <1>1, SumAdd
<1>4. Settled(a)' = SumFunctionOnSet(g, S \cup {re}) /\ Settled(a) = SumFunctionOnSet(f, S)
  BY DEF Settled
<1>5. SumFunctionOnSet(f, S) \in Int
  BY <1>1, SumType
<1>6. IsFiniteSet(S \cup {re})
  BY FS_AddElement
<1> QED
  BY <1>1, <1>2, <1>3, <1>4, <1>5, <1>6

LEMMA HeldAdds ==
    ASSUME NEW a, IsFiniteSet(HoldsOn(a)), NEW r \in Requests, r \notin HoldsOn(a),
           HoldsOn(a)' = HoldsOn(a) \cup {r}
    PROVE  IsFiniteSet(HoldsOn(a))' /\ Held(a)' = Held(a) + Amount[r] /\ Held(a) \in Int
<1>1. \A q \in HoldsOn(a) \cup {r} : Amount[q] \in Int
  BY AmountType DEF HoldsOn
<1>2. SumFunctionOnSet(Amount, HoldsOn(a) \cup {r}) = SumFunctionOnSet(Amount, HoldsOn(a)) + Amount[r]
  BY <1>1, SumAdd
<1>3. SumFunctionOnSet(Amount, HoldsOn(a)) \in Int
  BY <1>1, SumType
<1> QED
  BY <1>2, <1>3, FS_AddElement DEF Held

LEMMA HeldLoses ==
    ASSUME NEW a, IsFiniteSet(HoldsOn(a)), NEW r \in HoldsOn(a),
           HoldsOn(a)' = HoldsOn(a) \ {r}
    PROVE  IsFiniteSet(HoldsOn(a))' /\ Held(a)' = Held(a) - Amount[r] /\ Held(a) \in Int
<1>1. \A q \in HoldsOn(a) : Amount[q] \in Int
  BY AmountType DEF HoldsOn
<1>2. SumFunctionOnSet(Amount, HoldsOn(a)) = Amount[r] + SumFunctionOnSet(Amount, HoldsOn(a) \ {r})
  BY <1>1, SumRemove
<1>3. IsFiniteSet(HoldsOn(a) \ {r})
  BY FS_RemoveElement
<1>4. SumFunctionOnSet(Amount, HoldsOn(a) \ {r}) \in Int
  BY <1>1, <1>3, SumType
<1> QED
  BY <1>1, <1>2, <1>3, <1>4 DEF Held

\* A step that moves no reservation, and grants what it adds.
LEMMA FundsGranted ==
    ASSUME TypeOK, TypeOK', NEW a \in Accounts, Funds(a),
           UNCHANGED <<reservation, heldOn, ledger>>,
           available'[a] - available[a] = granted'[a] - granted[a]
    PROVE  Funds(a)'
<1>1. HoldsOn(a)' = HoldsOn(a) /\ SettledRows(a)' = SettledRows(a)
  BY DEF HoldsOn, Unsettled, SettledRows
<1>2. Held(a)' = Held(a) /\ Settled(a)' = Settled(a)
  BY <1>1, HeldSame, SettledSame
<1>3. available[a] \in Int /\ available'[a] \in Int /\ granted[a] \in Int /\ granted'[a] \in Int
  BY DEF TypeOK
<1> QED
  BY <1>1, <1>2, <1>3, FundsNat DEF Funds

\* A reservation moves its amount from what is available to what is held.
LEMMA FundsReserved ==
    ASSUME TypeOK, TypeOK', NEW r \in Requests, ReserveDual(r), ledger[r] = {},
           NEW a \in Accounts, Funds(a), granted'[a] = granted[a]
    PROVE  Funds(a)'
<1>1. r \notin HoldsOn(a)
  BY DEF ReserveDual, HoldsOn, Unsettled
<1>2. /\ reservation'[r] = "held" /\ heldOn'[r] = AccountsFor(r)
      /\ \A e \in ledger'[r] : e.kind = "reserve"
      /\ \A q \in Requests : q # r =>
            reservation'[q] = reservation[q] /\ heldOn'[q] = heldOn[q] /\ ledger'[q] = ledger[q]
  BY DEF ReserveDual, Rows, TypeOK
<1>3. SettledRows(a)' = SettledRows(a)
  <2>1. ASSUME NEW q \in Requests PROVE {e \in ledger'[q] : e.kind = "commit"} = {e \in ledger[q] : e.kind = "commit"}
    BY <1>1, <1>2
  <2>2. \A q \in Requests : \A e : e \in ledger'[q] /\ e.kind = "commit" <=> e \in ledger[q] /\ e.kind = "commit"
    BY <2>1
  <2> QED
    BY <2>2 DEF SettledRows
<1>4. Settled(a)' = Settled(a) /\ Settled(a) \in Int
  BY <1>3, SettledSame, FundsNat
<1>5. available[a] \in Int /\ granted[a] \in Int /\ Amount[r] \in Int
  BY AmountType DEF TypeOK
<1>6. CASE a \in AccountsFor(r)
  <2>1. HoldsOn(a)' = HoldsOn(a) \cup {r}
    BY <1>2, <1>6 DEF HoldsOn, Unsettled
  <2>2. available'[a] = available[a] + -Amount[r]
    BY <1>6 DEF ReserveDual, Credited
  <2>3. IsFiniteSet(HoldsOn(a))' /\ Held(a)' = Held(a) + Amount[r] /\ Held(a) \in Int
    BY <1>1, <2>1, HeldAdds DEF Funds
  <2> QED
    BY <1>3, <1>4, <1>5, <2>2, <2>3 DEF Funds
<1>7. CASE a \notin AccountsFor(r)
  <2>1. HoldsOn(a)' = HoldsOn(a)
    BY <1>1, <1>2, <1>7 DEF HoldsOn, Unsettled
  <2>2. available'[a] = available[a]
    BY <1>7 DEF ReserveDual, Credited
  <2>3. Held(a)' = Held(a)
    BY <2>1, HeldSame
  <2> QED
    BY <1>3, <1>4, <2>1, <2>2, <2>3 DEF Funds
<1> QED
  BY <1>6, <1>7

\* The end of a reservation: what was held is available again but for n, for
\* which there is a commit row on each account.
LEMMA FundsEnded ==
    ASSUME TypeOK, TypeOK', NEW r \in Requests, Unsettled(r), \A e \in ledger[r] : e.kind = "reserve",
           NEW kind \in {"release", "commit"}, NEW m \in Nat, NEW n \in Nat,
           n = (IF kind = "commit" THEN m ELSE 0),
           reservation' = [reservation EXCEPT ![r] = IF kind = "release" THEN "released" ELSE "committed"],
           heldOn' = heldOn,
           ledger' = [ledger EXCEPT ![r] = ledger[r] \cup Rows(r, heldOn[r], kind, m)],
           available' = Credited(heldOn[r], Amount[r] - n),
           NEW a \in Accounts, Funds(a), granted'[a] = granted[a]
    PROVE  Funds(a)'
<1>0. available[a] \in Int /\ granted[a] \in Int /\ Amount[r] \in Int /\ Held(a) \in Int /\ Settled(a) \in Int
  BY AmountType, FundsNat DEF TypeOK
<1>1. /\ ~Unsettled(r)'
      /\ \A q \in Requests : q # r => (Unsettled(q)' <=> Unsettled(q)) /\ ledger'[q] = ledger[q]
      /\ ledger'[r] = ledger[r] \cup Rows(r, heldOn[r], kind, m)
  BY DEF Unsettled, TypeOK
<1>2. HoldsOn(a)' = HoldsOn(a) \ {r}
  BY <1>1 DEF HoldsOn
<1> DEFINE row == [account |-> a, kind |-> kind, amount |-> m, version |-> version[a]]
<1>3. \A re : re \in SettledRows(a)' <=>
         re \in SettledRows(a) \/ (kind = "commit" /\ a \in heldOn[r] /\ re = <<r, row>>)
  <2>1. \A e \in Rows(r, heldOn[r], kind, m) : e.account = a => e = row /\ a \in heldOn[r]
    BY DEF Rows
  <2>2. a \in heldOn[r] => row \in Rows(r, heldOn[r], kind, m)
    BY DEF Rows
  <2>3. row.account = a /\ row.kind = kind
    OBVIOUS
  <2> HIDE DEF row
  <2>4. ASSUME NEW re PROVE re \in SettledRows(a)' <=>
           \E q \in Requests : \E e \in ledger'[q] : re = <<q, e>> /\ e.account = a /\ e.kind = "commit"
    BY DEF SettledRows
  <2>5. ASSUME NEW re, re \in SettledRows(a)'
        PROVE  re \in SettledRows(a) \/ (kind = "commit" /\ a \in heldOn[r] /\ re = <<r, row>>)
    <3>0. PICK q \in Requests : \E e \in ledger'[q] : re = <<q, e>> /\ e.account = a /\ e.kind = "commit"
      BY <2>4, <2>5
    <3>1. PICK e \in ledger'[q] : re = <<q, e>> /\ e.account = a /\ e.kind = "commit"
      BY <3>0
    <3>2. CASE q # r
      BY <1>1, <3>1, <3>2, SettledRow
    <3>3. CASE q = r
      <4>1. e \in Rows(r, heldOn[r], kind, m)
        BY <1>1, <3>1, <3>3
      <4>2. e.kind = kind
        BY <4>1 DEF Rows
      <4> QED
        BY <2>1, <3>1, <3>3, <4>1, <4>2
    <3> QED
      BY <3>2, <3>3
  <2>6. ASSUME NEW re, re \in SettledRows(a) PROVE re \in SettledRows(a)'
    <3>0. PICK q \in Requests : \E e \in ledger[q] : re = <<q, e>> /\ e.account = a /\ e.kind = "commit"
      BY <2>6, SettledRow
    <3>1. PICK e \in ledger[q] : re = <<q, e>> /\ e.account = a /\ e.kind = "commit"
      BY <3>0
    <3>2. e \in ledger'[q]
      BY <1>1
    <3> QED
      BY <2>4, <3>1, <3>2
  <2>7. ASSUME kind = "commit", a \in heldOn[r] PROVE <<r, row>> \in SettledRows(a)'
    BY <1>1, <2>2, <2>3, <2>4, <2>7
  <2> QED
    BY <2>5, <2>6, <2>7
<1>4. CASE a \in heldOn[r]
  <2>1. r \in HoldsOn(a)
    BY <1>4 DEF HoldsOn
  <2>2. IsFiniteSet(HoldsOn(a))' /\ Held(a)' = Held(a) - Amount[r]
    BY <1>2, <2>1, HeldLoses DEF Funds
  <2>3. available'[a] = available[a] + (Amount[r] - n)
    BY <1>4 DEF Credited
  <2>4. IsFiniteSet(SettledRows(a))' /\ Settled(a)' = Settled(a) + n
    <3>1. CASE kind = "release"
      <4>1. SettledRows(a)' = SettledRows(a)
        BY <1>3, <3>1
      <4> QED
        BY <1>0, <3>1, <4>1, SettledSame DEF Funds
    <3>2. CASE kind = "commit"
      <4>1. SettledRows(a)' = SettledRows(a) \cup {<<r, row>>}
        BY <1>3, <1>4, <3>2
      <4>2. <<r, row>> \notin SettledRows(a)
        <5>1. row.kind = "commit"
          BY <3>2
        <5> HIDE DEF row
        <5> QED
          BY <5>1, SettledRow
      <4>3. <<r, row>>[2].amount = n
        BY <3>2
      <4> HIDE DEF row
      <4> QED
        BY <4>1, <4>2, <4>3, SettledAdds DEF Funds
    <3> QED
      BY <3>1, <3>2
  <2> QED
    BY <1>0, <2>2, <2>3, <2>4 DEF Funds
<1>5. CASE a \notin heldOn[r]
  <2>1. HoldsOn(a)' = HoldsOn(a)
    BY <1>2, <1>5 DEF HoldsOn
  <2>2. SettledRows(a)' = SettledRows(a)
    BY <1>3, <1>5
  <2>3. available'[a] = available[a]
    BY <1>5 DEF Credited
  <2> QED
    BY <2>1, <2>2, <2>3, HeldSame, SettledSame DEF Funds
<1> QED
  BY <1>4, <1>5

LEMMA FundsSettled ==
    ASSUME TypeOK, TypeOK', NEW r \in Requests, NEW s \in Settlement(r),
           Unsettled(r), GroupSettled(r), ApplySettlement(r, s),
           NEW a \in Accounts, Funds(a), granted'[a] = granted[a]
    PROVE  Funds(a)'
<1>0. /\ s.units \in Nat /\ Amount[r] \in Nat /\ Amount[r] - 0 = Amount[r]
      /\ \A e \in ledger[r] : e.kind = "reserve"
  BY AmountType DEF Settlement, GroupSettled, Unsettled
<1>1. CASE s.kind = "release"
  <2>1. /\ reservation' = [reservation EXCEPT ![r] = "released"] /\ heldOn' = heldOn
        /\ ledger' = [ledger EXCEPT ![r] = ledger[r] \cup Rows(r, heldOn[r], "release", Amount[r])]
        /\ available' = Credited(heldOn[r], Amount[r] - 0)
    BY <1>0, <1>1 DEF ApplySettlement
  <2> QED
    BY <1>0, <2>1, FundsEnded
<1>2. CASE s.kind = "commit"
  <2>1. /\ reservation' = [reservation EXCEPT ![r] = "committed"] /\ heldOn' = heldOn
        /\ ledger' = [ledger EXCEPT ![r] = ledger[r] \cup Rows(r, heldOn[r], "commit", s.units)]
        /\ available' = Credited(heldOn[r], Amount[r] - s.units)
    BY <1>2 DEF ApplySettlement
  <2> QED
    BY <1>0, <2>1, FundsEnded
<1>3. CASE s.kind \in {"unmetered", "unknown"}
  <2>1. UNCHANGED <<ledger, available, heldOn>> /\ reservation' = [reservation EXCEPT ![r] = "unknown"]
    BY <1>3 DEF ApplySettlement
  <2>2. HoldsOn(a)' = HoldsOn(a)
    BY <2>1 DEF HoldsOn, Unsettled, TypeOK
  <2>3. SettledRows(a)' = SettledRows(a)
    BY <2>1 DEF SettledRows
  <2> QED
    BY <2>1, <2>2, <2>3, HeldSame, SettledSame DEF Funds
<1> QED
  BY <1>1, <1>2, <1>3 DEF ApplySettlement

LEMMA StepFunds ==
    ASSUME TypeOK, LedgerMatchesReservation, \A a \in Accounts : Funds(a), [Next]_quotaVars
    PROVE  \A a \in Accounts : Funds(a)'
<1> SUFFICES ASSUME NEW a \in Accounts PROVE Funds(a)'
  OBVIOUS
<1>0. TypeOK' /\ Funds(a) /\ \A r \in Requests : GroupReserved(r) /\ GroupSettled(r)
  BY StepType DEF LedgerMatchesReservation
<1>1. CASE UNCHANGED <<reservation, heldOn, ledger, available, granted>>
  <2>1. available'[a] - available[a] = granted'[a] - granted[a]
    BY <1>1 DEF TypeOK
  <2> QED
    BY <1>0, <1>1, <2>1, FundsGranted
<1>2. ASSUME NEW b \in Accounts, NEW n \in Grants, Adjust(b, n) PROVE Funds(a)'
  <2>1. available'[a] - available[a] = granted'[a] - granted[a]
    BY <1>2, QuotaConstants DEF Adjust, TypeOK, Grants
  <2>2. UNCHANGED <<reservation, heldOn, ledger>>
    BY <1>2 DEF Adjust
  <2> QED
    BY <1>0, <2>1, <2>2, FundsGranted
<1>3. ASSUME NEW r \in Requests, PreflightReserve(r) PROVE Funds(a)'
  <2>0. ReserveDual(r) /\ granted' = granted
    BY <1>3 DEF PreflightReserve, adminVars
  <2>1. ledger[r] = {}
    BY <1>0, <2>0 DEF ReserveDual, GroupReserved, GroupSettled
  <2> QED
    BY <1>0, <2>0, <2>1, FundsReserved
<1>4. ASSUME NEW r \in Requests, NEW c \in SettleCalls(r), SettleRequest(r, c[1], c[2]) PROVE Funds(a)'
  <2>1. c[1] \in Settlement(r) /\ Unsettled(r) /\ ApplySettlement(r, c[1]) /\ granted' = granted
    BY <1>4 DEF SettleCalls, SettleRequest, Unsettled, adminVars
  <2> QED
    BY <1>0, <2>1, FundsSettled
<1> QED
  BY <1>1, <1>2, <1>3, <1>4
  DEF Next, AdminNext, RequestNext, GrantPool, AllocateFromPool, GrantKey,
      UpdateKey, ReconcileEventGroups, quotaVars, adminVars, holdVars, Accounts

LEMMA InitFunds == Init => \A a \in Accounts : Funds(a)
<1> SUFFICES ASSUME Init, NEW a \in Accounts PROVE Funds(a)
  OBVIOUS
<1>1. HoldsOn(a) = {}
  BY DEF Init, HoldsOn, Unsettled
<1>2. SettledRows(a) = {}
  BY SettledRow DEF Init
<1>3. Held(a) = 0 /\ Settled(a) = 0
  BY <1>1, <1>2, SumEmpty DEF Held, Settled
<1> QED
  BY <1>1, <1>2, <1>3, FS_EmptySet DEF Init, Funds

\* No sequence of grants, reservations and settlements, of however many requests,
\* makes or loses money: the balance of an account is what it was granted.
THEOREM MoneyIsConserved == Spec => []Conservation
<1> DEFINE Inv == TypeOK /\ LedgerMatchesReservation /\ \A a \in Accounts : Funds(a)
<1>1. Init => Inv
  BY InitType, InitFunds DEF Init, LedgerMatchesReservation, GroupReserved, GroupSettled
<1>2. Inv /\ [Next]_quotaVars => Inv'
  BY StepType, StepLedger, StepFunds
<1>3. Inv => Conservation
  BY DEF Funds, Conservation
<1> QED
  BY <1>1, <1>2, <1>3, PTL DEF Spec

-----------------------------------------------------------------------------
(* The ledger implements the escrow.                                         *)

LEMMA HoldChange ==
    ASSUME TypeOK, NEW r \in Requests, NEW t \in ReservationState,
           reservation' = [reservation EXCEPT ![r] = t]
    PROVE  [q \in Requests |-> HoldOf[reservation[q]]]'
             = [[q \in Requests |-> HoldOf[reservation[q]]] EXCEPT ![r] = HoldOf[t]]
BY DEF TypeOK

LEMMA ReserveTakes ==
    ASSUME TypeOK, NEW r \in Requests, ReserveDual(r)
    PROVE  \E accts \in SUBSET Accounts : Escrow!Take(r, accts)
<1>1. [q \in Requests |-> HoldOf[reservation[q]]]'
        = [[q \in Requests |-> HoldOf[reservation[q]]] EXCEPT ![r] = "held"]
  BY HoldChange DEF ReserveDual, ReservationState, HoldOf
<1>2. [q \in Requests |-> HoldOf[reservation[q]]][r] = "free"
  BY DEF ReserveDual, HoldOf
<1>3. PICK accts \in SUBSET Accounts : accts = AccountsFor(r)
  BY AccountsForType
<1>4. available' = Escrow!Paid(accts, -Amount[r])
  BY <1>3 DEF ReserveDual, Credited, Escrow!Paid
<1>5. Escrow!Take(r, accts)
  BY <1>1, <1>2, <1>3, <1>4, AccountsForType DEF ReserveDual, Escrow!Take
<1>6. QED
  BY <1>5

LEMMA SettlementEnds ==
    ASSUME TypeOK, NEW r \in Requests, NEW s \in Settlement(r),
           Unsettled(r), ApplySettlement(r, s)
    PROVE  \/ Escrow!GiveBack(r)
           \/ \E n \in 0..Amount[r] : Escrow!Charge(r, n)
           \/ UNCHANGED Escrow!vars
<1>1. [q \in Requests |-> HoldOf[reservation[q]]][r] = "held"
  BY DEF Unsettled, HoldOf
<1>2. CASE s.kind = "release"
  <2>1. [q \in Requests |-> HoldOf[reservation[q]]]'
          = [[q \in Requests |-> HoldOf[reservation[q]]] EXCEPT ![r] = "returned"]
    BY <1>2, HoldChange DEF ApplySettlement, ReservationState, HoldOf
  <2>2. available' = Escrow!Paid(heldOn[r], Amount[r]) /\ heldOn' = heldOn
    BY <1>2 DEF ApplySettlement, Credited, Escrow!Paid
  <2>3. QED
    BY <1>1, <2>1, <2>2 DEF Escrow!GiveBack
<1>3. CASE s.kind = "commit"
  <2>1. [q \in Requests |-> HoldOf[reservation[q]]]'
          = [[q \in Requests |-> HoldOf[reservation[q]]] EXCEPT ![r] = "charged"]
    BY <1>3, HoldChange DEF ApplySettlement, ReservationState, HoldOf
  <2>2. available' = Escrow!Paid(heldOn[r], Amount[r] - s.units) /\ heldOn' = heldOn
    BY <1>3 DEF ApplySettlement, Credited, Escrow!Paid
  <2>3. s.units \in 0..Amount[r]
    BY <1>3, AmountType DEF Settlement
  <2>4. Escrow!Charge(r, s.units)
    BY <1>1, <2>1, <2>2 DEF Escrow!Charge
  <2>5. QED
    BY <2>3, <2>4
<1>4. CASE s.kind \in {"unmetered", "unknown"}
  <2>1. [q \in Requests |-> HoldOf[reservation[q]]]'
          = [[q \in Requests |-> HoldOf[reservation[q]]] EXCEPT ![r] = "held"]
    BY <1>4, HoldChange DEF ApplySettlement, ReservationState, HoldOf
  <2>2. [q \in Requests |-> HoldOf[reservation[q]]]'
          = [q \in Requests |-> HoldOf[reservation[q]]]
    BY <1>1, <2>1
  <2>3. QED
    BY <1>4, <2>2 DEF ApplySettlement, Escrow!vars
<1>5. QED
  BY <1>2, <1>3, <1>4 DEF ApplySettlement

LEMMA AdjustDeposits ==
    ASSUME TypeOK, NEW a \in Accounts, NEW n \in Grants, Adjust(a, n)
    PROVE  Escrow!Deposit(a)
<1>1. available[a] \in Int /\ n \in Nat /\ n > 0
  BY QuotaConstants DEF TypeOK, Grants
<1>2. available' = [available EXCEPT ![a] = available[a] + n]
      /\ available'[a] = available[a] + n
  BY DEF Adjust, TypeOK
<1>3. available'[a] > available[a]
  BY <1>1, <1>2
<1>4. available' = [available EXCEPT ![a] = available'[a]]
  BY <1>2
<1>5. /\ heldOn' = heldOn
      /\ [r \in Requests |-> HoldOf[reservation[r]]]' = [r \in Requests |-> HoldOf[reservation[r]]]
  BY DEF Adjust
<1>6. QED
  BY <1>3, <1>4, <1>5 DEF Escrow!Deposit

LEMMA StepEscrow == TypeOK /\ [Next]_quotaVars => [Escrow!Next]_(Escrow!vars)
<1> SUFFICES ASSUME TypeOK, [Next]_quotaVars PROVE [Escrow!Next]_(Escrow!vars)
  OBVIOUS
<1>1. ASSUME NEW a \in Accounts, NEW n \in Grants, Adjust(a, n)
      PROVE  Escrow!Next
  BY <1>1, AdjustDeposits DEF Escrow!Next
<1>2. ASSUME NEW r \in Requests, PreflightReserve(r) PROVE Escrow!Next
  BY <1>2, ReserveTakes DEF PreflightReserve, Escrow!Next
<1>3. ASSUME NEW r \in Requests, NEW c \in SettleCalls(r), SettleRequest(r, c[1], c[2])
      PROVE  [Escrow!Next]_(Escrow!vars)
  <2>1. c[1] \in Settlement(r) /\ Unsettled(r) /\ ApplySettlement(r, c[1])
    BY <1>3 DEF SettleCalls, SettleRequest, Unsettled
  <2>2. QED
    BY <2>1, SettlementEnds DEF Escrow!Next
<1>4. CASE UNCHANGED <<available, reservation, heldOn>>
  BY <1>4 DEF Escrow!vars
<1>5. QED
  BY <1>1, <1>2, <1>3, <1>4
  DEF Next, AdminNext, RequestNext, GrantPool, AllocateFromPool, GrantKey,
      UpdateKey, ReconcileEventGroups, quotaVars, adminVars, holdVars, Accounts

\* Whatever its keys, accounts and requests, the ledger is an escrow.
THEOREM Implementation == Spec => ImplementsBudgetHold
<1>1. Init => Escrow!Init
  BY DEF Init, Escrow!Init, HoldOf
<1>2. QED
  BY <1>1, TypeCorrect, StepEscrow, PTL DEF Spec, ImplementsBudgetHold, Escrow!Spec
=============================================================================
