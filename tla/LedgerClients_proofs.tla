------------------------- MODULE LedgerClients_proofs -------------------------
(* Theorems about the two parts that use the budget ledger without a lease,   *)
(* each for every instance of its constants: credit quotes and receipts       *)
(* (CreditReceipt) and the router's chat and video tasks (RouterVideo). They  *)
(* are two specifications, CreditSpec and RouterSpec, that have nothing but   *)
(* the variables of the ledger in common; what both proofs use is in          *)
(* CoreQuota_proofs.                                                          *)
EXTENDS CreditReceipt, RouterVideo, CoreQuota_proofs

-----------------------------------------------------------------------------
(* Part 1: CreditReceipt.                                                    *)

LEMMA ActualType ==
    ASSUME NEW p \in Payloads, ValidFinal(p)
    PROVE  Actual(p) \in Nat
BY CreditConstants DEF ValidFinal, Actual, Payload, NoAmount

LEMMA NormalizedType == ASSUME NEW p \in Payloads PROVE Normalized(p) \in StoredStatus \ {"conflict"}
BY CreditConstants DEF Normalized, Payload, StoredStatus

LEMMA BlockType ==
    ASSUME CreditTypeOK, NEW k \in Keys, NEW reason \in {"over_quote", "receipt_conflict"}
    PROVE  /\ Block(k, reason) \in [Keys -> {"no", "over_quote", "receipt_conflict"}]
           /\ Block(k, reason)[k] # "no"
           /\ \A j \in Keys : blocked[j] # "no" => Block(k, reason)[j] # "no"
BY DEF Block, CreditTypeOK

LEMMA KeyOfType == ASSUME NEW r \in Requests PROVE KeyOf[r] \in Keys
BY QuotaConstants

\* However a key is given credits, its account gets an 'adjust' row.
LEMMA GivenByAdjust ==
    ASSUME NEW k \in Keys, NEW n \in Grants, AllocateFromUpstream(k, n) \/ GiveUnchecked(k, n)
    PROVE  Adjust(k, n) /\ UNCHANGED <<billVars, worldVars>>
BY DEF AllocateFromUpstream, GiveUnchecked, GrantKey, AllocateFromPool

LEMMA CreditInitType == CreditInit => CreditTypeOK
BY InitType, CreditConstants DEF CreditInit, CreditTypeOK, NoAmount

LEMMA OpenType ==
    ASSUME CreditTypeOK, NEW r \in Requests, NEW p \in Payloads, OpenReceipt(r, p)
    PROVE  CreditTypeOK'
<1>1. Stored(p, Normalized(p)) \in [payload : Payloads, stored : StoredStatus]
  BY NormalizedType DEF Stored
<1>2. receipts' \in [Requests -> SUBSET [payload : Payloads, stored : StoredStatus]]
  BY <1>1 DEF OpenReceipt, CreditTypeOK
<1>3. TypeOK'
  BY DEF OpenReceipt, CreditTypeOK, TypeOK, adminVars, keyVars, ReservationState, RequestState
<1>4. QED
  BY <1>2, <1>3 DEF OpenReceipt, CreditTypeOK, worldVars

LEMMA SettleType ==
    ASSUME CreditTypeOK, NEW r \in Requests, NEW p \in Payloads, SettleByReceipt(r, p)
    PROVE  CreditTypeOK'
<1>1. ValidFinal(p) /\ Actual(p) \in Nat
  BY ActualType DEF SettleByReceipt
<1>2. p.status \in StoredStatus
  BY <1>1 DEF ValidFinal, StoredStatus
<1>3. receipts' \in [Requests -> SUBSET [payload : Payloads, stored : StoredStatus]]
  BY <1>2 DEF SettleByReceipt, CreditTypeOK, Stored
<1>4. heldOn[r] \in SUBSET Accounts /\ Amount[r] - Actual(p) \in Int /\ TypeOK
  BY <1>1, AmountType DEF CreditTypeOK, TypeOK
<1>5. available' \in [Accounts -> Int]
  <2>1. \A n \in Int : Credited(heldOn[r], n) \in [Accounts -> Int]
    BY <1>4, CreditedType
  <2>2. QED
    BY <1>4, <2>1 DEF SettleByReceipt
<1>6. Rows(r, heldOn[r], "commit", Actual(p)) \in SUBSET Row
  BY <1>1, <1>4, RowsType DEF EventKind
<1>7. ledger' \in [Requests -> SUBSET Row]
  BY <1>4, <1>6 DEF SettleByReceipt, TypeOK
<1>8. TypeOK'
  BY <1>4, <1>5, <1>7 DEF SettleByReceipt, TypeOK, adminVars, keyVars, ReservationState, RequestState
<1>9. blocked' \in [Keys -> {"no", "over_quote", "receipt_conflict"}]
  BY BlockType, KeyOfType DEF SettleByReceipt, CreditTypeOK
<1>10. settled' \in [Requests -> Nat \cup {NoAmount}] /\ reconcile' \in [Requests -> BOOLEAN]
  <2>1. (Actual(p) > Amount[r]) \in BOOLEAN
    OBVIOUS
  <2>2. QED
    BY <1>1, <2>1 DEF SettleByReceipt, CreditTypeOK
<1>11. QED
  BY <1>3, <1>8, <1>9, <1>10 DEF SettleByReceipt, CreditTypeOK, worldVars

LEMMA LaterType ==
    ASSUME CreditTypeOK, NEW r \in Requests, NEW p \in Payloads,
           AgreeingFinal(r, p) \/ ContradictingFinal(r, p)
    PROVE  CreditTypeOK'
<1>1. TypeOK'
  BY DEF AgreeingFinal, ContradictingFinal, quotaVars, adminVars, keyVars, holdVars,
         CreditTypeOK, TypeOK
<1>2. p.status \in StoredStatus
  BY DEF AgreeingFinal, ContradictingFinal, ValidFinal, StoredStatus
<1>3. receipts' \in [Requests -> SUBSET [payload : Payloads, stored : StoredStatus]]
  BY <1>2 DEF AgreeingFinal, ContradictingFinal, CreditTypeOK, Stored, StoredStatus
<1>4. blocked' \in [Keys -> {"no", "over_quote", "receipt_conflict"}]
  BY BlockType, KeyOfType DEF AgreeingFinal, ContradictingFinal, CreditTypeOK
<1>5. QED
  BY <1>1, <1>3, <1>4 DEF AgreeingFinal, ContradictingFinal, CreditTypeOK, worldVars

LEMMA CreditStepType == CreditTypeOK /\ [CreditNext]_creditVars => CreditTypeOK'
<1> SUFFICES ASSUME CreditTypeOK, [CreditNext]_creditVars PROVE CreditTypeOK'
  OBVIOUS
<1> USE DEF billVars, worldVars
<1>0. TypeOK
  BY DEF CreditTypeOK
<1>1. ASSUME NEW k \in Keys, NEW n \in Grants, AllocateFromUpstream(k, n) \/ GiveUnchecked(k, n)
      PROVE  CreditTypeOK'
  <2>1. Adjust(k, n) /\ k \in Accounts /\ n \in Nat
    BY <1>1, GivenByAdjust, QuotaConstants DEF Accounts, Grants
  <2>2. TypeOK'
    BY <1>0, <2>1, AdjustType
  <2> QED
    BY <1>1, <2>1, <2>2 DEF AllocateFromUpstream, GiveUnchecked, CreditTypeOK
<1>2. ASSUME NEW r \in Requests, Begin(r) PROVE CreditTypeOK'
  BY <1>2 DEF Begin, CreditTypeOK, TypeOK, adminVars, keyVars, RequestState
<1>3. ASSUME NEW r \in Requests, NEW checked \in BOOLEAN, ReserveQuote(r, checked)
      PROVE  CreditTypeOK'
  <2>1. ReserveDual(r) /\ request' \in [Requests -> RequestState \cup {"absent"}]
    BY <1>3 DEF ReserveQuote, CreditTypeOK, TypeOK, RequestState
  <2>2. TypeOK'
    BY <1>0, <1>3, <2>1, ReserveDualType DEF ReserveQuote, TypeOK, adminVars, keyVars
  <2>3. QED
    BY <1>3, <2>2 DEF ReserveQuote, CreditTypeOK
<1>4. ASSUME NEW r \in Requests, NEW c \in Charges, UpstreamCharges(r, c) PROVE CreditTypeOK'
  <2>1. TypeOK'
    BY <1>0, <1>4 DEF UpstreamCharges, quotaVars, adminVars, keyVars, holdVars, TypeOK
  <2>2. QED
    BY <1>4, <2>1, CreditConstants DEF UpstreamCharges, CreditTypeOK
<1>5. ASSUME NEW r \in Requests, NEW p \in Payloads, ApplyReceipt(r, p) PROVE CreditTypeOK'
  BY <1>5, OpenType, SettleType, LaterType DEF ApplyReceipt
<1>6. CASE LedgerUpkeep
  <2>1. ASSUME NEW u \in Users, NEW n \in Grants, GrantPool(u, n) PROVE TypeOK'
    BY <1>0, <2>1, AdjustType DEF GrantPool, Accounts
  <2>2. ASSUME ReconcileEventGroups PROVE TypeOK'
    BY <1>0, <2>2 DEF ReconcileEventGroups, TypeOK, MigrationState, keyVars, holdVars
  <2>3. QED
    BY <1>6, <2>1, <2>2 DEF LedgerUpkeep, CreditTypeOK
<1>7. CASE UNCHANGED creditVars
  <2>1. TypeOK'
    BY <1>0, <1>7 DEF creditVars, quotaVars, adminVars, keyVars, holdVars, TypeOK
  <2>2. QED
    BY <1>7, <2>1 DEF creditVars, CreditTypeOK
<1>8. QED
  BY <1>1, <1>2, <1>3, <1>4, <1>5, <1>6, <1>7 DEF CreditNext

\* Every variable keeps its type, whatever receipts arrive.
THEOREM CreditTypeCorrect == CreditSpec => []CreditTypeOK
BY CreditInitType, CreditStepType, PTL DEF CreditSpec

-----------------------------------------------------------------------------
(* The inductive invariant: what a request's quote, receipts and settlement  *)
(* say in each state of its reservation.                                     *)

Unquoted(r) ==
    reservation[r] = "none" =>
        /\ request[r] \in {"absent", "received"}
        /\ heldOn[r] = {} /\ ledger[r] = {} /\ receipts[r] = {}
        /\ settled[r] = NoAmount
        /\ ~reconcile[r]

Awaiting(r) ==
    Unsettled(r) =>
        /\ request[r] \in {"reserved", "unknown"}
        /\ settled[r] = NoAmount
        /\ ~reconcile[r]
        /\ \A e \in ledger[r] : e.kind = "reserve"
        /\ \A row \in receipts[r] : ~ValidFinal(row.payload) /\ row.stored # "conflict"

Flagged(r) ==
    /\ reconcile[r] <=>
         \/ settled[r] > Amount[r]
         \/ \E row \in receipts[r] : row.stored = "conflict"
    /\ reconcile[r] => blocked[KeyOf[r]] # "no"
    /\ \A row \in receipts[r] :
          ValidFinal(row.payload) =>
             (row.stored = "conflict" <=> Actual(row.payload) # settled[r])

Concluded(r) ==
    reservation[r] = "committed" =>
        /\ settled[r] # NoAmount
        /\ ChargedAsSettled(r)
        /\ Flagged(r)

Bill(r) ==
    /\ reservation[r] \in {"none", "held", "unknown", "committed"}
    /\ Unquoted(r)
    /\ Awaiting(r)
    /\ Concluded(r)

CreditInv == CreditTypeOK /\ \A r \in Requests : Bill(r)

\* A step leaves a request alone if its own rows are unchanged and no block is lifted.
SameRequest(r) ==
    /\ reservation'[r] = reservation[r] /\ request'[r] = request[r]
    /\ heldOn'[r] = heldOn[r] /\ ledger'[r] = ledger[r] /\ receipts'[r] = receipts[r]
    /\ settled'[r] = settled[r] /\ reconcile'[r] = reconcile[r]
    /\ blocked[KeyOf[r]] # "no" => blocked'[KeyOf[r]] # "no"

LEMMA BillKept ==
    ASSUME NEW r \in Requests, Bill(r), SameRequest(r)
    PROVE  Bill(r)'
BY DEF Bill, Unquoted, Awaiting, Concluded, Flagged, ChargedAsSettled, Unsettled, SameRequest

LEMMA InitBill == CreditInit => \A r \in Requests : Bill(r)
BY DEF CreditInit, Init, Bill, Unquoted, Awaiting, Concluded, Unsettled

LEMMA BeginBill ==
    ASSUME CreditInv, NEW q \in Requests, Begin(q), NEW r \in Requests
    PROVE  Bill(r)'
<1>1. Bill(r) /\ TypeOK
  BY DEF CreditInv, CreditTypeOK
<1>2. CASE r # q
  <2>1. SameRequest(r)
    BY <1>1, <1>2 DEF Begin, SameRequest, billVars, TypeOK
  <2>2. QED
    BY <1>1, <2>1, BillKept
<1>3. CASE r = q
  <2>1. request[r] = "absent" /\ request'[r] = "received"
    BY <1>1, <1>3 DEF Begin, TypeOK
  <2>2. UNCHANGED <<reservation, heldOn, ledger, receipts, settled, reconcile, blocked>>
    BY DEF Begin, billVars
  <2>3. reservation[r] = "none"
    BY <1>1, <2>1 DEF Bill, Awaiting, Concluded, ChargedAsSettled, Unsettled
  <2>4. QED
    BY <1>1, <2>1, <2>2, <2>3 DEF Bill, Unquoted, Awaiting, Concluded, Unsettled
<1>4. QED
  BY <1>2, <1>3

LEMMA ReserveBill ==
    ASSUME CreditInv, NEW q \in Requests, NEW checked \in BOOLEAN, ReserveQuote(q, checked),
           NEW r \in Requests
    PROVE  Bill(r)'
<1>1. Bill(r) /\ TypeOK /\ ReserveDual(q)
  BY DEF CreditInv, CreditTypeOK, ReserveQuote
<1>2. CASE r # q
  <2>1. SameRequest(r)
    BY <1>1, <1>2 DEF ReserveQuote, ReserveDual, SameRequest, billVars, TypeOK
  <2>2. QED
    BY <1>1, <2>1, BillKept
<1>3. CASE r = q
  <2>1. reservation[r] = "none" /\ reservation'[r] = "held" /\ request'[r] = "reserved"
    BY <1>1, <1>3 DEF ReserveQuote, ReserveDual, TypeOK
  <2>2. ledger'[r] = Rows(r, AccountsFor(r), "reserve", Amount[r])
    BY <1>1, <1>3 DEF ReserveDual, TypeOK
  <2>3. \A e \in ledger'[r] : e.kind = "reserve"
    BY <2>2 DEF Rows
  <2>4. UNCHANGED <<receipts, settled, reconcile, blocked>>
    BY DEF ReserveQuote, billVars
  <2>5. QED
    BY <1>1, <2>1, <2>3, <2>4 DEF Bill, Unquoted, Awaiting, Concluded, Unsettled
<1>4. QED
  BY <1>2, <1>3

\* The receipt of one request leaves every other request alone.
LEMMA OtherRequests ==
    ASSUME CreditInv, NEW q \in Requests, NEW p \in Payloads, ApplyReceipt(q, p),
           NEW r \in Requests, r # q
    PROVE  SameRequest(r)
<1>1. TypeOK /\ CreditTypeOK /\ KeyOf[r] \in Keys /\ KeyOf[q] \in Keys
  BY KeyOfType DEF CreditInv, CreditTypeOK
<1>2. blocked[KeyOf[r]] # "no" => blocked'[KeyOf[r]] # "no"
  BY <1>1, BlockType DEF ApplyReceipt, OpenReceipt, SettleByReceipt, AgreeingFinal, ContradictingFinal
<1>3. CASE OpenReceipt(q, p)
  BY <1>1, <1>2, <1>3 DEF OpenReceipt, SameRequest, TypeOK, CreditTypeOK
<1>4. CASE SettleByReceipt(q, p)
  BY <1>1, <1>2, <1>4 DEF SettleByReceipt, SameRequest, TypeOK, CreditTypeOK
<1>5. CASE AgreeingFinal(q, p) \/ ContradictingFinal(q, p)
  BY <1>1, <1>2, <1>5
  DEF AgreeingFinal, ContradictingFinal, SameRequest, quotaVars, holdVars, CreditTypeOK
<1>6. QED
  BY <1>3, <1>4, <1>5 DEF ApplyReceipt

LEMMA OpenBill ==
    ASSUME CreditInv, NEW r \in Requests, NEW p \in Payloads,
           reservation[r] # "none", OpenReceipt(r, p)
    PROVE  Bill(r)'
<1>1. Bill(r) /\ TypeOK /\ CreditTypeOK
  BY DEF CreditInv, CreditTypeOK
<1>2. Unsettled(r)
  BY <1>1 DEF OpenReceipt, Bill, Concluded, Unsettled
<1>3. reservation'[r] = "unknown" /\ request'[r] = "unknown"
  BY <1>1, <1>2 DEF OpenReceipt, TypeOK, Unsettled
<1>4. UNCHANGED <<ledger, settled, reconcile>>
  BY DEF OpenReceipt
<1>5. receipts'[r] = receipts[r] \cup {Stored(p, Normalized(p))}
  BY <1>1 DEF OpenReceipt, CreditTypeOK
<1>6. \A row \in receipts'[r] : ~ValidFinal(row.payload) /\ row.stored # "conflict"
  <2>1. \A row \in receipts[r] : ~ValidFinal(row.payload) /\ row.stored # "conflict"
    BY <1>1, <1>2 DEF Bill, Awaiting
  <2>2. ~ValidFinal(p) /\ Normalized(p) # "conflict"
    BY NormalizedType DEF OpenReceipt
  <2>3. Stored(p, Normalized(p)).payload = p /\ Stored(p, Normalized(p)).stored = Normalized(p)
    BY DEF Stored
  <2>4. QED
    BY <1>5, <2>1, <2>2, <2>3
<1>7. QED
  BY <1>1, <1>2, <1>3, <1>4, <1>6 DEF Bill, Unquoted, Awaiting, Concluded, Unsettled

LEMMA SettleBill ==
    ASSUME CreditInv, NEW r \in Requests, NEW p \in Payloads, SettleByReceipt(r, p)
    PROVE  Bill(r)'
<1>1. Bill(r) /\ TypeOK /\ CreditTypeOK /\ Unsettled(r) /\ KeyOf[r] \in Keys
  BY KeyOfType DEF CreditInv, CreditTypeOK, SettleByReceipt
<1>2. ValidFinal(p) /\ Actual(p) \in Nat /\ Amount[r] \in Nat
  BY ActualType, AmountType DEF SettleByReceipt
<1>3. /\ reservation'[r] = "committed" /\ request'[r] = "settled" /\ heldOn'[r] = heldOn[r]
      /\ settled'[r] = Actual(p)
      /\ reconcile'[r] = (Actual(p) > Amount[r])
  BY <1>1 DEF SettleByReceipt, TypeOK, CreditTypeOK
<1>4. ledger'[r] = ledger[r] \cup Rows(r, heldOn[r], "commit", Actual(p))
  BY <1>1 DEF SettleByReceipt, TypeOK
<1>5. receipts'[r] = receipts[r] \cup {Stored(p, p.status)}
  BY <1>1 DEF SettleByReceipt, CreditTypeOK
<1>6. {e \in ledger'[r] : e.kind = "commit"} = Rows(r, heldOn[r], "commit", Actual(p))
  <2>1. \A e \in ledger[r] : e.kind = "reserve"
    BY <1>1 DEF Bill, Awaiting
  <2>2. \A e \in Rows(r, heldOn[r], "commit", Actual(p)) :
           e.kind = "commit" /\ e.amount = Actual(p)
    BY DEF Rows
  <2>3. QED
    BY <1>4, <2>1, <2>2
<1>7. ChargedAsSettled(r)'
  <2>1. \A e \in Rows(r, heldOn[r], "commit", Actual(p)) : e.amount = Actual(p)
    BY DEF Rows
  <2>2. {e.account : e \in Rows(r, heldOn[r], "commit", Actual(p))} = heldOn[r]
    BY RowsAccounts
  <2>3. QED
    BY <1>3, <1>6, <2>1, <2>2 DEF ChargedAsSettled
<1>8. \A row \in receipts'[r] :
         row.stored # "conflict" /\ (ValidFinal(row.payload) => Actual(row.payload) = settled'[r])
  <2>1. \A row \in receipts[r] : ~ValidFinal(row.payload) /\ row.stored # "conflict"
    BY <1>1 DEF Bill, Awaiting
  <2>2. Stored(p, p.status).payload = p /\ Stored(p, p.status).stored = p.status
    BY DEF Stored
  <2>3. p.status # "conflict"
    BY <1>2 DEF ValidFinal
  <2>4. QED
    BY <1>3, <1>5, <2>1, <2>2, <2>3
<1>9. Actual(p) > Amount[r] => blocked'[KeyOf[r]] # "no"
  BY <1>1, BlockType DEF SettleByReceipt
<1>10. Flagged(r)'
  BY <1>3, <1>8, <1>9 DEF Flagged
<1>11. settled'[r] # NoAmount
  BY <1>2, <1>3 DEF NoAmount
<1>12. QED
  BY <1>3, <1>7, <1>10, <1>11 DEF Bill, Unquoted, Awaiting, Concluded, Unsettled

LEMMA LaterBill ==
    ASSUME CreditInv, NEW r \in Requests, NEW p \in Payloads, reservation[r] # "none",
           AgreeingFinal(r, p) \/ ContradictingFinal(r, p)
    PROVE  Bill(r)'
<1>1. Bill(r) /\ CreditTypeOK /\ KeyOf[r] \in Keys
  BY KeyOfType DEF CreditInv
<1>2. reservation[r] = "committed" /\ ChargedAsSettled(r) /\ Flagged(r) /\ settled[r] # NoAmount
  BY <1>1 DEF AgreeingFinal, ContradictingFinal, Bill, Awaiting, Concluded, Unsettled
<1>3. /\ reservation'[r] = "committed" /\ settled'[r] = settled[r] /\ request'[r] = request[r]
      /\ heldOn'[r] = heldOn[r] /\ ledger'[r] = ledger[r]
  BY <1>2 DEF AgreeingFinal, ContradictingFinal, quotaVars, holdVars
<1>4. ChargedAsSettled(r)'
  BY <1>2, <1>3 DEF ChargedAsSettled
<1>5. CASE AgreeingFinal(r, p)
  <2>1. receipts'[r] = receipts[r] \cup {Stored(p, p.status)}
    BY <1>1, <1>5 DEF AgreeingFinal, CreditTypeOK
  <2>2. p.status # "conflict" /\ ValidFinal(p) /\ Actual(p) = settled[r]
    BY <1>5 DEF AgreeingFinal, ValidFinal
  <2>3. Stored(p, p.status).payload = p /\ Stored(p, p.status).stored = p.status
    BY DEF Stored
  <2>4. reconcile' = reconcile /\ blocked' = blocked
    BY <1>5 DEF AgreeingFinal
  <2>5. Flagged(r)'
    BY <1>2, <1>3, <2>1, <2>2, <2>3, <2>4 DEF Flagged
  <2>6. QED
    BY <1>2, <1>3, <1>4, <2>5 DEF Bill, Unquoted, Awaiting, Concluded, Unsettled
<1>6. CASE ContradictingFinal(r, p)
  <2>1. receipts'[r] = receipts[r] \cup {Stored(p, "conflict")}
    BY <1>1, <1>6 DEF ContradictingFinal, CreditTypeOK
  <2>2. ValidFinal(p) /\ Actual(p) # settled[r]
    BY <1>6 DEF ContradictingFinal
  <2>3. Stored(p, "conflict").payload = p /\ Stored(p, "conflict").stored = "conflict"
    BY DEF Stored
  <2>4. reconcile'[r] = TRUE /\ blocked'[KeyOf[r]] # "no"
    BY <1>1, <1>6, BlockType DEF ContradictingFinal, CreditTypeOK
  <2>5. Flagged(r)'
    BY <1>2, <1>3, <2>1, <2>2, <2>3, <2>4 DEF Flagged
  <2>6. QED
    BY <1>2, <1>3, <1>4, <2>5 DEF Bill, Unquoted, Awaiting, Concluded, Unsettled
<1>7. QED
  BY <1>5, <1>6

LEMMA CreditInvStep == CreditInv /\ [CreditNext]_creditVars => CreditInv'
<1> SUFFICES ASSUME CreditInv, [CreditNext]_creditVars, NEW r \in Requests PROVE Bill(r)'
  BY CreditStepType DEF CreditInv
<1>0. Bill(r)
  BY DEF CreditInv
<1>1. ASSUME NEW k \in Keys, NEW n \in Grants, AllocateFromUpstream(k, n) \/ GiveUnchecked(k, n)
      PROVE  Bill(r)'
  BY <1>0, <1>1, GivenByAdjust, BillKept DEF Adjust, SameRequest, billVars
<1>2. ASSUME NEW q \in Requests, Begin(q) PROVE Bill(r)'
  BY <1>2, BeginBill
<1>3. ASSUME NEW q \in Requests, NEW checked \in BOOLEAN, ReserveQuote(q, checked)
      PROVE  Bill(r)'
  BY <1>3, ReserveBill
<1>4. ASSUME NEW q \in Requests, NEW c \in Charges, UpstreamCharges(q, c) PROVE Bill(r)'
  BY <1>0, <1>4, BillKept DEF UpstreamCharges, SameRequest, quotaVars, holdVars, billVars
<1>5. ASSUME NEW q \in Requests, NEW p \in Payloads, ApplyReceipt(q, p) PROVE Bill(r)'
  <2>1. CASE r # q
    BY <1>0, <1>5, <2>1, OtherRequests, BillKept
  <2>2. CASE r = q
    BY <1>5, <2>2, OpenBill, SettleBill, LaterBill DEF ApplyReceipt
  <2>3. QED
    BY <2>1, <2>2
<1>6. CASE LedgerUpkeep
  BY <1>0, <1>6, BillKept
  DEF LedgerUpkeep, GrantPool, Adjust, ReconcileEventGroups, SameRequest, holdVars, billVars
<1>7. CASE UNCHANGED creditVars
  BY <1>0, <1>7, BillKept DEF SameRequest, creditVars, quotaVars, holdVars, billVars
<1>8. QED
  BY <1>1, <1>2, <1>3, <1>4, <1>5, <1>6, <1>7 DEF CreditNext

LEMMA CreditInvariant == CreditSpec => []CreditInv
<1>1. CreditInit => CreditInv
  BY InitBill, CreditInitType DEF CreditInv
<1>2. QED
  BY <1>1, CreditInvStep, PTL DEF CreditSpec

\* A quoted request is charged exactly as settled, or still holds its quote and
\* is found again after a restart.
THEOREM ReceiptsSettleOnce == CreditSpec => []SettledOrRecoverable
<1>1. CreditInv => SettledOrRecoverable
  BY DEF CreditInv, SettledOrRecoverable, Bill, Awaiting, Concluded, Unsettled
<1>2. QED
  BY <1>1, CreditInvariant, PTL

\* Over-quote and contradicted settlements are flagged, and block their key.
THEOREM DoubtAlwaysFlagged == CreditSpec => []DoubtIsFlagged
<1>1. CreditInv => DoubtIsFlagged
  <2> SUFFICES ASSUME CreditInv, NEW r \in Requests PROVE Flagged(r)
    BY DEF DoubtIsFlagged, Flagged
  <2>1. Bill(r) /\ Amount[r] \in Nat
    BY AmountType DEF CreditInv
  <2>2. CASE reservation[r] = "committed"
    BY <2>1, <2>2 DEF Bill, Concluded
  <2>3. CASE reservation[r] # "committed"
    BY <2>1, <2>3 DEF Bill, Unquoted, Awaiting, Unsettled, Flagged, NoAmount
  <2>4. QED
    BY <2>2, <2>3
<1>2. QED
  BY <1>1, CreditInvariant, PTL

\* The steps that touch neither a request's bill nor its reservation.
LEMMA BystanderSteps ==
    ASSUME \/ \E k \in Keys, n \in Grants : AllocateFromUpstream(k, n) \/ GiveUnchecked(k, n)
           \/ \E q \in Requests, c \in Charges : UpstreamCharges(q, c)
           \/ LedgerUpkeep
           \/ UNCHANGED creditVars
    PROVE  UNCHANGED <<request, reservation, ledger, settled>>
<1>1. CASE \E k \in Keys, n \in Grants : AllocateFromUpstream(k, n) \/ GiveUnchecked(k, n)
  BY <1>1, GivenByAdjust DEF Adjust, billVars
<1>2. CASE \E q \in Requests, c \in Charges : UpstreamCharges(q, c)
  BY <1>2 DEF UpstreamCharges, quotaVars, holdVars, billVars
<1>3. CASE LedgerUpkeep
  BY <1>3 DEF LedgerUpkeep, GrantPool, Adjust, ReconcileEventGroups, holdVars, billVars
<1>4. CASE UNCHANGED creditVars
  BY <1>4 DEF creditVars, quotaVars, holdVars, billVars
<1>5. QED
  BY <1>1, <1>2, <1>3, <1>4

\* A settlement is final: later receipts change neither amount nor ledger.
THEOREM FirstReceiptDecides == CreditSpec => FirstFinalDecides
<1>1. ASSUME CreditInv, [CreditNext]_creditVars, NEW r \in Requests, settled[r] # NoAmount
      PROVE  settled'[r] = settled[r] /\ ledger'[r] = ledger[r] /\ request'[r] = request[r]
  <2>0. Bill(r) /\ TypeOK /\ CreditTypeOK
    BY <1>1 DEF CreditInv, CreditTypeOK
  <2>1. reservation[r] = "committed" /\ request[r] = "settled"
    BY <1>1, <2>0 DEF Bill, Unquoted, Awaiting, Concluded, ChargedAsSettled, Unsettled
  <2>2. ASSUME NEW q \in Requests, Begin(q) \/ \E checked \in BOOLEAN : ReserveQuote(q, checked)
        PROVE  settled'[r] = settled[r] /\ ledger'[r] = ledger[r] /\ request'[r] = request[r]
    BY <2>0, <2>1, <2>2 DEF Begin, ReserveQuote, ReserveDual, TypeOK, billVars
  <2>3. ASSUME NEW q \in Requests, NEW p \in Payloads, ApplyReceipt(q, p)
        PROVE  settled'[r] = settled[r] /\ ledger'[r] = ledger[r] /\ request'[r] = request[r]
    <3>1. CASE r # q
      BY <1>1, <2>3, <3>1, OtherRequests DEF SameRequest
    <3>2. CASE r = q
      BY <1>1, <2>3, <3>2 DEF ApplyReceipt, OpenReceipt, SettleByReceipt, AgreeingFinal,
           ContradictingFinal, quotaVars, holdVars
    <3>3. QED
      BY <3>1, <3>2
  <2>4. ASSUME \/ \E k \in Keys, n \in Grants : AllocateFromUpstream(k, n) \/ GiveUnchecked(k, n)
               \/ \E q \in Requests, c \in Charges : UpstreamCharges(q, c)
               \/ LedgerUpkeep
               \/ UNCHANGED creditVars
        PROVE  settled'[r] = settled[r] /\ ledger'[r] = ledger[r] /\ request'[r] = request[r]
    <3>1. UNCHANGED <<request, reservation, ledger, settled>>
      BY <2>4, BystanderSteps
    <3>2. QED
      BY <3>1
  <2>5. QED
    BY <1>1, <2>2, <2>3, <2>4 DEF CreditNext
<1>2. CreditInv /\ [CreditNext]_creditVars =>
        [\A r \in Requests :
           settled[r] # NoAmount =>
              /\ settled'[r] = settled[r]
              /\ ledger'[r] = ledger[r]
              /\ request'[r] = request[r]]_creditVars
  BY <1>1
<1>3. QED
  BY <1>2, CreditInvariant, PTL DEF CreditSpec, FirstFinalDecides

\* A key with a settlement in doubt reserves nothing any more.
THEOREM NoCreditOnDoubt == CreditSpec => NoCreditAfterDoubt
<1>1. ASSUME CreditInv, [CreditNext]_creditVars, NEW r \in Requests, NEW q \in Requests,
             reservation[r] = "none", reservation'[r] # "none", KeyOf[q] = KeyOf[r]
      PROVE  ~reconcile[q]
  <2>0. TypeOK /\ Bill(q) /\ Amount[q] \in Nat
    BY <1>1, AmountType DEF CreditInv, CreditTypeOK
  <2>1. ASSUME NEW s \in Requests, NEW p \in Payloads, ApplyReceipt(s, p) PROVE FALSE
    <3>1. CASE r # s
      BY <1>1, <2>1, <3>1, OtherRequests DEF SameRequest
    <3>2. CASE r = s
      BY <1>1, <2>1, <3>2 DEF ApplyReceipt
    <3>3. QED
      BY <3>1, <3>2
  <2>2. \E s \in Requests, checked \in BOOLEAN : ReserveQuote(s, checked)
    <3>1. CASE \/ \E k \in Keys, n \in Grants : AllocateFromUpstream(k, n) \/ GiveUnchecked(k, n)
               \/ \E s \in Requests, c \in Charges : UpstreamCharges(s, c)
               \/ LedgerUpkeep
               \/ UNCHANGED creditVars
      BY <1>1, <3>1, BystanderSteps
    <3>2. CASE \E s \in Requests : Begin(s)
      BY <1>1, <3>2 DEF Begin
    <3>3. QED
      BY <1>1, <2>1, <3>1, <3>2 DEF CreditNext
  <2>3. blocked[KeyOf[r]] = "no"
    BY <1>1, <2>0, <2>2 DEF ReserveQuote, ReserveDual, TypeOK
  <2>4. reconcile[q] => blocked[KeyOf[q]] # "no"
    BY <2>0 DEF Bill, Unquoted, Awaiting, Concluded, Flagged, Unsettled
  <2>5. QED
    BY <1>1, <2>3, <2>4
<1>2. CreditInv /\ [CreditNext]_creditVars =>
        [\A r, q \in Requests :
           reservation[r] = "none" /\ reservation'[r] # "none" /\ KeyOf[q] = KeyOf[r]
              => ~reconcile[q]]_creditVars
  BY <1>1
<1>3. QED
  BY <1>2, CreditInvariant, PTL DEF CreditSpec, NoCreditAfterDoubt

-----------------------------------------------------------------------------
(* Debts.                                                                    *)

Debtor(a, r) ==
    a \in heldOn[r] /\ settled[r] > Amount[r] /\ reconcile[r] /\ blocked[KeyOf[r]] # "no"

\* Who has been charged too much stays known for it.
LEMMA DebtorStays ==
    ASSUME CreditInv, [CreditNext]_creditVars, NEW a \in Accounts, NEW r \in Requests, Debtor(a, r)
    PROVE  Debtor(a, r)'
<1>0. Bill(r) /\ TypeOK /\ CreditTypeOK /\ Amount[r] \in Nat /\ KeyOf[r] \in Keys
  BY AmountType, KeyOfType DEF CreditInv, CreditTypeOK
<1>1. reservation[r] = "committed" /\ request[r] = "settled" /\ settled[r] # NoAmount
  BY <1>0 DEF Debtor, Bill, Unquoted, Awaiting, Concluded, ChargedAsSettled, Unsettled, NoAmount
<1>2. ASSUME NEW k \in Keys, NEW n \in Grants, AllocateFromUpstream(k, n) \/ GiveUnchecked(k, n)
      PROVE  Debtor(a, r)'
  BY <1>2, GivenByAdjust DEF Adjust, billVars, Debtor
<1>3. ASSUME NEW q \in Requests, Begin(q) PROVE Debtor(a, r)'
  BY <1>3 DEF Begin, billVars, Debtor
<1>4. ASSUME NEW q \in Requests, NEW checked \in BOOLEAN, ReserveQuote(q, checked)
      PROVE  Debtor(a, r)'
  BY <1>0, <1>1, <1>4 DEF ReserveQuote, ReserveDual, billVars, Debtor, TypeOK
<1>5. ASSUME NEW q \in Requests, NEW c \in Charges, UpstreamCharges(q, c) PROVE Debtor(a, r)'
  BY <1>5 DEF UpstreamCharges, quotaVars, holdVars, billVars, Debtor
<1>6. ASSUME NEW q \in Requests, NEW p \in Payloads, ApplyReceipt(q, p) PROVE Debtor(a, r)'
  <2>1. CASE r # q
    BY <1>6, <2>1, OtherRequests DEF SameRequest, Debtor
  <2>2. CASE r = q /\ AgreeingFinal(q, p)
    BY <2>2 DEF AgreeingFinal, quotaVars, holdVars, Debtor
  <2>3. CASE r = q /\ ContradictingFinal(q, p)
    <3>1. reconcile'[r] = TRUE /\ blocked'[KeyOf[r]] # "no"
      BY <1>0, <2>3, BlockType DEF ContradictingFinal, CreditTypeOK
    <3>2. UNCHANGED <<heldOn, settled>>
      BY <2>3 DEF ContradictingFinal, quotaVars, holdVars
    <3>3. QED
      BY <3>1, <3>2 DEF Debtor
  <2>4. QED
    BY <1>1, <1>6, <2>1, <2>2, <2>3 DEF ApplyReceipt, OpenReceipt, SettleByReceipt
<1>7. CASE LedgerUpkeep
  BY <1>7 DEF LedgerUpkeep, GrantPool, Adjust, ReconcileEventGroups, holdVars, billVars, Debtor
<1>8. CASE UNCHANGED creditVars
  BY <1>8 DEF creditVars, quotaVars, holdVars, billVars, Debtor
<1>9. QED
  BY <1>2, <1>3, <1>4, <1>5, <1>6, <1>7, <1>8 DEF CreditNext

\* A step that takes an account below zero settles a request above its quote.
LEMMA DebtMade ==
    ASSUME CreditInv, [CreditNext]_creditVars, NEW a \in Accounts,
           available[a] >= 0, available'[a] < 0
    PROVE  \E r \in Requests : Debtor(a, r)'
<1>0. TypeOK /\ CreditTypeOK /\ available[a] \in Int
  BY DEF CreditInv, CreditTypeOK, TypeOK
<1>1. ASSUME NEW b \in Accounts, NEW n \in Grants, Adjust(b, n) PROVE FALSE
  BY <1>0, <1>1, QuotaConstants DEF Adjust, Grants, TypeOK
<1>2. ASSUME NEW r \in Requests, ReserveDual(r) PROVE FALSE
  <2>1. Amount[r] \in Nat /\ -Amount[r] \in Int /\ AccountsFor(r) \in SUBSET Accounts
    BY AmountType, AccountsForType
  <2>2. \A n \in Int : Credited(AccountsFor(r), n)[a] =
                          IF a \in AccountsFor(r) THEN available[a] + n ELSE available[a]
    BY <1>0, <2>1, CreditedType
  <2>3. available'[a] = IF a \in AccountsFor(r) THEN available[a] - Amount[r] ELSE available[a]
    BY <1>0, <1>2, <2>1, <2>2 DEF ReserveDual
  <2>4. a \in AccountsFor(r) => available[a] >= Amount[r]
    BY <1>2 DEF ReserveDual
  <2>5. QED
    BY <1>0, <2>1, <2>3, <2>4
<1>3. ASSUME NEW r \in Requests, NEW p \in Payloads, SettleByReceipt(r, p)
      PROVE  Debtor(a, r)'
  <2>1. Amount[r] \in Nat /\ Actual(p) \in Nat /\ heldOn[r] \in SUBSET Accounts /\ KeyOf[r] \in Keys
    BY <1>0, <1>3, AmountType, ActualType, KeyOfType DEF SettleByReceipt, TypeOK
  <2>2. \A n \in Int : Credited(heldOn[r], n)[a] =
                          IF a \in heldOn[r] THEN available[a] + n ELSE available[a]
    BY DEF Credited
  <2>3. available'[a] = IF a \in heldOn[r] THEN available[a] + (Amount[r] - Actual(p))
                                            ELSE available[a]
    BY <1>3, <2>1, <2>2 DEF SettleByReceipt
  <2>4. a \in heldOn[r] /\ Actual(p) > Amount[r]
    BY <1>0, <2>1, <2>3
  <2>5. heldOn' = heldOn /\ settled'[r] = Actual(p) /\ reconcile'[r] = (Actual(p) > Amount[r])
    BY <1>0, <1>3 DEF SettleByReceipt, CreditTypeOK
  <2>6. blocked' = Block(KeyOf[r], "over_quote")
    BY <1>3, <2>4 DEF SettleByReceipt
  <2>7. blocked'[KeyOf[r]] # "no"
    BY <1>0, <2>1, <2>6, BlockType
  <2>8. QED
    BY <2>4, <2>5, <2>7 DEF Debtor
<1>4. ASSUME NEW r \in Requests, NEW p \in Payloads, ApplyReceipt(r, p)
      PROVE  SettleByReceipt(r, p) \/ available' = available
  BY <1>4 DEF ApplyReceipt, OpenReceipt, AgreeingFinal, ContradictingFinal, quotaVars, holdVars
<1>5. \/ available' = available
      \/ \E b \in Accounts, n \in Grants : Adjust(b, n)
      \/ \E r \in Requests : ReserveDual(r)
      \/ \E r \in Requests, p \in Payloads : SettleByReceipt(r, p)
  <2>1. CASE \E k \in Keys, n \in Grants : AllocateFromUpstream(k, n) \/ GiveUnchecked(k, n)
    BY <2>1, GivenByAdjust DEF Accounts
  <2>2. CASE \E r \in Requests, checked \in BOOLEAN : ReserveQuote(r, checked)
    BY <2>2 DEF ReserveQuote
  <2>3. CASE \E r \in Requests : Begin(r)
    BY <2>3 DEF Begin
  <2>4. CASE \E r \in Requests, c \in Charges : UpstreamCharges(r, c)
    BY <2>4 DEF UpstreamCharges, quotaVars, holdVars
  <2>5. CASE LedgerUpkeep
    BY <2>5 DEF LedgerUpkeep, GrantPool, ReconcileEventGroups, holdVars, Accounts
  <2>6. CASE UNCHANGED creditVars
    BY <2>6 DEF creditVars, quotaVars, holdVars
  <2>7. QED
    BY <1>4, <2>1, <2>2, <2>3, <2>4, <2>5, <2>6 DEF CreditNext
<1>6. QED
  BY <1>0, <1>1, <1>2, <1>3, <1>5

\* No account goes below zero but by a charge above its quote, and that blocks the key.
THEOREM DebtAlwaysBlocked == CreditSpec => []DebtIsBlocked
<1> DEFINE DebtInv == \A a \in Accounts : available[a] < 0 => \E r \in Requests : Debtor(a, r)
<1>1. CreditInit => DebtInv
  BY DEF CreditInit, Init
<1>2. CreditInv /\ DebtInv /\ [CreditNext]_creditVars => DebtInv'
  <2> SUFFICES ASSUME CreditInv, DebtInv, [CreditNext]_creditVars, NEW a \in Accounts,
                      available'[a] < 0
               PROVE  \E r \in Requests : Debtor(a, r)'
    OBVIOUS
  <2>1. CASE available[a] < 0
    BY <2>1, DebtorStays
  <2>2. CASE ~(available[a] < 0)
    <3>1. available[a] >= 0
      BY <2>2 DEF CreditInv, CreditTypeOK, TypeOK
    <3>2. QED
      BY <3>1, DebtMade
  <2>3. QED
    BY <2>1, <2>2
<1>3. DebtInv => DebtIsBlocked
  BY DEF DebtIsBlocked, Debtor
<1>4. QED
  BY <1>1, <1>2, <1>3, CreditInvariant, PTL DEF CreditSpec

-----------------------------------------------------------------------------
(* Conservation, over-quote charges included: a commit row may exceed what was *)
(* held, and the balance has gone down by the difference.                      *)

LEMMA CreditFunds ==
    ASSUME CreditInv, CreditInv', [CreditNext]_creditVars, \A a \in Accounts : Funds(a)
    PROVE  \A a \in Accounts : Funds(a)'
<1> SUFFICES ASSUME NEW a \in Accounts PROVE Funds(a)'
  OBVIOUS
<1>0. TypeOK /\ TypeOK' /\ Funds(a) /\ \A r \in Requests : Bill(r)
  BY DEF CreditInv, CreditTypeOK
<1>1. CASE UNCHANGED <<available, reservation, heldOn, ledger, granted>>
  <2>1. available'[a] - available[a] = granted'[a] - granted[a]
    BY <1>0, <1>1 DEF TypeOK
  <2> QED
    BY <1>0, <1>1, <2>1, FundsGranted
<1>2. ASSUME NEW b \in Accounts, NEW n \in Grants, Adjust(b, n) PROVE Funds(a)'
  <2>1. available'[a] - available[a] = granted'[a] - granted[a]
    BY <1>0, <1>2, QuotaConstants DEF Adjust, TypeOK, Grants
  <2>2. UNCHANGED <<reservation, heldOn, ledger>>
    BY <1>2 DEF Adjust
  <2> QED
    BY <1>0, <2>1, <2>2, FundsGranted
<1>3. ASSUME NEW r \in Requests, NEW checked \in BOOLEAN, ReserveQuote(r, checked) PROVE Funds(a)'
  <2>1. ReserveDual(r) /\ granted'[a] = granted[a]
    BY <1>3 DEF ReserveQuote, adminVars
  <2>2. ledger[r] = {}
    BY <1>0, <2>1 DEF Bill, Unquoted, ReserveDual
  <2> QED
    BY <1>0, <2>1, <2>2, FundsReserved
<1>4. ASSUME NEW r \in Requests, NEW p \in Payloads, OpenReceipt(r, p) PROVE Funds(a)'
  <2>1. UNCHANGED <<available, granted, heldOn, ledger>>
    BY <1>4 DEF OpenReceipt, adminVars
  <2>2. \A q \in Requests : Unsettled(q)' = Unsettled(q)
    BY <1>0, <1>4 DEF OpenReceipt, Unsettled, TypeOK
  <2>3. HoldsOn(a)' = HoldsOn(a) /\ SettledRows(a)' = SettledRows(a)
    BY <2>1, <2>2 DEF HoldsOn, SettledRows
  <2> QED
    BY <1>0, <2>1, <2>3, HeldSame, SettledSame DEF Funds
<1>5. ASSUME NEW r \in Requests, NEW p \in Payloads, SettleByReceipt(r, p) PROVE Funds(a)'
  <2>1. /\ Unsettled(r) /\ Actual(p) \in Nat /\ granted'[a] = granted[a]
        /\ \A e \in ledger[r] : e.kind = "reserve"
    BY <1>0, <1>5, ActualType DEF SettleByReceipt, adminVars, Bill, Awaiting
  <2>2. /\ reservation' = [reservation EXCEPT ![r] = "committed"] /\ heldOn' = heldOn
        /\ ledger' = [ledger EXCEPT ![r] = ledger[r] \cup Rows(r, heldOn[r], "commit", Actual(p))]
        /\ available' = Credited(heldOn[r], Amount[r] - Actual(p))
    BY <1>5 DEF SettleByReceipt
  <2> QED
    BY <1>0, <2>1, <2>2, FundsEnded
<1>6. ASSUME NEW r \in Requests, NEW p \in Payloads, ApplyReceipt(r, p) PROVE Funds(a)'
  BY <1>1, <1>4, <1>5, <1>6
  DEF ApplyReceipt, AgreeingFinal, ContradictingFinal, quotaVars, adminVars, holdVars
<1>7. CASE LedgerUpkeep
  BY <1>1, <1>2, <1>7 DEF LedgerUpkeep, GrantPool, ReconcileEventGroups, holdVars, Accounts
<1>8. CASE \E k \in Keys, n \in Grants : AllocateFromUpstream(k, n) \/ GiveUnchecked(k, n)
  BY <1>2, <1>8, GivenByAdjust DEF Accounts
<1>9. CASE \/ \E r \in Requests : Begin(r)
           \/ \E r \in Requests, c \in Charges : UpstreamCharges(r, c)
           \/ UNCHANGED creditVars
  BY <1>1, <1>9 DEF Begin, UpstreamCharges, creditVars, quotaVars, adminVars, holdVars
<1> QED
  BY <1>3, <1>6, <1>7, <1>8, <1>9 DEF CreditNext

\* Whatever AI Work charges, above a quote too, and however receipts repeat or
\* contradict each other, the balance of an account is what it was granted.
THEOREM CreditConservation == CreditSpec => []Conservation
<1> DEFINE AllFunds == \A a \in Accounts : Funds(a)
<1>1. CreditInit => AllFunds
  BY InitFunds DEF CreditInit
<1>2. CreditInv /\ CreditInv' /\ AllFunds /\ [CreditNext]_creditVars => AllFunds'
  BY CreditFunds
<1>3. AllFunds => Conservation
  BY DEF Funds, Conservation
<1>4. QED
  BY <1>1, <1>2, <1>3, CreditInvariant, PTL DEF CreditSpec

-----------------------------------------------------------------------------
(* The capacity AI Work has for the keys. What all keys may still spend is a  *)
(* sum over the keys, what AI Work took already and no key was charged for    *)
(* yet a sum over the requests; the invariant says why both are finite, that  *)
(* a reservation is held on one key, and that AI Work charges for quotes only. *)

Quoted == {r \in Requests : reservation[r] # "none"}

HeldOnItsKey(r) ==
    /\ heldOn[r] \cap Keys \subseteq {KeyOf[r]}
    /\ reservation[r] # "none" => KeyOf[r] \in heldOn[r]
    /\ reservation[r] = "none" => charge[r] = NoAmount
    /\ settled[r] # NoAmount => charge[r] # NoAmount

NothingBeforeGrant(k) == ~Exists(k) => available[k] = 0 /\ HoldsOn(k) = {}

CoverInv ==
    /\ IsFiniteSet(Quoted)
    /\ IsFiniteSet(Granted)
    /\ \A r \in Requests : HeldOnItsKey(r)
    /\ \A k \in Keys : NothingBeforeGrant(k)
    /\ KeysCovered

LEMMA QuotedFinite ==
    ASSUME CreditInv, CoverInv
    PROVE  /\ \A k : IsFiniteSet(HoldsOn(k)) /\ Held(k) \in Nat
           /\ IsFiniteSet(InFlight)
           /\ \A r \in InFlight : charge[r] \in Nat
<1>0. TypeOK /\ CreditTypeOK
  BY DEF CreditInv, CreditTypeOK
<1>1. ASSUME NEW k PROVE IsFiniteSet(HoldsOn(k)) /\ Held(k) \in Nat
  <2>1. HoldsOn(k) \subseteq Quoted
    BY DEF HoldsOn, Unsettled, Quoted
  <2>2. \A r \in HoldsOn(k) : Amount[r] \in Nat
    BY AmountType DEF HoldsOn
  <2> QED
    BY <2>1, <2>2, FS_Subset, SumNat DEF CoverInv, Held
<1>2. InFlight \subseteq Quoted
  BY DEF InFlight, Quoted, CoverInv, HeldOnItsKey
<1>3. \A r \in InFlight : charge[r] \in Nat
  BY <1>0 DEF InFlight, CreditTypeOK
<1> QED
  BY <1>1, <1>2, <1>3, FS_Subset DEF CoverInv

LEMMA CommitmentType ==
    ASSUME CreditInv, CoverInv, NEW k \in Keys
    PROVE  Commitment(k) \in Nat /\ available[k] \in Int
<1>1. available[k] \in Int /\ Held(k) \in Nat
  BY QuotedFinite DEF CreditInv, CreditTypeOK, TypeOK, Accounts
<1> QED
  BY <1>1 DEF Commitment

LEMMA CommittedType == ASSUME CreditInv, CoverInv PROVE Committed \in Int
<1>1. \A j \in Granted : [k \in Granted |-> Commitment(k)][j] \in Int
  BY CommitmentType DEF Granted
<1> QED
  BY <1>1, SumType DEF CoverInv, Committed

\* What was truthful after a step was so before it.
LEMMA TruthBefore ==
    ASSUME CreditInv, CoverInv, Truthful',
           \A r \in Requests : charge[r] # NoAmount => charge'[r] = charge[r],
           \A r \in Requests : settled[r] # NoAmount => settled'[r] = settled[r]
    PROVE  Truthful
<1> SUFFICES ASSUME NEW r \in Requests
             PROVE  charge[r] <= Amount[r] /\ (settled[r] # NoAmount => settled[r] = charge[r])
  BY DEF Truthful
<1>1. charge'[r] <= Amount[r] /\ (settled'[r] # NoAmount => settled'[r] = charge'[r])
  BY DEF Truthful
<1>2. Amount[r] \in Nat /\ (settled[r] # NoAmount => charge[r] # NoAmount)
  BY AmountType DEF CoverInv, HeldOnItsKey
<1> QED
  BY <1>1, <1>2 DEF NoAmount

\* Steps that change neither what a key may still spend nor what AI Work takes.
LEMMA CoverSame ==
    ASSUME CreditInv, CoverInv, UNCHANGED <<charge, upstream, settled>>,
           \A k \in Keys : Exists(k)' = Exists(k),
           \A k \in Keys : (available[k] + Held(k))' = available[k] + Held(k)
    PROVE  Committed' = Committed /\ (unchecked' = unchecked => KeysCovered')
<1>1. Granted' = Granted /\ InFlight' = InFlight
  BY DEF Granted, InFlight
<1>2. \A k \in Granted : Commitment(k)' = Commitment(k)
  BY DEF Commitment, Granted
<1>3. Committed' = Committed
  <2>1. [k \in Granted |-> Commitment(k)]' = [k \in Granted |-> Commitment(k)]
    BY <1>1, <1>2
  <2> QED
    BY <1>1, <2>1 DEF Committed
<1>4. Truthful' => Truthful
  BY TruthBefore
<1> QED
  BY <1>1, <1>3, <1>4 DEF KeysCovered, CoverInv

\* A grant to a key raises what the keys may still spend by no more than itself.
LEMMA CommittedGrows ==
    ASSUME CreditInv, CoverInv, NEW k \in Keys, NEW n \in Grants, Adjust(k, n)
    PROVE  /\ Committed \in Int /\ Committed' \in Int
           /\ Committed' <= Committed + n
           /\ IsFiniteSet(Granted)'
<1> DEFINE f == [j \in Granted |-> Commitment(j)]
           g == [j \in Granted \cup {k} |-> Commitment(j)']
<1>0. n \in Nat /\ TypeOK /\ IsFiniteSet(Granted) /\ upstream \in Nat
  BY QuotaConstants DEF Grants, CreditInv, CreditTypeOK, CoverInv
<1>1. Granted' = Granted \cup {k}
  BY <1>0 DEF Adjust, Granted, Exists, TypeOK, Accounts
<1>2. \A j \in Keys : Held(j)' = Held(j) /\ Held(j) \in Nat
  <2>1. \A j \in Keys : HoldsOn(j)' = HoldsOn(j)
    BY DEF Adjust, HoldsOn, Unsettled
  <2> QED
    BY <2>1, HeldSame, QuotedFinite
<1>3. available'[k] = available[k] + n /\ \A j \in Keys : j # k => available'[j] = available[j]
  BY <1>0 DEF Adjust, TypeOK, Accounts
<1>4. \A j \in Keys : Commitment(j) \in Nat /\ Commitment(j)' \in Nat
                      /\ (j # k => Commitment(j)' = Commitment(j))
  <2>1. \A j \in Keys : available[j] \in Int /\ available'[j] \in Int
    BY <1>0, <1>3 DEF TypeOK, Accounts
  <2> QED
    BY <1>2, <1>3, <2>1 DEF Commitment
<1>5. Commitment(k)' <= Commitment(k) + n /\ (k \notin Granted => Commitment(k)' = n)
  <2>1. available[k] \in Int
    BY <1>0 DEF TypeOK, Accounts
  <2>2. k \notin Granted => available[k] = 0 /\ Held(k) = 0
    BY SumEmpty DEF Granted, CoverInv, NothingBeforeGrant, Held
  <2> QED
    BY <1>0, <1>2, <1>3, <2>1, <2>2 DEF Commitment
<1>6. Committed = SumFunctionOnSet(f, Granted)
  BY DEF Committed
<1>7. Committed' = SumFunctionOnSet(g, Granted \cup {k})
  <2>1. [j \in Granted |-> Commitment(j)]' = g
    BY <1>1
  <2> QED
    BY <1>1, <2>1 DEF Committed
<1>8. /\ \A j \in Granted : f[j] = Commitment(j)
      /\ \A j \in Granted \cup {k} : g[j] = Commitment(j)'
      /\ Granted \subseteq Keys
  BY DEF Granted
<1> HIDE DEF f, g
<1>9. Committed \in Int /\ Committed' <= Committed + n
  <2>1. SumFunctionOnSet(f, Granted) \in Int
    BY <1>0, <1>4, <1>8, SumType
  <2>2. CASE k \in Granted
    <3>1. SumFunctionOnSet(g, Granted) = SumFunctionOnSet(f, Granted) - f[k] + g[k]
      <4>1. \A j \in Granted : f[j] \in Int /\ g[j] \in Int
        BY <1>4, <1>8
      <4>2. \A j \in Granted : j # k => g[j] = f[j]
        BY <1>4, <1>8
      <4> QED
        BY <1>0, <2>2, <4>1, <4>2, SumChange
    <3>2. Granted \cup {k} = Granted
      BY <2>2
    <3> QED
      <4>1. f[k] = Commitment(k) /\ g[k] = Commitment(k)'
        BY <1>8, <2>2
      <4>2. Committed' = Committed - Commitment(k) + Commitment(k)'
        BY <1>6, <1>7, <3>1, <3>2, <4>1
      <4>3. Committed \in Int /\ Commitment(k) \in Int /\ Commitment(k)' \in Int
        BY <1>4, <1>6, <2>1
      <4> QED
        BY <1>0, <1>5, <4>2, <4>3
  <2>3. CASE k \notin Granted
    <3>1. SumFunctionOnSet(g, Granted \cup {k}) = SumFunctionOnSet(g, Granted) + g[k]
      <4>1. \A j \in Granted \cup {k} : g[j] \in Int
        BY <1>4, <1>8
      <4> QED
        BY <1>0, <2>3, <4>1, SumAdd
    <3>2. SumFunctionOnSet(g, Granted) = SumFunctionOnSet(f, Granted)
      <4>1. \A j \in Granted : g[j] = f[j]
        BY <1>4, <1>8, <2>3
      <4> QED
        BY <1>0, <4>1, SumSame
    <3> QED
      BY <1>0, <1>5, <1>6, <1>7, <1>8, <2>1, <2>3, <3>1, <3>2
  <2> QED
    BY <1>6, <2>1, <2>2, <2>3
<1>10. Committed' \in Int
  <2>1. \A j \in Granted \cup {k} : g[j] \in Int
    BY <1>4, <1>8
  <2> QED
    BY <1>0, <1>7, <2>1, SumType, FS_AddElement
<1>11. IsFiniteSet(Granted)'
  BY <1>0, <1>1, FS_AddElement
<1> QED
  BY <1>9, <1>10, <1>11

\* A grant is either checked against what AI Work has left, or counted as unchecked.
LEMMA CoverAllocated ==
    ASSUME CreditInv, CoverInv, NEW k \in Keys, NEW n \in Grants,
           AllocateFromUpstream(k, n) \/ GiveUnchecked(k, n)
    PROVE  KeysCovered' /\ IsFiniteSet(Granted)'
<1>1. /\ n \in Nat /\ upstream \in Nat /\ unchecked \in Nat
      /\ SumFunctionOnSet(charge, InFlight) \in Nat
  BY QuotaConstants, QuotedFinite, SumNat DEF Grants, CreditInv, CreditTypeOK
<1>2. Adjust(k, n) /\ UNCHANGED <<settled, charge, upstream>>
  BY GivenByAdjust DEF billVars, worldVars
<1>3. /\ Committed \in Int /\ Committed' \in Int /\ Committed' <= Committed + n
      /\ IsFiniteSet(Granted)'
  BY <1>2, CommittedGrows
<1>4. InFlight' = InFlight
  BY <1>2 DEF InFlight
<1>5. CASE AllocateFromUpstream(k, n)
  <2>1. n <= upstream - Committed /\ unchecked' = 0
    BY <1>5 DEF AllocateFromUpstream
  <2>2. Committed' - SumFunctionOnSet(charge, InFlight) <= upstream + unchecked'
    BY <1>1, <1>3, <2>1
  <2> QED
    BY <1>2, <1>3, <1>4, <2>2 DEF KeysCovered
<1>6. CASE GiveUnchecked(k, n)
  <2>1. unchecked' = unchecked + n
    BY <1>6 DEF GiveUnchecked
  <2>2. Truthful' => Truthful
    BY <1>2 DEF Truthful
  <2>3. Truthful => Committed - SumFunctionOnSet(charge, InFlight) <= upstream + unchecked
    BY DEF CoverInv, KeysCovered
  <2>4. Truthful => Committed' - SumFunctionOnSet(charge, InFlight) <= upstream + unchecked'
    BY <1>1, <1>3, <2>1, <2>3
  <2> QED
    BY <1>2, <1>3, <1>4, <2>2, <2>4 DEF KeysCovered
<1> QED
  BY <1>5, <1>6

\* What AI Work takes is in flight until a receipt says so.
LEMMA CoverCharged ==
    ASSUME CreditInv, CoverInv, NEW r \in Requests, NEW c \in Charges, UpstreamCharges(r, c)
    PROVE  KeysCovered'
<1>0. CreditTypeOK /\ upstream \in Nat /\ unchecked \in Nat /\ c \in Nat /\ c <= upstream
  BY CreditConstants DEF CreditInv, CreditTypeOK, UpstreamCharges
<1>1. charge[r] = NoAmount /\ settled[r] = NoAmount /\ r \notin InFlight
  BY DEF UpstreamCharges, CoverInv, HeldOnItsKey, InFlight
<1>2. /\ charge'[r] = c /\ c # NoAmount
      /\ \A q \in Requests : q # r => charge'[q] = charge[q]
      /\ settled' = settled
      /\ upstream' = upstream - c /\ unchecked' = unchecked
  BY <1>0 DEF UpstreamCharges, CreditTypeOK, billVars, NoAmount
<1>3. InFlight' = InFlight \cup {r}
  BY <1>1, <1>2 DEF InFlight
<1>4. Committed' = Committed
  BY DEF UpstreamCharges, quotaVars, adminVars, holdVars, Committed, Granted, Exists, Commitment,
         Held, HoldsOn, Unsettled
<1>5. SumFunctionOnSet(charge', InFlight \cup {r}) = SumFunctionOnSet(charge, InFlight) + c
  <2>1. \A q \in InFlight : charge'[q] = charge[q] /\ charge[q] \in Nat
    BY <1>1, <1>2, QuotedFinite DEF InFlight
  <2>2. SumFunctionOnSet(charge', InFlight) = SumFunctionOnSet(charge, InFlight)
    BY <2>1, SumSame, QuotedFinite
  <2>3. SumFunctionOnSet(charge', InFlight \cup {r}) = SumFunctionOnSet(charge', InFlight) + charge'[r]
    <3>1. \A q \in InFlight \cup {r} : charge'[q] \in Int
      BY <1>0, <1>2, <2>1
    <3> QED
      BY <1>1, <3>1, SumAdd, QuotedFinite
  <2> QED
    BY <1>2, <2>2, <2>3
<1>6. SumFunctionOnSet(charge, InFlight) \in Nat /\ Committed \in Int
  <2>1. \A j \in Granted : [k \in Granted |-> Commitment(k)][j] \in Int
    BY CommitmentType DEF Granted
  <2> QED
    BY <2>1, QuotedFinite, SumNat, SumType DEF CoverInv, Committed
<1>7. Truthful' => Truthful
  BY <1>1, <1>2, TruthBefore
<1>8. (Committed - SumFunctionOnSet(charge, InFlight))'
        = Committed - (SumFunctionOnSet(charge, InFlight) + c)
  BY <1>3, <1>4, <1>5
<1>9. Truthful => Committed - SumFunctionOnSet(charge, InFlight) <= upstream + unchecked
  BY DEF CoverInv, KeysCovered
<1> QED
  BY <1>0, <1>2, <1>6, <1>7, <1>8, <1>9 DEF KeysCovered

\* A settlement takes from the keys what AI Work took already.
LEMMA CoverSettled ==
    ASSUME CreditInv, CreditInv', CoverInv, DebtIsBlocked', NEW r \in Requests, NEW p \in Payloads,
           charge[r] # NoAmount, SettleByReceipt(r, p)
    PROVE  KeysCovered'
<1> SUFFICES ASSUME Truthful'
             PROVE  (Committed - SumFunctionOnSet(charge, InFlight))' <= upstream' + unchecked'
  BY DEF KeysCovered
<1> DEFINE k == KeyOf[r]
           f == [j \in Granted |-> Commitment(j)]
           g == [j \in Granted |-> Commitment(j)']
<1>0. /\ TypeOK /\ CreditTypeOK /\ k \in Keys /\ Amount[r] \in Nat /\ Actual(p) \in Nat
      /\ IsFiniteSet(Granted) /\ upstream \in Nat /\ unchecked \in Nat /\ HeldOnItsKey(r)
  BY KeyOfType, AmountType, ActualType DEF CreditInv, CreditTypeOK, SettleByReceipt, CoverInv
<1>1. /\ settled'[r] = Actual(p) /\ \A q \in Requests : q # r => settled'[q] = settled[q]
      /\ settled[r] = NoAmount /\ Actual(p) # NoAmount
      /\ UNCHANGED <<charge, upstream, unchecked, version, heldOn>>
  BY <1>0 DEF SettleByReceipt, CreditTypeOK, worldVars, adminVars, NoAmount
<1>2. charge[r] = Actual(p)
  BY <1>1 DEF Truthful
<1>3. Truthful
  BY <1>1, TruthBefore
<1>4. InFlight' = InFlight \ {r} /\ r \in InFlight
  BY <1>1 DEF InFlight
<1>5. SumFunctionOnSet(charge, InFlight) = charge[r] + SumFunctionOnSet(charge, InFlight \ {r})
  BY <1>4, QuotedFinite, SumRemove
<1>6. Granted' = Granted
  BY <1>1 DEF Granted, Exists
<1>7. reservation[r] # "none" /\ Unsettled(r) /\ r \in HoldsOn(k) /\ k \in Granted
  BY <1>0 DEF SettleByReceipt, Unsettled, HeldOnItsKey, HoldsOn, CoverInv, NothingBeforeGrant, Granted
<1>8. \A j \in Keys : j # k => j \notin heldOn[r]
  BY <1>0 DEF HeldOnItsKey
<1>9. \A j \in Keys : HoldsOn(j)' = HoldsOn(j) \ (IF j = k THEN {r} ELSE {})
  <2>1. ~Unsettled(r)' /\ \A q \in Requests : q # r => Unsettled(q)' = Unsettled(q)
    BY <1>0 DEF SettleByReceipt, Unsettled, TypeOK
  <2> QED
    BY <1>1, <1>8, <2>1 DEF HoldsOn
<1>10. Held(k)' = Held(k) - Amount[r] /\ \A j \in Keys : j # k => Held(j)' = Held(j)
  <2>1. HoldsOn(k)' = HoldsOn(k) \ {r} /\ \A j \in Keys : j # k => HoldsOn(j)' = HoldsOn(j)
    BY <1>0, <1>9
  <2> QED
    BY <1>0, <1>7, <2>1, HeldLoses, HeldSame, QuotedFinite
<1>11. /\ available'[k] = available[k] + (Amount[r] - Actual(p))
       /\ \A j \in Keys : j # k => available'[j] = available[j]
  BY <1>0, <1>7, <1>8 DEF SettleByReceipt, Credited, HoldsOn, Accounts
\* While receipts tell what was charged, and no more than was quoted, nobody has debts.
<1>12. available'[k] >= 0
  <2>1. ASSUME NEW q \in Requests, settled'[q] > Amount[q] PROVE FALSE
    <3>1. charge'[q] <= Amount[q] /\ (settled'[q] # NoAmount => settled'[q] = charge'[q])
      BY DEF Truthful
    <3>2. /\ Amount[q] \in Nat
          /\ settled'[q] \in Nat \cup {NoAmount} /\ charge'[q] \in Nat \cup {NoAmount}
      BY AmountType DEF CreditInv, CreditTypeOK
    <3> QED
      BY <2>1, <3>1, <3>2 DEF NoAmount
  <2>2. k \in Accounts /\ available'[k] \in Int
    BY <1>0, <1>11 DEF TypeOK, Accounts
  <2> QED
    BY <2>1, <2>2 DEF DebtIsBlocked
<1>13. Commitment(k)' = Commitment(k) - charge[r] /\ \A j \in Keys : j # k => Commitment(j)' = Commitment(j)
  <2>1. available[k] \in Int /\ available'[k] \in Int /\ Held(k) \in Nat /\ Held(k)' \in Int
    BY <1>0, <1>10, <1>11, QuotedFinite DEF TypeOK, Accounts
  <2>2. Held(k)' \in Nat
    <3>1. HoldsOn(k)' = HoldsOn(k) \ {r}
      BY <1>0, <1>9
    <3>2. IsFiniteSet(HoldsOn(k) \ {r}) /\ \A q \in HoldsOn(k) \ {r} : Amount[q] \in Nat
      BY QuotedFinite, FS_RemoveElement, AmountType DEF HoldsOn
    <3> QED
      BY <3>1, <3>2, SumNat DEF Held
  <2>3. Commitment(k)' = available'[k] + Held(k)'
    BY <1>12, <2>1, <2>2 DEF Commitment
  <2>4. Commitment(k) = available[k] + Held(k)
    BY <1>0, <1>2, <1>10, <1>11, <1>12, <2>1, <2>2 DEF Commitment
  <2>5. \A j \in Keys : j # k => Commitment(j)' = Commitment(j)
    BY <1>10, <1>11 DEF Commitment
  <2> QED
    BY <1>0, <1>2, <1>10, <1>11, <2>1, <2>3, <2>4, <2>5
<1>14. /\ \A j \in Granted : f[j] = Commitment(j) /\ g[j] = Commitment(j)' /\ j \in Keys
       /\ Committed = SumFunctionOnSet(f, Granted)
  BY DEF Granted, Committed
<1>15. Committed' = SumFunctionOnSet(g, Granted)
  <2>1. [j \in Granted |-> Commitment(j)]' = g
    BY <1>6
  <2> QED
    BY <1>6, <2>1 DEF Committed
<1> HIDE DEF f, g
<1>16. Committed' = Committed - charge[r] /\ Committed \in Int
  <2>1. \A j \in Granted : f[j] \in Int /\ g[j] \in Int /\ (j # k => g[j] = f[j])
    BY <1>0, <1>2, <1>13, <1>14, CommitmentType
  <2>2. SumFunctionOnSet(g, Granted) = SumFunctionOnSet(f, Granted) - f[k] + g[k]
    BY <1>0, <1>7, <2>1, SumChange
  <2>3. f[k] \in Int /\ g[k] = f[k] - charge[r] /\ SumFunctionOnSet(f, Granted) \in Int
    BY <1>0, <1>7, <1>13, <1>14, <2>1, SumType
  <2> QED
    BY <1>0, <1>2, <1>14, <1>15, <2>2, <2>3
<1>17. Committed - SumFunctionOnSet(charge, InFlight) <= upstream + unchecked
  BY <1>3 DEF CoverInv, KeysCovered
<1>18. SumFunctionOnSet(charge, InFlight \ {r}) \in Int
  BY SumType, QuotedFinite, FS_RemoveElement
<1>19. (Committed - SumFunctionOnSet(charge, InFlight))'
          = (Committed - charge[r]) - SumFunctionOnSet(charge, InFlight \ {r})
  BY <1>1, <1>4, <1>16
<1> QED
  BY <1>0, <1>1, <1>2, <1>5, <1>16, <1>17, <1>18, <1>19

\* A quote moves its amount on one key from what is available to what is held.
LEMMA CoverReserved ==
    ASSUME CreditInv, CoverInv, NEW r \in Requests, ReserveDual(r),
           UNCHANGED <<version, charge, upstream, settled>>
    PROVE  Committed' = Committed /\ (unchecked' = unchecked => KeysCovered')
<1> DEFINE k == KeyOf[r]
<1>0. TypeOK /\ k \in Keys /\ Amount[r] \in Nat /\ k \in AccountsFor(r)
  BY KeyOfType, AmountType DEF CreditInv, CreditTypeOK, AccountsFor
<1>1. \A j \in Keys : j # k => j \notin AccountsFor(r)
  BY <1>0, QuotaConstants DEF AccountsFor
<1>2. /\ r \notin HoldsOn(k) /\ Unsettled(r)' /\ heldOn'[r] = AccountsFor(r)
      /\ \A q \in Requests : q # r => Unsettled(q)' = Unsettled(q) /\ heldOn'[q] = heldOn[q]
  BY <1>0 DEF ReserveDual, HoldsOn, Unsettled, TypeOK
<1>3. HoldsOn(k)' = HoldsOn(k) \cup {r}
  BY <1>0, <1>2 DEF HoldsOn
<1>4. \A j \in Keys : j # k => HoldsOn(j)' = HoldsOn(j)
  <2>1. ASSUME NEW j \in Keys, j # k PROVE r \notin HoldsOn(j) /\ r \notin HoldsOn(j)'
    BY <1>1, <1>2, <2>1 DEF HoldsOn, ReserveDual, Unsettled
  <2> QED
    BY <1>2, <2>1 DEF HoldsOn
<1>5. Held(k)' = Held(k) + Amount[r] /\ Held(k) \in Int /\ \A j \in Keys : j # k => Held(j)' = Held(j)
  BY <1>2, <1>3, <1>4, HeldAdds, HeldSame, QuotedFinite
<1>6. /\ available'[k] = available[k] + -Amount[r] /\ available[k] \in Int
      /\ \A j \in Keys : j # k => available'[j] = available[j]
  BY <1>0, <1>1 DEF ReserveDual, Credited, Accounts, TypeOK
<1>7. \A j \in Keys : (available[j] + Held(j))' = available[j] + Held(j)
  BY <1>0, <1>5, <1>6
<1>8. \A j \in Keys : Exists(j)' = Exists(j)
  BY DEF Exists
<1> QED
  BY <1>7, <1>8, CoverSame

\* The parts of the invariant that a step which adds no grant needs.
LEMMA CoverShape ==
    ASSUME CoverInv, NEW q \in Requests,
           \A r \in Requests : r # q => reservation'[r] = reservation[r] /\ heldOn'[r] = heldOn[r]
                                        /\ settled'[r] = settled[r] /\ charge'[r] = charge[r],
           HeldOnItsKey(q)',
           \A k \in Keys : Exists(k)' = Exists(k),
           \A k \in Keys : NothingBeforeGrant(k)',
           KeysCovered'
    PROVE  CoverInv'
<1>1. IsFiniteSet(Quoted)'
  <2>1. Quoted' \subseteq Quoted \cup {q}
    BY DEF Quoted
  <2> QED
    BY <2>1, FS_AddElement, FS_Subset DEF CoverInv
<1>2. Granted' = Granted
  BY DEF Granted
<1>3. \A r \in Requests : HeldOnItsKey(r)'
  BY DEF CoverInv, HeldOnItsKey
<1> QED
  BY <1>1, <1>2, <1>3 DEF CoverInv

\* The steps that leave reservations, charges and the keys' balances alone.
LEMMA CoverIdle ==
    ASSUME CreditInv, CoverInv, UNCHANGED <<reservation, heldOn, settled, charge, upstream, unchecked>>,
           \A k \in Keys : version'[k] = version[k] /\ available'[k] = available[k]
    PROVE  CoverInv'
<1>1. \A k \in Keys : HoldsOn(k)' = HoldsOn(k) /\ Exists(k)' = Exists(k)
  BY DEF HoldsOn, Unsettled, Exists
<1>2. \A k \in Keys : (available[k] + Held(k))' = available[k] + Held(k)
  BY <1>1, HeldSame
<1>3. KeysCovered'
  BY <1>1, <1>2, CoverSame
<1>4. Quoted' = Quoted /\ Granted' = Granted
  BY <1>1 DEF Quoted, Granted
<1>5. \A k \in Keys : NothingBeforeGrant(k)'
  BY <1>1 DEF CoverInv, NothingBeforeGrant
<1>6. \A r \in Requests : HeldOnItsKey(r)'
  BY DEF CoverInv, HeldOnItsKey
<1> QED
  BY <1>3, <1>4, <1>5, <1>6 DEF CoverInv

LEMMA AllocateCover ==
    ASSUME CreditInv, CoverInv, NEW k \in Keys, NEW n \in Grants,
           AllocateFromUpstream(k, n) \/ GiveUnchecked(k, n)
    PROVE  CoverInv'
<1>0. Adjust(k, n)
  BY GivenByAdjust
<1>1. UNCHANGED <<reservation, heldOn, settled, charge>>
  BY <1>0, GivenByAdjust DEF Adjust, billVars, worldVars
<1>2. \A r \in Requests : HeldOnItsKey(r)'
  BY <1>1 DEF CoverInv, HeldOnItsKey
<1>3. \A j \in Keys : NothingBeforeGrant(j)'
  <2>1. /\ version'[k] = version[k] + 1 /\ version[k] \in Nat
        /\ \A j \in Keys : j # k => version'[j] = version[j] /\ available'[j] = available[j]
    BY <1>0 DEF Adjust, CreditInv, CreditTypeOK, TypeOK, Accounts
  <2>2. \A j \in Keys : HoldsOn(j)' = HoldsOn(j)
    BY <1>1 DEF HoldsOn, Unsettled
  <2> QED
    BY <2>1, <2>2 DEF CoverInv, NothingBeforeGrant, Exists
<1>4. IsFiniteSet(Quoted)'
  BY <1>1 DEF CoverInv, Quoted
<1> QED
  BY <1>2, <1>3, <1>4, CoverAllocated DEF CoverInv

LEMMA ReserveCover ==
    ASSUME CreditInv, CoverInv, NEW r \in Requests, NEW checked \in BOOLEAN, ReserveQuote(r, checked)
    PROVE  CoverInv'
<1>0. TypeOK /\ ReserveDual(r) /\ HeldOnItsKey(r) /\ Bill(r)
  BY DEF CreditInv, CreditTypeOK, ReserveQuote, CoverInv
<1>1. UNCHANGED <<version, charge, upstream, settled>>
  BY DEF ReserveQuote, adminVars, billVars, worldVars
<1>2. KeysCovered'
  <2>1. Committed' = Committed /\ (unchecked' = unchecked => KeysCovered')
    BY <1>0, <1>1, CoverReserved
  <2>2. CASE checked
    <3>1. Committed <= upstream /\ unchecked' = 0
      BY <2>2 DEF ReserveQuote
    <3>2. InFlight' = InFlight /\ upstream \in Nat /\ SumFunctionOnSet(charge, InFlight) \in Nat
      BY <1>1, QuotedFinite, SumNat DEF InFlight, CreditInv, CreditTypeOK
    <3>3. Committed \in Int
      BY CommittedType
    <3>4. Committed - SumFunctionOnSet(charge, InFlight) <= upstream + 0
      BY <3>1, <3>2, <3>3
    <3> QED
      BY <1>1, <2>1, <3>1, <3>2, <3>4 DEF KeysCovered
  <2>3. CASE ~checked
    BY <2>1, <2>3 DEF ReserveQuote
  <2> QED
    BY <2>2, <2>3
<1>3. /\ reservation'[r] = "held" /\ heldOn'[r] = AccountsFor(r)
      /\ \A q \in Requests : q # r => reservation'[q] = reservation[q] /\ heldOn'[q] = heldOn[q]
  BY <1>0 DEF ReserveDual, TypeOK
<1>4. HeldOnItsKey(r)'
  <2>1. AccountsFor(r) \cap Keys \subseteq {KeyOf[r]} /\ KeyOf[r] \in AccountsFor(r)
    BY QuotaConstants, KeyOfType DEF AccountsFor
  <2>2. settled[r] = NoAmount
    BY <1>0 DEF Bill, Unquoted, ReserveDual
  <2> QED
    BY <1>1, <1>3, <2>1, <2>2 DEF HeldOnItsKey
<1>5. \A k \in Keys : NothingBeforeGrant(k)'
  <2> SUFFICES ASSUME NEW k \in Keys, ~Exists(k) PROVE available'[k] = 0 /\ HoldsOn(k)' = {}
    BY <1>1 DEF NothingBeforeGrant, Exists
  <2>1. k \notin AccountsFor(r)
    BY <1>0 DEF ReserveDual, Ready
  <2>2. available'[k] = available[k]
    BY <1>0, <2>1 DEF ReserveDual, Credited, Accounts
  <2>3. HoldsOn(k)' \subseteq HoldsOn(k)
    BY <1>3, <2>1 DEF HoldsOn, Unsettled
  <2> QED
    BY <2>2, <2>3 DEF CoverInv, NothingBeforeGrant
<1> QED
  BY <1>1, <1>2, <1>3, <1>4, <1>5, CoverShape DEF Exists

LEMMA SettleCover ==
    ASSUME CreditInv, CreditInv', CoverInv, DebtIsBlocked', NEW r \in Requests, NEW p \in Payloads,
           charge[r] # NoAmount, SettleByReceipt(r, p)
    PROVE  CoverInv'
<1>0. TypeOK /\ CreditTypeOK /\ HeldOnItsKey(r) /\ KeysCovered'
  BY CoverSettled DEF CreditInv, CreditTypeOK, CoverInv
<1>1. UNCHANGED <<version, charge, upstream, heldOn>>
  BY DEF SettleByReceipt, adminVars, worldVars
<1>2. /\ reservation'[r] = "committed"
      /\ \A q \in Requests : q # r => reservation'[q] = reservation[q] /\ settled'[q] = settled[q]
  BY <1>0 DEF SettleByReceipt, TypeOK, CreditTypeOK
<1>3. HeldOnItsKey(r)'
  BY <1>0, <1>1, <1>2 DEF HeldOnItsKey, SettleByReceipt, Unsettled
<1>4. \A k \in Keys : NothingBeforeGrant(k)'
  <2> SUFFICES ASSUME NEW k \in Keys, ~Exists(k) PROVE available'[k] = 0 /\ HoldsOn(k)' = {}
    BY <1>1 DEF NothingBeforeGrant, Exists
  <2>1. HoldsOn(k) = {} /\ available[k] = 0
    BY DEF CoverInv, NothingBeforeGrant
  <2>2. k \notin heldOn[r]
    BY <2>1 DEF HoldsOn, SettleByReceipt
  <2>3. available'[k] = available[k]
    BY <2>2 DEF SettleByReceipt, Credited, Accounts
  <2>4. HoldsOn(k)' \subseteq HoldsOn(k)
    BY <1>1, <1>2 DEF HoldsOn, Unsettled
  <2> QED
    BY <2>1, <2>3, <2>4
<1> QED
  BY <1>0, <1>1, <1>2, <1>3, <1>4, CoverShape DEF Exists

\* A receipt that is not final keeps the hold.
LEMMA OpenCover ==
    ASSUME CreditInv, CoverInv, NEW r \in Requests, NEW p \in Payloads,
           reservation[r] # "none", OpenReceipt(r, p)
    PROVE  CoverInv'
<1>0. TypeOK /\ HeldOnItsKey(r)
  BY DEF CreditInv, CreditTypeOK, CoverInv
<1>1. UNCHANGED <<version, available, charge, upstream, unchecked, settled, heldOn>>
  BY DEF OpenReceipt, adminVars, worldVars
<1>2. /\ reservation'[r] # "none" /\ Unsettled(r)' = Unsettled(r)
      /\ \A q \in Requests : q # r => reservation'[q] = reservation[q]
  BY <1>0 DEF OpenReceipt, TypeOK, Unsettled
<1>3. \A k \in Keys : HoldsOn(k)' = HoldsOn(k) /\ Exists(k)' = Exists(k)
  BY <1>1, <1>2 DEF HoldsOn, Unsettled, Exists
<1>4. \A k \in Keys : (available[k] + Held(k))' = available[k] + Held(k)
  BY <1>1, <1>3, HeldSame
<1>5. KeysCovered'
  BY <1>1, <1>3, <1>4, CoverSame
<1>6. HeldOnItsKey(r)' /\ \A k \in Keys : NothingBeforeGrant(k)'
  BY <1>0, <1>1, <1>2, <1>3 DEF HeldOnItsKey, CoverInv, NothingBeforeGrant
<1> QED
  BY <1>1, <1>2, <1>3, <1>5, <1>6, CoverShape

LEMMA CoverStep ==
    CreditInv /\ CreditInv' /\ DebtIsBlocked' /\ CoverInv /\ [CreditNext]_creditVars => CoverInv'
<1> SUFFICES ASSUME CreditInv, CreditInv', DebtIsBlocked', CoverInv, [CreditNext]_creditVars
             PROVE  CoverInv'
  OBVIOUS
<1>1. ASSUME NEW k \in Keys, NEW n \in Grants, AllocateFromUpstream(k, n) \/ GiveUnchecked(k, n)
      PROVE  CoverInv'
  BY <1>1, AllocateCover
<1>2. ASSUME NEW r \in Requests, Begin(r) PROVE CoverInv'
  BY <1>2, CoverIdle DEF Begin, adminVars, billVars, worldVars
<1>3. ASSUME NEW r \in Requests, NEW checked \in BOOLEAN, ReserveQuote(r, checked) PROVE CoverInv'
  BY <1>3, ReserveCover
<1>4. ASSUME NEW r \in Requests, NEW c \in Charges, UpstreamCharges(r, c) PROVE CoverInv'
  <2>1. UNCHANGED <<version, available, reservation, heldOn, settled>>
    BY <1>4 DEF UpstreamCharges, quotaVars, adminVars, holdVars, billVars
  <2>2. reservation[r] # "none" /\ \A q \in Requests : q # r => charge'[q] = charge[q]
    BY <1>4 DEF UpstreamCharges, CreditInv, CreditTypeOK
  <2>3. charge'[r] # NoAmount
    BY <1>4, CreditConstants DEF UpstreamCharges, CreditInv, CreditTypeOK, NoAmount
  <2>4. HeldOnItsKey(r)'
    BY <2>1, <2>2, <2>3 DEF CoverInv, HeldOnItsKey
  <2>5. \A k \in Keys : NothingBeforeGrant(k)' /\ Exists(k)' = Exists(k)
    BY <2>1 DEF CoverInv, NothingBeforeGrant, HoldsOn, Unsettled, Exists
  <2> QED
    BY <1>4, <2>1, <2>2, <2>4, <2>5, CoverCharged, CoverShape
<1>5. ASSUME NEW r \in Requests, NEW p \in Payloads, ApplyReceipt(r, p) PROVE CoverInv'
  <2>1. CASE OpenReceipt(r, p)
    BY <1>5, <2>1, OpenCover DEF ApplyReceipt
  <2>2. CASE SettleByReceipt(r, p)
    <3>1. charge[r] # NoAmount
      BY <1>5, <2>2 DEF ApplyReceipt, SettleByReceipt
    <3> QED
      BY <2>2, <3>1, SettleCover
  <2>3. CASE AgreeingFinal(r, p) \/ ContradictingFinal(r, p)
    BY <2>3, CoverIdle
    DEF AgreeingFinal, ContradictingFinal, quotaVars, adminVars, holdVars, worldVars
  <2> QED
    BY <1>5, <2>1, <2>2, <2>3 DEF ApplyReceipt
<1>6. ASSUME NEW u \in Users, NEW n \in Grants, GrantPool(u, n), UNCHANGED <<billVars, worldVars, unchecked>>
      PROVE  CoverInv'
  <2>1. \A k \in Keys : version'[k] = version[k] /\ available'[k] = available[k]
    BY <1>6, QuotaConstants DEF GrantPool, Adjust, CreditInv, CreditTypeOK, TypeOK, Accounts
  <2> QED
    BY <1>6, <2>1, CoverIdle DEF GrantPool, Adjust, billVars, worldVars
<1>7. CASE ReconcileEventGroups /\ UNCHANGED <<billVars, worldVars, unchecked>>
  BY <1>7, CoverIdle DEF ReconcileEventGroups, holdVars, billVars, worldVars
<1>8. CASE UNCHANGED creditVars
  BY <1>8, CoverIdle DEF creditVars, quotaVars, adminVars, holdVars, billVars, worldVars
<1> QED
  BY <1>1, <1>2, <1>3, <1>4, <1>5, <1>6, <1>7, <1>8 DEF CreditNext, LedgerUpkeep

LEMMA CoverInit == CreditInit => CoverInv
<1> SUFFICES ASSUME CreditInit PROVE CoverInv
  OBVIOUS
<1>1. Quoted = {} /\ InFlight = {} /\ \A k \in Keys : HoldsOn(k) = {}
  BY DEF CreditInit, Init, Quoted, InFlight, HoldsOn, Unsettled
<1>2. Granted = {}
  BY DEF CreditInit, Init, Granted, Exists, Accounts
<1>3. Committed = 0 /\ SumFunctionOnSet(charge, InFlight) = 0
  BY <1>1, <1>2, SumEmpty DEF Committed
<1>4. KeysCovered
  BY <1>3, CreditConstants DEF KeysCovered, CreditInit
<1>5. \A r \in Requests : HeldOnItsKey(r)
  BY DEF CreditInit, Init, HeldOnItsKey
<1>6. \A k \in Keys : NothingBeforeGrant(k)
  BY <1>1 DEF CreditInit, Init, NothingBeforeGrant, Accounts
<1> QED
  BY <1>1, <1>2, <1>4, <1>5, <1>6, FS_EmptySet DEF CoverInv

\* However grants, allocations, quotes, charges and late receipts interleave, what
\* the keys are promised exceeds what AI Work has left by no more than was given
\* to keys since the last check that passed, as long as it charges no more than
\* quoted and reports what it charged.
THEOREM CreditsCoverKeys == CreditSpec => []KeysCovered
<1>1. CreditInv /\ CreditInv' /\ DebtIsBlocked' /\ CoverInv /\ [CreditNext]_creditVars => CoverInv'
  BY CoverStep
<1>2. CoverInv => KeysCovered
  BY DEF CoverInv
<1> QED
  BY <1>1, <1>2, CoverInit, CreditInvariant, DebtAlwaysBlocked, PTL DEF CreditSpec

-----------------------------------------------------------------------------
(* Part 2: RouterVideo. The proofs rest on one invariant: what a handler has  *)
(* done so far, and what a row of the table, however old the copy, says of the *)
(* request's hold and of the task it was given.                               *)

-----------------------------------------------------------------------------
(* The inductive invariant.                                                  *)

\* How far a request's handler has come, and what it may have been given.
HandlerOK(r) ==
    /\ submitted[r] \in {0, 1}
    /\ pc[r] \in Handling \cup Persisting
    /\ pc[r] \in {"idle", "reserved"} => submitted[r] = 0 /\ got[r] = NoRequest
    /\ pc[r] \in {"reserved", "accepted", "unclear"} => reservation[r] = "held"
    /\ reservation[r] = "none" => pc[r] = "idle"
    /\ pc[r] \in {"charge", "doubt"} => ~IsVideo(r)
    /\ pc[r] \in {"accepted", "unclear"} => IsVideo(r)
    /\ pc[r] = "accepted" => got[r] # NoRequest
    /\ pc[r] = "release" => got[r] = NoRequest
    /\ got[r] # NoRequest =>
         IsVideo(r) /\ reservation[r] = "held" /\ task[got[r]] # "none"
    /\ IsVideo(r) => reservation[r] \in {"none", "held", "released"}

\* A poller asks about a job that is in the table as long as nobody starts anew.
PollerOK(p) ==
    /\ pc[p] \in {"idle"} \cup Polling \cup Persisting
    /\ pc[p] \in Polling => target[p] \in JobId /\ jobs[target[p]] # NoJob

\* A row belongs to a request whose handler is past every settlement.
RowOK(id, job) ==
    job # NoJob =>
        /\ job.request \in Requests /\ IsVideo(job.request)
        /\ reservation[job.request] = "held"
        /\ pc[job.request] \in Persisting \cup {"done"}
        /\ id.form = "unknown" => id.of = job.request /\ job.reconcile
        /\ id.form # "unknown" => got[job.request] = id.of /\ task[id.of] # "none"

TableOK(table) == \A id \in JobId : RowOK(id, table[id])

TablesOK == TableOK(jobs) /\ TableOK(file.jobs) /\ \A x \in Actors : TableOK(snapshot[x])

RouterInv ==
    /\ RouterTypeOK
    /\ \A r \in Requests : HandlerOK(r)
    /\ \A p \in Pollers : PollerOK(p)
    /\ TablesOK

-----------------------------------------------------------------------------
(* Every step of the router is a step of CoreQuota, or leaves it alone.      *)

LEMMA ActorsDisjoint == Actors = Requests \cup Pollers /\ Pollers \cap Requests = {}
BY RouterConstants DEF Actors

LEMMA HandlerCallType ==
    ASSUME NEW r \in Requests
    PROVE  /\ <<[kind |-> "release", units |-> 0], "failed">> \in SettleCalls(r)
           /\ <<[kind |-> "commit", units |-> Amount[r]], "succeeded">> \in SettleCalls(r)
           /\ <<[kind |-> "unknown", units |-> 0], "unknown">> \in SettleCalls(r)
BY AmountType DEF SettleCalls, Settlement

LEMMA CallIsRequestStep ==
    ASSUME NEW r \in Requests, NEW s, NEW final, <<s, final>> \in SettleCalls(r),
           SettleRequest(r, s, final)
    PROVE  Next
<1> DEFINE c == <<s, final>>
<1>1. c \in SettleCalls(r) /\ SettleRequest(r, c[1], c[2])
  OBVIOUS
<1>2. QED
  BY <1>1 DEF Next, RequestNext

\* The steps that touch the ledger.
LedgerStep ==
    \/ \E r \in Requests : Admit(r) \/ HandlerSettles(r)
    \/ RouterAdmin

LEMMA OtherSteps == [RouterNext]_allVars => LedgerStep \/ UNCHANGED quotaVars
BY DEF RouterNext, HandlerNext, PollerNext, PersistNext, LedgerStep, allVars,
       RefuseInput, ForwardVideo, ForwardChat, Forwarded, InsertJob, PollFails, PollAnswers,
       Mark, Hold, Changed, BeginWrite, EndWrite, SkipWrite, Restart, TaskEnds

LEMMA StepIsQuota == [RouterNext]_allVars => [Next]_quotaVars
<1>1. ASSUME NEW r \in Requests, Admit(r) PROVE Next
  BY <1>1 DEF Admit, Next, RequestNext
<1>2. ASSUME NEW r \in Requests, HandlerSettles(r) PROVE Next \/ UNCHANGED quotaVars
  BY <1>2, HandlerCallType, CallIsRequestStep DEF HandlerSettles
<1>3. ASSUME RouterAdmin PROVE Next
  BY <1>3 DEF RouterAdmin, Next, AdminNext
<1>4. QED
  BY <1>1, <1>2, <1>3, OtherSteps DEF LedgerStep

-----------------------------------------------------------------------------
(* What a step does to the request of one handler.                           *)

\* The step relation, by whose step it is.
LEMMA WhoseStep ==
    [RouterNext]_allVars =>
        \/ HandlerNext \/ PollerNext \/ PersistNext \/ Restart
        \/ \/ \E t \in Requests : TaskEnds(t)
           \/ RouterAdmin \/ UNCHANGED allVars
BY DEF RouterNext

OwnStep(r) ==
    \/ Admit(r) \/ RefuseInput(r) \/ ForwardVideo(r) \/ ForwardChat(r)
    \/ HandlerSettles(r) \/ InsertJob(r)

LEMMA KindStays == [RouterNext]_allVars => kind' = kind
BY DEF RouterNext, HandlerNext, PollerNext, PersistNext, allVars, routerVars,
       Admit, RefuseInput, ForwardVideo, ForwardChat, Forwarded, HandlerSettles, InsertJob,
       PollFails, PollAnswers, Mark, Hold, Changed, BeginWrite, EndWrite, SkipWrite,
       Restart, TaskEnds, RouterAdmin

\* A task the gateway gives a request is made by it or was there before.
LEMMA GivenIs ==
    ASSUME RouterTypeOK, NEW r \in Requests, Given(r)
    PROVE  \E t \in Requests :
              /\ got' = [got EXCEPT ![r] = t]
              /\ task' = task \/ task' = [task EXCEPT ![r] = "running"]
              /\ task'[t] # "none"
<1>1. PICK t \in {r} \cup {q \in Requests : task[q] # "none" /\ ClientKey[q] = ClientKey[r]} :
         /\ got' = [got EXCEPT ![r] = t]
         /\ task' = IF t = r THEN [task EXCEPT ![r] = "running"] ELSE task
  BY DEF Given
<1>2. task \in [Requests -> TaskState]
  BY DEF RouterTypeOK
<1>3. CASE t = r
  BY <1>1, <1>2, <1>3
<1>4. CASE t # r
  BY <1>1, <1>2, <1>4
<1>5. QED
  BY <1>3, <1>4

\* Only a video that is forwarded is given a task.
BridgeCase ==
    \/ UNCHANGED <<task, got>>
    \/ got' = got /\ \E t \in Requests : task' = [task EXCEPT ![t] = "ended"]
    \/ \E r \in Requests : ForwardVideo(r) /\ Given(r)

LEMMA BridgeCases == [RouterNext]_allVars => BridgeCase
<1> SUFFICES ASSUME [RouterNext]_allVars PROVE BridgeCase
  OBVIOUS
<1>1. ASSUME NEW r \in Requests, ForwardVideo(r) \/ ForwardChat(r) PROVE BridgeCase
  BY <1>1 DEF ForwardVideo, ForwardChat, BridgeCase
<1>2. ASSUME NEW t \in Requests, TaskEnds(t) PROVE BridgeCase
  BY <1>2 DEF TaskEnds, BridgeCase
<1>3. \/ UNCHANGED <<task, got>>
      \/ \E r \in Requests : ForwardVideo(r) \/ ForwardChat(r) \/ TaskEnds(r)
  BY DEF RouterNext, HandlerNext, PollerNext, PersistNext, allVars, routerVars, bridgeVars,
         Admit, RefuseInput, HandlerSettles, InsertJob, PollFails, PollAnswers,
         Mark, Hold, Changed, BeginWrite, EndWrite, SkipWrite, Restart, RouterAdmin
<1>4. QED
  BY <1>1, <1>2, <1>3 DEF BridgeCase

\* The ledger's state of a request changes by its own handler only.
LEMMA OthersKeepReservation ==
    ASSUME RouterTypeOK, [RouterNext]_allVars, NEW r \in Requests, ~OwnStep(r)
    PROVE  reservation'[r] = reservation[r]
<1>0. reservation \in [Requests -> ReservationState \cup {"none"}]
  BY DEF RouterTypeOK, TypeOK
<1>1. ASSUME NEW q \in Requests, q # r, Admit(q) PROVE reservation'[r] = reservation[r]
  BY <1>0, <1>1 DEF Admit, PreflightReserve, ReserveDual
<1>2. ASSUME NEW q \in Requests, q # r, HandlerSettles(q) PROVE reservation'[r] = reservation[r]
  <2>1. UNCHANGED quotaVars \/ \E s, final : SettleRequest(q, s, final)
    BY <1>2 DEF HandlerSettles
  <2>2. UNCHANGED reservation \/ \E t : reservation' = [reservation EXCEPT ![q] = t]
    BY <2>1 DEF SettleRequest, ApplySettlement, quotaVars, holdVars
  <2>3. QED
    BY <1>0, <1>2, <2>2
<1>3. ASSUME RouterAdmin PROVE UNCHANGED reservation
  BY <1>3 DEF RouterAdmin, GrantPool, AllocateFromPool, Adjust
<1>4. ASSUME UNCHANGED quotaVars PROVE UNCHANGED reservation
  BY <1>4 DEF quotaVars, holdVars
<1>5. QED
  BY <1>1, <1>2, <1>3, <1>4, OtherSteps DEF LedgerStep, OwnStep

LEMMA OthersKeepBridge ==
    ASSUME RouterTypeOK, [RouterNext]_allVars, NEW r \in Requests, ~OwnStep(r)
    PROVE  submitted'[r] = submitted[r] /\ got'[r] = got[r]
<1>0. /\ submitted \in [Requests -> Nat]
      /\ got \in [Requests -> Requests \cup {NoRequest}]
  BY DEF RouterTypeOK
<1>1. UNCHANGED submitted \/ \E q \in Requests : q # r /\ (ForwardVideo(q) \/ ForwardChat(q))
  BY DEF OwnStep, RouterNext, HandlerNext, PollerNext, PersistNext, allVars, routerVars,
         bridgeVars, Admit, RefuseInput, HandlerSettles, InsertJob, PollFails, PollAnswers,
         Mark, Hold, Changed, BeginWrite, EndWrite, SkipWrite, Restart, TaskEnds, RouterAdmin
<1>2. ASSUME NEW q \in Requests, q # r, ForwardVideo(q) \/ ForwardChat(q)
      PROVE  submitted'[r] = submitted[r]
  <2>1. submitted' = [submitted EXCEPT ![q] = @ + 1]
    BY <1>2 DEF ForwardVideo, ForwardChat, Forwarded
  <2>2. QED
    BY <1>0, <1>2, <2>1
<1>3. UNCHANGED got \/ \E q \in Requests : q # r /\ Given(q)
  BY BridgeCases DEF BridgeCase, OwnStep
<1>4. ASSUME NEW q \in Requests, q # r, Given(q) PROVE got'[r] = got[r]
  BY <1>0, <1>4, GivenIs
<1>5. QED
  BY <1>1, <1>2, <1>3, <1>4

\* A step of another actor leaves a handler where it is, but for what a second
\* writer does to one that writes, and for a crash.
LEMMA OthersKeepPc ==
    ASSUME RouterTypeOK, [RouterNext]_allVars, NEW r \in Requests, ~OwnStep(r)
    PROVE  \/ pc'[r] = pc[r]
           \/ pc[r] \in Persisting /\ pc'[r] \in {"writing", "mixing", "done"}
           \/ pc'[r] = "done" /\ pc[r] # "idle"
<1> DEFINE Fine == \/ pc'[r] = pc[r]
                   \/ pc[r] \in Persisting /\ pc'[r] \in {"writing", "mixing", "done"}
                   \/ pc'[r] = "done" /\ pc[r] # "idle"
<1>0. /\ pc \in [Actors -> Handling \cup Polling \cup Persisting]
      /\ r \in Actors /\ \A p \in Pollers : p # r /\ p \in Actors
  BY ActorsDisjoint DEF RouterTypeOK
<1>1. ASSUME NEW x \in Actors, NEW step, x # r, Goto(x, step) PROVE pc'[r] = pc[r]
  BY <1>0, <1>1 DEF Goto
<1>2. ASSUME HandlerNext PROVE Fine
  <2>1. \E q \in Requests : q # r /\ \E step : Goto(q, step)
    BY <1>2 DEF OwnStep, HandlerNext, Admit, RefuseInput, ForwardVideo, ForwardChat,
       HandlerSettles, InsertJob
  <2>2. QED
    BY <1>1, <2>1 DEF Actors
<1>3. ASSUME PollerNext PROVE Fine
  <2>1. \E p \in Pollers : \E step : Goto(p, step)
    BY <1>3 DEF PollerNext, PollFails, PollAnswers, Mark, Hold, Changed
  <2>2. QED
    BY <1>0, <1>1, <2>1
<1>4. ASSUME NEW x \in Actors, EndWrite(x) \/ SkipWrite(x) PROVE Fine
  <2>1. pc[x] \in Persisting /\ Goto(x, Rest(x))
    BY <1>4 DEF EndWrite, SkipWrite, Persisting
  <2>2. CASE x = r
    BY <1>0, <2>1, <2>2 DEF Goto, Rest
  <2>3. QED
    BY <1>1, <2>1, <2>2
<1>5. ASSUME NEW x \in Actors, BeginWrite(x) PROVE Fine
  BY <1>0, <1>5 DEF BeginWrite, Persisting
<1>6. ASSUME Restart PROVE Fine
  BY <1>0, <1>6 DEF Restart, Rest
<1>7. ASSUME \/ \E t \in Requests : TaskEnds(t)
             \/ RouterAdmin \/ UNCHANGED allVars
      PROVE  pc'[r] = pc[r]
  BY <1>7 DEF TaskEnds, RouterAdmin, allVars, routerVars
<1>8. ASSUME PersistNext PROVE Fine
  BY <1>4, <1>5, <1>8 DEF PersistNext
<1> HIDE DEF Fine
<1>9. ASSUME pc'[r] = pc[r] PROVE Fine
  BY <1>9 DEF Fine
<1>10. Fine
  BY <1>2, <1>3, <1>6, <1>7, <1>8, <1>9, WhoseStep
<1>11. QED
  BY <1>10 DEF Fine

-----------------------------------------------------------------------------
(* The handlers.                                                             *)

LEMMA TasksStay ==
    ASSUME RouterTypeOK, [RouterNext]_allVars, NEW t \in Requests, task[t] # "none"
    PROVE  task'[t] # "none"
<1>0. task \in [Requests -> TaskState]
  BY DEF RouterTypeOK
<1>1. ASSUME NEW r \in Requests, Given(r) PROVE task'[t] # "none"
  BY <1>0, <1>1, GivenIs
<1>2. QED
  BY <1>0, <1>1, BridgeCases DEF BridgeCase

LEMMA OwnStepKeepsHandler ==
    ASSUME RouterInv, [RouterNext]_allVars, NEW r \in Requests, OwnStep(r)
    PROVE  HandlerOK(r)'
<1>0. /\ HandlerOK(r) /\ RouterTypeOK
      /\ pc \in [Actors -> Handling \cup Polling \cup Persisting]
      /\ submitted \in [Requests -> Nat]
      /\ task \in [Requests -> TaskState]
      /\ got \in [Requests -> Requests \cup {NoRequest}]
      /\ reservation \in [Requests -> ReservationState \cup {"none"}]
      /\ r \in Actors /\ IsVideo(r)' = IsVideo(r)
      /\ NoRequest \notin Requests
  BY KindStays, ActorsDisjoint, RouterConstants DEF RouterInv, RouterTypeOK, TypeOK, IsVideo
<1>1. CASE Admit(r)
  <2>1. pc[r] = "idle" /\ pc'[r] = "reserved" /\ UNCHANGED <<task, got, submitted>>
    BY <1>0, <1>1 DEF Admit, Goto, bridgeVars
  <2>2. reservation'[r] = "held"
    BY <1>0, <1>1 DEF Admit, PreflightReserve, ReserveDual
  <2>3. QED
    BY <1>0, <2>1, <2>2 DEF HandlerOK, Handling
<1>2. CASE RefuseInput(r)
  <2>1. /\ pc[r] = "reserved" /\ pc'[r] = "release"
        /\ UNCHANGED <<task, got, submitted, reservation>>
    BY <1>0, <1>2 DEF RefuseInput, Goto, bridgeVars, quotaVars, holdVars
  <2>2. QED
    BY <1>0, <2>1 DEF HandlerOK, Handling
<1>3. CASE ForwardVideo(r)
  <2>1. pc[r] = "reserved" /\ got[r] = NoRequest /\ submitted[r] = 0 /\ reservation[r] = "held"
        /\ IsVideo(r)
    BY <1>0, <1>3 DEF ForwardVideo, HandlerOK
  <2>2. submitted'[r] = 1 /\ reservation'[r] = "held"
    BY <1>0, <1>3, <2>1 DEF ForwardVideo, Forwarded, quotaVars, holdVars
  <2>3. CASE Given(r) /\ pc'[r] \in {"accepted", "unclear"}
    <3>1. got'[r] \in Requests /\ task'[got'[r]] # "none"
      BY <1>0, <2>3, GivenIs
    <3>2. QED
      BY <1>0, <2>1, <2>2, <2>3, <3>1 DEF HandlerOK, Handling
  <2>4. CASE UNCHANGED <<task, got>> /\ pc'[r] \in {"release", "unclear"}
    BY <1>0, <2>1, <2>2, <2>4 DEF HandlerOK, Handling
  <2>5. \/ Given(r) /\ pc'[r] \in {"accepted", "unclear"}
        \/ UNCHANGED <<task, got>> /\ pc'[r] \in {"release", "unclear"}
    BY <1>0, <1>3 DEF ForwardVideo, Goto
  <2>6. QED
    BY <2>3, <2>4, <2>5
<1>4. CASE ForwardChat(r)
  <2>1. pc[r] = "reserved" /\ got[r] = NoRequest /\ submitted[r] = 0 /\ reservation[r] = "held"
        /\ ~IsVideo(r)
    BY <1>0, <1>4 DEF ForwardChat, HandlerOK
  <2>2. pc'[r] \in {"charge", "release", "doubt"} /\ UNCHANGED <<task, got>>
    BY <1>0, <1>4, <2>1 DEF ForwardChat, Goto
  <2>3. submitted'[r] = 1 /\ reservation'[r] = "held"
    BY <1>0, <1>4, <2>1 DEF ForwardChat, Forwarded, quotaVars, holdVars
  <2>4. QED
    BY <1>0, <2>1, <2>2, <2>3 DEF HandlerOK, Handling
<1>5. CASE HandlerSettles(r)
  <2>1. pc[r] \in {"release", "charge", "doubt"} /\ pc'[r] = "done"
        /\ UNCHANGED <<task, got, submitted>>
    BY <1>0, <1>5 DEF HandlerSettles, Goto, bridgeVars
  <2>2. \/ reservation'[r] = reservation[r]
        \/ reservation'[r] = "released"
        \/ ~IsVideo(r) /\ reservation'[r] \in {"committed", "unknown"}
    <3>1. CASE UNCHANGED quotaVars
      BY <3>1 DEF quotaVars, holdVars
    <3>2. CASE pc[r] = "release" /\ SettleRequest(r, [kind |-> "release", units |-> 0], "failed")
      BY <1>0, <3>2 DEF SettleRequest, ApplySettlement
    <3>3. CASE pc[r] = "charge" /\ SettleRequest(r, [kind |-> "commit", units |-> Amount[r]], "succeeded")
      BY <1>0, <3>3 DEF SettleRequest, ApplySettlement, HandlerOK
    <3>4. CASE pc[r] = "doubt" /\ SettleRequest(r, [kind |-> "unknown", units |-> 0], "unknown")
      BY <1>0, <3>4 DEF SettleRequest, ApplySettlement, HandlerOK
    <3>5. QED
      BY <1>5, <3>1, <3>2, <3>3, <3>4 DEF HandlerSettles
  <2>3. got[r] = NoRequest /\ reservation[r] # "none"
    BY <1>0, <2>1 DEF HandlerOK
  <2>4. QED
    BY <1>0, <2>1, <2>2, <2>3 DEF HandlerOK, Handling
<1>6. CASE InsertJob(r)
  <2>1. pc[r] \in {"accepted", "unclear"} /\ pc'[r] = "persist"
        /\ UNCHANGED <<task, got, submitted, reservation>>
    BY <1>0, <1>6 DEF InsertJob, Goto, bridgeVars, quotaVars, holdVars
  <2>2. QED
    BY <1>0, <2>1 DEF HandlerOK, Handling, Persisting
<1>7. QED
  BY <1>1, <1>2, <1>3, <1>4, <1>5, <1>6 DEF OwnStep

LEMMA StepHandler ==
    ASSUME RouterInv, [RouterNext]_allVars, NEW r \in Requests
    PROVE  HandlerOK(r)'
<1>0. HandlerOK(r) /\ RouterTypeOK /\ IsVideo(r)' = IsVideo(r)
  BY KindStays DEF RouterInv, IsVideo
<1>1. CASE OwnStep(r)
  BY <1>1, OwnStepKeepsHandler
<1>2. CASE ~OwnStep(r)
  <2>1. \/ pc'[r] = pc[r]
        \/ pc[r] \in Persisting /\ pc'[r] \in {"writing", "mixing", "done"}
        \/ pc'[r] = "done" /\ pc[r] # "idle"
    BY <1>0, <1>2, OthersKeepPc
  <2>2. submitted'[r] = submitted[r] /\ got'[r] = got[r] /\ reservation'[r] = reservation[r]
    BY <1>0, <1>2, OthersKeepBridge, OthersKeepReservation
  <2>3. got[r] # NoRequest => task[got[r]] # "none" /\ task'[got[r]] # "none"
    <3>1. got[r] \in Requests \cup {NoRequest}
      BY <1>0 DEF RouterTypeOK
    <3>2. QED
      BY <1>0, <3>1, TasksStay DEF HandlerOK
  <2>4. CASE pc'[r] = pc[r]
    BY <1>0, <2>2, <2>3, <2>4 DEF HandlerOK
  <2>5. CASE pc'[r] \in {"writing", "mixing", "done"} /\ pc[r] # "idle"
    BY <1>0, <2>2, <2>3, <2>5 DEF HandlerOK, Handling, Persisting
  <2>6. QED
    BY <2>1, <2>4, <2>5 DEF Persisting
<1>3. QED
  BY <1>1, <1>2

\* What every row rests on stays, once a handler is past its settlement.
Progress ==
    /\ kind' = kind
    /\ \A r \in Requests :
         /\ task[r] # "none" => task'[r] # "none"
         /\ pc[r] \in Persisting \cup {"done"} =>
              /\ pc'[r] \in Persisting \cup {"done"}
              /\ got'[r] = got[r]
              /\ reservation'[r] = reservation[r]

LEMMA StepProgress ==
    ASSUME RouterInv, [RouterNext]_allVars
    PROVE  Progress
<1>0. RouterTypeOK
  BY DEF RouterInv
<1>1. ASSUME NEW r \in Requests, pc[r] \in Persisting \cup {"done"}
      PROVE  /\ pc'[r] \in Persisting \cup {"done"}
             /\ got'[r] = got[r] /\ reservation'[r] = reservation[r]
  <2>1. ~OwnStep(r)
    BY <1>1 DEF OwnStep, Admit, RefuseInput, ForwardVideo, ForwardChat, HandlerSettles,
       InsertJob, Persisting
  <2>2. QED
    BY <1>0, <1>1, <2>1, OthersKeepPc, OthersKeepBridge, OthersKeepReservation DEF Persisting
<1>2. QED
  BY <1>0, <1>1, KindStays, TasksStay DEF Progress

-----------------------------------------------------------------------------
(* The table and its copies.                                                 *)

LEMMA JobIs ==
    /\ \A job \in Job : job.request \in Requests /\ job # NoJob
    /\ \A r \in Requests, b \in BOOLEAN :
         [request |-> r, reconcile |-> b] \in Job /\ [request |-> r, reconcile |-> b] # NoJob
<1>1. ASSUME NEW job \in Job PROVE job.request \in Requests /\ job # NoJob
  <2>1. job.request \in Requests
    BY DEF Job
  <2>2. NoJob.request \notin Requests
    BY RouterConstants DEF NoJob
  <2>3. QED
    BY <2>1, <2>2
<1>2. ASSUME NEW r \in Requests, NEW b \in BOOLEAN
      PROVE  [request |-> r, reconcile |-> b] \in Job
  BY DEF Job
<1>3. QED
  BY <1>1, <1>2

\* What a step that is no start makes of one row.
RowCase(id) ==
    \/ jobs'[id] = jobs[id]
    \/ /\ jobs[id] \in Job /\ jobs'[id] \in Job
       /\ jobs'[id].request = jobs[id].request /\ jobs'[id].reconcile
    \/ \E r \in Requests :
         /\ InsertJob(r) /\ id = IdFor(r)
         /\ jobs'[id] = [request |-> r, reconcile |-> pc[r] = "unclear"]

LEMMA RowCases ==
    ASSUME RouterInv, [RouterNext]_allVars
    PROVE  \/ Restart
           \/ /\ jobs' \in Table
              /\ \A id \in JobId : RowCase(id)
<1> DEFINE Fine == jobs' \in Table /\ \A id \in JobId : RowCase(id)
<1>0. jobs \in Table
  BY DEF RouterInv, RouterTypeOK
<1>1. ASSUME UNCHANGED jobs PROVE Fine
  BY <1>0, <1>1 DEF RowCase
<1>2. ASSUME NEW r \in Requests, InsertJob(r) PROVE Fine
  <2> DEFINE job == [request |-> r, reconcile |-> pc[r] = "unclear"]
  <2>1. jobs' = [jobs EXCEPT ![IdFor(r)] = job]
    BY <1>2 DEF InsertJob
  <2>2. job \in Job
    BY DEF Job
  <2>3. jobs' \in Table
    BY <1>0, <2>1, <2>2 DEF Table
  <2>4. ASSUME NEW id \in JobId PROVE RowCase(id)
    <3>1. CASE id = IdFor(r)
      BY <1>0, <1>2, <2>1, <3>1 DEF RowCase, Table
    <3>2. CASE id # IdFor(r)
      BY <1>0, <2>1, <3>2 DEF RowCase, Table
    <3>3. QED
      BY <3>1, <3>2
  <2>5. QED
    BY <2>3, <2>4
<1>3. ASSUME NEW p \in Pollers, Mark(p) PROVE Fine
  <2> DEFINE q == target[p]
  <2>1. q \in JobId /\ jobs[q] # NoJob
    BY <1>3 DEF RouterInv, PollerOK, Mark, Polling
  <2>2. jobs[q] \in Job
    BY <1>0, <2>1 DEF Table
  <2> DEFINE marked == [jobs[q] EXCEPT !.reconcile = TRUE]
  <2>3. marked \in Job /\ marked.request = jobs[q].request /\ marked.reconcile
    BY <2>2 DEF Job
  <2>4. jobs' = [jobs EXCEPT ![q] = marked]
    <3>1. jobs' = [jobs EXCEPT ![q].reconcile = TRUE]
      BY <1>3 DEF Mark
    <3>2. QED
      BY <1>0, <2>1, <3>1 DEF Table
  <2> HIDE DEF marked
  <2>5. jobs' \in Table
    BY <1>0, <2>3, <2>4 DEF Table
  <2>6. ASSUME NEW id \in JobId PROVE RowCase(id)
    <3>1. CASE id = q
      <4>1. jobs'[id] = marked
        BY <1>0, <2>1, <2>4, <3>1 DEF Table
      <4>2. QED
        BY <2>2, <2>3, <3>1, <4>1 DEF RowCase
    <3>2. CASE id # q
      BY <1>0, <2>4, <3>2 DEF RowCase, Table
    <3>3. QED
      BY <3>1, <3>2
  <2>7. QED
    BY <2>5, <2>6
<1> HIDE DEF Fine
<1>4. ASSUME HandlerNext PROVE UNCHANGED jobs \/ \E r \in Requests : InsertJob(r)
  BY <1>4 DEF HandlerNext, Admit, RefuseInput, ForwardVideo, ForwardChat, Forwarded,
     HandlerSettles, tableVars
<1>5. ASSUME PollerNext PROVE UNCHANGED jobs \/ \E p \in Pollers : Mark(p)
  BY <1>5 DEF PollerNext, PollFails, PollAnswers, Hold, tableVars
<1>6. ASSUME \/ PersistNext \/ \E t \in Requests : TaskEnds(t)
             \/ RouterAdmin \/ UNCHANGED allVars
      PROVE  UNCHANGED jobs
  BY <1>6 DEF PersistNext, BeginWrite, EndWrite, SkipWrite, TaskEnds, RouterAdmin,
     allVars, routerVars, tableVars
<1>7. Restart \/ Fine
  BY <1>1, <1>2, <1>3, <1>4, <1>5, <1>6, WhoseStep
<1>8. QED
  BY <1>7 DEF Fine

\* The copies are old tables; a start takes one of them, or none.
CopyCase ==
    /\ file'.jobs = file.jobs \/ \E x \in Actors : file'.jobs = snapshot[x]
    /\ \A x \in Actors : snapshot'[x] \in {snapshot[x], jobs, NoTable}
    /\ Restart => jobs' \in {file.jobs, NoTable}

LEMMA CopyCases ==
    ASSUME RouterTypeOK, [RouterNext]_allVars
    PROVE  /\ CopyCase
           /\ file' \in [jobs : Table, torn : BOOLEAN]
           /\ snapshot' \in [Actors -> Table]
           /\ Restart => jobs' \in Table
<1> DEFINE Fine == /\ CopyCase
                   /\ file' \in [jobs : Table, torn : BOOLEAN]
                   /\ snapshot' \in [Actors -> Table]
                   /\ Restart => jobs' \in Table
<1>0. /\ jobs \in Table
      /\ file \in [jobs : Table, torn : BOOLEAN]
      /\ snapshot \in [Actors -> Table]
      /\ NoTable \in Table
  BY DEF RouterTypeOK, NoTable, Table
<1>1. Restart => jobs' \in {file.jobs, NoTable}
  BY DEF Restart
<1>2. Restart => jobs' \in Table
  BY <1>0, <1>1
<1>3. ASSUME UNCHANGED <<file, snapshot>> PROVE Fine
  BY <1>0, <1>1, <1>2, <1>3 DEF CopyCase
<1>4. ASSUME NEW x \in Actors, BeginWrite(x) PROVE Fine
  <2>1. snapshot' = [snapshot EXCEPT ![x] = jobs] /\ file' = [file EXCEPT !.torn = TRUE]
    BY <1>4 DEF BeginWrite
  <2>2. file'.jobs = file.jobs /\ file' \in [jobs : Table, torn : BOOLEAN]
    BY <1>0, <2>1
  <2>3. QED
    BY <1>0, <1>1, <1>2, <2>1, <2>2 DEF CopyCase
<1>5. ASSUME NEW x \in Actors, EndWrite(x) PROVE Fine
  <2>1. /\ snapshot' = [snapshot EXCEPT ![x] = NoTable]
        /\ \/ file' = [jobs |-> snapshot[x], torn |-> FALSE]
           \/ file' = [file EXCEPT !.torn = TRUE]
    BY <1>5 DEF EndWrite
  <2>2. /\ file'.jobs = file.jobs \/ file'.jobs = snapshot[x]
        /\ file' \in [jobs : Table, torn : BOOLEAN]
    <3>1. snapshot[x] \in Table
      BY <1>0
    <3>2. CASE file' = [jobs |-> snapshot[x], torn |-> FALSE]
      BY <3>1, <3>2
    <3>3. CASE file' = [file EXCEPT !.torn = TRUE]
      BY <1>0, <3>3
    <3>4. QED
      BY <2>1, <3>2, <3>3
  <2>3. QED
    BY <1>0, <1>1, <1>2, <2>1, <2>2 DEF CopyCase
<1>6. ASSUME Restart PROVE Fine
  <2>1. UNCHANGED file /\ snapshot' = [x \in Actors |-> NoTable]
    BY <1>6 DEF Restart
  <2>2. QED
    BY <1>0, <1>1, <1>2, <2>1 DEF CopyCase
<1> HIDE DEF Fine
<1>7. ASSUME HandlerNext \/ PollerNext PROVE UNCHANGED <<file, snapshot>>
  BY <1>7 DEF HandlerNext, Admit, RefuseInput, ForwardVideo, ForwardChat, Forwarded,
     HandlerSettles, InsertJob, PollerNext, PollFails, PollAnswers, Mark, Hold, Changed, tableVars
<1>8. ASSUME PersistNext
      PROVE  UNCHANGED <<file, snapshot>> \/ \E x \in Actors : BeginWrite(x) \/ EndWrite(x)
  BY <1>8 DEF PersistNext, SkipWrite, tableVars
<1>9. ASSUME \/ \E t \in Requests : TaskEnds(t)
             \/ RouterAdmin \/ UNCHANGED allVars
      PROVE  UNCHANGED <<file, snapshot>>
  BY <1>9 DEF TaskEnds, RouterAdmin, allVars, routerVars, tableVars
<1>10. Fine
  BY <1>3, <1>4, <1>5, <1>6, <1>7, <1>8, <1>9 DEF RouterNext
<1>11. QED
  BY <1>10 DEF Fine

\* RowOK and TableOK of the state after the step.
RowNext(id, job) ==
    job # NoJob =>
        /\ job.request \in Requests /\ kind'[job.request] # "chat"
        /\ reservation'[job.request] = "held"
        /\ pc'[job.request] \in Persisting \cup {"done"}
        /\ id.form = "unknown" => id.of = job.request /\ job.reconcile
        /\ id.form # "unknown" => got'[job.request] = id.of /\ task'[id.of] # "none"

TableNext(table) == \A id \in JobId : RowNext(id, table[id])

LEMMA RowStays ==
    ASSUME Progress, NEW id \in JobId, NEW job, RowOK(id, job)
    PROVE  RowNext(id, job)
BY DEF Progress, RowOK, RowNext, IsVideo, JobId

LEMMA TableStays ==
    ASSUME RouterInv, [RouterNext]_allVars
    PROVE  /\ TableNext(jobs) /\ TableNext(file.jobs) /\ TableNext(NoTable)
           /\ \A x \in Actors : TableNext(snapshot[x])
<1>1. Progress /\ TablesOK
  BY StepProgress DEF RouterInv
<1>2. TableNext(NoTable)
  BY DEF TableNext, RowNext, NoTable
<1>3. QED
  BY <1>1, <1>2, RowStays DEF TablesOK, TableOK, TableNext

LEMMA InsertedRow ==
    ASSUME RouterInv, [RouterNext]_allVars, NEW r \in Requests, InsertJob(r)
    PROVE  RowNext(IdFor(r), [request |-> r, reconcile |-> pc[r] = "unclear"])
<1>1. /\ HandlerOK(r) /\ pc[r] \in {"accepted", "unclear"}
      /\ pc \in [Actors -> Handling \cup Polling \cup Persisting] /\ r \in Actors
  BY ActorsDisjoint DEF RouterInv, RouterTypeOK, InsertJob
<1>2. /\ IsVideo(r) /\ reservation[r] = "held"
      /\ pc[r] = "accepted" => got[r] # NoRequest /\ task[got[r]] # "none"
  BY <1>1 DEF HandlerOK
<1>3. /\ pc'[r] = "persist" /\ UNCHANGED <<kind, reservation, got, task>>
  BY <1>1 DEF InsertJob, Goto, quotaVars, holdVars, bridgeVars
<1>4. CASE pc[r] = "unclear"
  BY <1>2, <1>3, <1>4 DEF RowNext, IdFor, IsVideo, Persisting
<1>5. CASE pc[r] = "accepted"
  <2>1. IdFor(r).form \in {"task", "envelope"} /\ IdFor(r).of = got[r]
    BY <1>5 DEF IdFor
  <2>2. QED
    BY <1>2, <1>3, <1>5, <2>1 DEF RowNext, IsVideo, Persisting
<1>6. QED
  BY <1>1, <1>4, <1>5

LEMMA StepTables ==
    ASSUME RouterInv, [RouterNext]_allVars
    PROVE  TablesOK'
<1>0. CopyCase /\ RouterTypeOK
  BY CopyCases DEF RouterInv
<1>1. TableNext(file'.jobs) /\ \A x \in Actors : TableNext(snapshot'[x])
  BY <1>0, TableStays DEF CopyCase
<1>2. TableNext(jobs')
  <2>1. CASE Restart
    BY <1>0, <2>1, TableStays DEF CopyCase
  <2>2. ASSUME NEW id \in JobId, RowCase(id) PROVE RowNext(id, jobs'[id])
    <3>1. RowNext(id, jobs[id])
      BY TableStays DEF TableNext
    <3>2. CASE /\ jobs[id] \in Job /\ jobs'[id] \in Job
               /\ jobs'[id].request = jobs[id].request /\ jobs'[id].reconcile
      <4>1. jobs[id] # NoJob
        BY <3>2, JobIs
      <4>2. QED
        BY <3>1, <3>2, <4>1 DEF RowNext
    <3>3. QED
      BY <2>2, <3>1, <3>2, InsertedRow DEF RowCase
  <2>3. QED
    BY <2>1, <2>2, RowCases DEF TableNext
<1>3. QED
  BY <1>1, <1>2 DEF TablesOK, TableOK, RowOK, TableNext, RowNext, IsVideo

-----------------------------------------------------------------------------
(* The pollers.                                                              *)

\* No step but a start takes a row away.
LEMMA RowsRemain ==
    ASSUME RouterInv, [RouterNext]_allVars, ~Restart, NEW id \in JobId, jobs[id] # NoJob
    PROVE  jobs'[id] # NoJob
BY RowCases, JobIs DEF RowCase

PollerStep(p) ==
    \/ \E id \in JobId : PollFails(p, id) \/ PollAnswers(p, id)
    \/ Mark(p) \/ Hold(p)

LEMMA PollerUnmoved ==
    ASSUME RouterTypeOK, [RouterNext]_allVars, NEW p \in Pollers, ~PollerStep(p)
    PROVE  \/ /\ target'[p] = target[p] /\ ~Restart
              /\ pc'[p] = pc[p]
           \/ pc'[p] \in {"idle"} \cup Persisting
<1> DEFINE Fine == \/ target'[p] = target[p] /\ ~Restart /\ pc'[p] = pc[p]
                   \/ pc'[p] \in {"idle"} \cup Persisting
<1>0. /\ pc \in [Actors -> Handling \cup Polling \cup Persisting]
      /\ target \in [Pollers -> JobId \cup {NoJobId}]
      /\ p \in Actors /\ p \notin Requests /\ Requests \subseteq Actors /\ Pollers \subseteq Actors
  BY ActorsDisjoint DEF RouterTypeOK
<1>1. ASSUME NEW x \in Actors, NEW step, x # p, Goto(x, step) PROVE pc'[p] = pc[p]
  BY <1>0, <1>1 DEF Goto
<1>2. CASE Restart
  BY <1>0, <1>2 DEF Restart, Rest
<1>3. ASSUME HandlerNext PROVE pc'[p] = pc[p] /\ UNCHANGED target
  <2>1. UNCHANGED target /\ \E r \in Requests : \E step : Goto(r, step)
    BY <1>3 DEF HandlerNext, Admit, RefuseInput, ForwardVideo, ForwardChat, Forwarded,
       HandlerSettles, InsertJob
  <2>2. QED
    BY <1>0, <1>1, <2>1
<1>4. ASSUME PollerNext PROVE pc'[p] = pc[p] /\ target'[p] = target[p]
  <2>1. PICK q \in Pollers : q # p /\ PollerStep(q)
    BY <1>4 DEF PollerNext, PollerStep
  <2>2. /\ \E step : Goto(q, step)
        /\ \E id : target' = [target EXCEPT ![q] = id]
    BY <2>1 DEF PollerStep, PollFails, PollAnswers, Mark, Hold, Changed
  <2>3. QED
    BY <1>0, <1>1, <2>1, <2>2
<1>5. ASSUME NEW x \in Actors, EndWrite(x) \/ SkipWrite(x)
      PROVE  UNCHANGED target /\ (pc'[p] = pc[p] \/ pc'[p] = "idle")
  <2>1. UNCHANGED target /\ Goto(x, Rest(x))
    BY <1>5 DEF EndWrite, SkipWrite
  <2>2. CASE x = p
    BY <1>0, <2>1, <2>2 DEF Goto, Rest
  <2>3. QED
    BY <1>1, <2>1, <2>2
<1>6. ASSUME NEW x \in Actors, BeginWrite(x)
      PROVE  UNCHANGED target /\ (pc'[p] = pc[p] \/ pc'[p] \in Persisting)
  BY <1>0, <1>6 DEF BeginWrite, Persisting
<1>7. ASSUME PersistNext
      PROVE  UNCHANGED target /\ (pc'[p] = pc[p] \/ pc'[p] \in {"idle"} \cup Persisting)
  BY <1>5, <1>6, <1>7 DEF PersistNext
<1>8. ASSUME \/ \E t \in Requests : TaskEnds(t)
             \/ RouterAdmin \/ UNCHANGED allVars
      PROVE  UNCHANGED <<pc, target>>
  BY <1>8 DEF TaskEnds, RouterAdmin, allVars, routerVars
<1>9. QED
  BY <1>2, <1>3, <1>4, <1>7, <1>8 DEF RouterNext

LEMMA StepPoller ==
    ASSUME RouterInv, [RouterNext]_allVars, NEW p \in Pollers
    PROVE  PollerOK(p)'
<1>0. /\ PollerOK(p) /\ RouterTypeOK
      /\ pc \in [Actors -> Handling \cup Polling \cup Persisting]
      /\ target \in [Pollers -> JobId \cup {NoJobId}]
      /\ p \in Actors
  BY ActorsDisjoint DEF RouterInv, RouterTypeOK
<1>1. ASSUME pc'[p] \in {"idle"} \cup Persisting PROVE PollerOK(p)'
  BY <1>1 DEF PollerOK, Polling, Persisting
<1>2. ASSUME NEW id \in JobId, PollFails(p, id) \/ PollAnswers(p, id) PROVE PollerOK(p)'
  <2>1. pc'[p] \in {"mark", "hold"}
    BY <1>0, <1>2 DEF PollFails, PollAnswers, Verdict, Goto
  <2>2. target'[p] = id /\ jobs[id] # NoJob /\ jobs' = jobs
    BY <1>0, <1>2 DEF PollFails, PollAnswers, tableVars
  <2>3. QED
    BY <2>1, <2>2 DEF PollerOK, Polling
<1>3. CASE Mark(p) \/ Hold(p)
  <2>1. pc'[p] = "persist"
    BY <1>0, <1>3 DEF Mark, Hold, Changed, Goto
  <2>2. QED
    BY <1>1, <2>1 DEF Persisting
<1>4. CASE ~PollerStep(p)
  <2>1. CASE target'[p] = target[p] /\ ~Restart /\ pc'[p] = pc[p]
    BY <1>0, <2>1, RowsRemain DEF PollerOK
  <2>2. QED
    BY <1>0, <1>1, <1>4, <2>1, PollerUnmoved
<1>5. QED
  BY <1>2, <1>3, <1>4 DEF PollerStep

-----------------------------------------------------------------------------
(* Types.                                                                    *)

LEMMA RouterInitType == RouterInit => RouterTypeOK
<1> SUFFICES ASSUME RouterInit PROVE RouterTypeOK
  OBVIOUS
<1>1. TypeOK
  BY InitType DEF RouterInit
<1>2. NoTable \in Table
  BY DEF NoTable, Table
<1>3. QED
  BY <1>1, <1>2 DEF RouterInit, RouterTypeOK, Handling, TaskState

LEMMA StepPcType ==
    ASSUME RouterInv, [RouterNext]_allVars
    PROVE  pc' \in [Actors -> Handling \cup Polling \cup Persisting]
<1> DEFINE Steps == Handling \cup Polling \cup Persisting
<1>0. pc \in [Actors -> Steps]
  BY DEF RouterInv, RouterTypeOK
<1>1. ASSUME NEW x \in Actors, NEW step \in Steps, Goto(x, step) PROVE pc' \in [Actors -> Steps]
  BY <1>0, <1>1 DEF Goto
<1>2. /\ \A x : Rest(x) \in Steps
      /\ Handling \subseteq Steps /\ Polling \subseteq Steps /\ Persisting \subseteq Steps
  BY DEF Rest, Handling
<1>3. ASSUME NEW r \in Requests, OwnStep(r) PROVE \E step \in Steps : Goto(r, step)
  BY <1>2, <1>3 DEF OwnStep, Admit, RefuseInput, ForwardVideo, ForwardChat, HandlerSettles,
     InsertJob, Handling, Persisting
<1>4. ASSUME NEW p \in Pollers, PollerStep(p) PROVE \E step \in Steps : Goto(p, step)
  BY <1>2, <1>4 DEF PollerStep, PollFails, PollAnswers, Verdict, Mark, Hold, Changed,
     Polling, Persisting
<1>5. ASSUME NEW x \in Actors, EndWrite(x) \/ SkipWrite(x) PROVE \E step \in Steps : Goto(x, step)
  BY <1>2, <1>5 DEF EndWrite, SkipWrite
<1>6. ASSUME NEW x \in Actors, BeginWrite(x) PROVE pc' \in [Actors -> Steps]
  BY <1>0, <1>6 DEF BeginWrite, Persisting
<1>7. ASSUME Restart PROVE pc' \in [Actors -> Steps]
  BY <1>0, <1>2, <1>7 DEF Restart, Handling
<1>8. ASSUME UNCHANGED pc PROVE pc' \in [Actors -> Steps]
  BY <1>0, <1>8
<1> HIDE DEF Steps
<1>9. ASSUME HandlerNext \/ PollerNext \/ PersistNext PROVE pc' \in [Actors -> Steps]
  BY <1>9, <1>1, <1>3, <1>4, <1>5, <1>6
     DEF HandlerNext, OwnStep, PollerNext, PollerStep, PersistNext, Actors
<1>10. ASSUME \/ \E t \in Requests : TaskEnds(t)
              \/ RouterAdmin \/ UNCHANGED allVars
       PROVE  UNCHANGED pc
  BY <1>10 DEF TaskEnds, RouterAdmin, allVars, routerVars
<1>11. pc' \in [Actors -> Steps]
  BY <1>7, <1>8, <1>9, <1>10, WhoseStep
<1>12. QED
  BY <1>11 DEF Steps

\* What the pollers and the bridge hold.
LEMMA StepHeldType ==
    ASSUME RouterInv, [RouterNext]_allVars
    PROVE  /\ target' \in [Pollers -> JobId \cup {NoJobId}]
           /\ task' \in [Requests -> TaskState]
           /\ got' \in [Requests -> Requests \cup {NoRequest}]
           /\ submitted' \in [Requests -> Nat]
           /\ crashes' \in Nat
<1>0. /\ RouterTypeOK
      /\ target \in [Pollers -> JobId \cup {NoJobId}]
      /\ task \in [Requests -> TaskState]
      /\ got \in [Requests -> Requests \cup {NoRequest}]
      /\ submitted \in [Requests -> Nat]
      /\ crashes \in Nat
  BY DEF RouterInv, RouterTypeOK
<1>1. \/ UNCHANGED target
      \/ \E p \in Pollers : \E id \in JobId \cup {NoJobId} : target' = [target EXCEPT ![p] = id]
      \/ target' = [p \in Pollers |-> NoJobId]
  BY DEF RouterNext, HandlerNext, PollerNext, PersistNext, allVars, routerVars,
         Admit, RefuseInput, ForwardVideo, ForwardChat, Forwarded, HandlerSettles, InsertJob,
         PollFails, PollAnswers, Mark, Hold, Changed, BeginWrite, EndWrite, SkipWrite,
         Restart, TaskEnds, RouterAdmin
<1>2. target' \in [Pollers -> JobId \cup {NoJobId}]
  BY <1>0, <1>1
<1>3. ASSUME NEW r \in Requests, Given(r)
      PROVE  /\ task' \in [Requests -> TaskState]
             /\ got' \in [Requests -> Requests \cup {NoRequest}]
  BY <1>0, <1>3, GivenIs DEF TaskState
<1>4. /\ task' \in [Requests -> TaskState]
      /\ got' \in [Requests -> Requests \cup {NoRequest}]
  BY <1>0, <1>3, BridgeCases DEF BridgeCase, TaskState
<1>5. UNCHANGED submitted \/ \E r \in Requests : submitted' = [submitted EXCEPT ![r] = @ + 1]
  BY DEF RouterNext, HandlerNext, PollerNext, PersistNext, allVars, routerVars, bridgeVars,
         Admit, RefuseInput, ForwardVideo, ForwardChat, Forwarded, HandlerSettles, InsertJob,
         PollFails, PollAnswers, Mark, Hold, Changed, BeginWrite, EndWrite, SkipWrite,
         Restart, TaskEnds, RouterAdmin
<1>6. submitted' \in [Requests -> Nat]
  BY <1>0, <1>5
<1>7. UNCHANGED crashes \/ crashes' = crashes + 1
  BY DEF RouterNext, HandlerNext, PollerNext, PersistNext, allVars, routerVars,
         Admit, RefuseInput, ForwardVideo, ForwardChat, Forwarded, HandlerSettles, InsertJob,
         PollFails, PollAnswers, Mark, Hold, Changed, BeginWrite, EndWrite, SkipWrite,
         Restart, TaskEnds, RouterAdmin
<1>8. crashes' \in Nat
  BY <1>0, <1>7
<1>9. QED
  BY <1>2, <1>4, <1>6, <1>8

LEMMA StepRouterType ==
    ASSUME RouterInv, [RouterNext]_allVars
    PROVE  RouterTypeOK'
<1>1. TypeOK'
  BY StepIsQuota, StepType DEF RouterInv, RouterTypeOK
<1>2. kind' \in [Requests -> RequestKind]
  BY KindStays DEF RouterInv, RouterTypeOK
<1>3. /\ jobs' \in Table
      /\ file' \in [jobs : Table, torn : BOOLEAN]
      /\ snapshot' \in [Actors -> Table]
  BY CopyCases, RowCases DEF RouterInv
<1>4. QED
  BY <1>1, <1>2, <1>3, StepPcType, StepHeldType DEF RouterTypeOK

-----------------------------------------------------------------------------
(* The theorems.                                                             *)

LEMMA InitInv == RouterInit => RouterInv
<1> SUFFICES ASSUME RouterInit PROVE RouterInv
  OBVIOUS
<1>1. RouterTypeOK
  BY RouterInitType
<1>2. \A r \in Requests : HandlerOK(r)
  BY DEF RouterInit, Init, HandlerOK, Actors, Handling
<1>3. \A p \in Pollers : PollerOK(p)
  BY DEF RouterInit, PollerOK, Actors, Polling
<1>4. TablesOK
  BY DEF RouterInit, TablesOK, TableOK, RowOK, NoTable
<1>5. QED
  BY <1>1, <1>2, <1>3, <1>4 DEF RouterInv

LEMMA StepInv == RouterInv /\ [RouterNext]_allVars => RouterInv'
BY StepRouterType, StepHandler, StepPoller, StepTables DEF RouterInv

\* The inductive invariant: where every handler and every poller is, and what
\* every copy of the table says of a request's hold and task.
THEOREM RouterInvariant == RouterSpec => []RouterInv
BY InitInv, StepInv, PTL DEF RouterSpec

\* Every variable of the router has its type.
THEOREM RouterTypes == RouterSpec => []RouterTypeOK
<1>1. RouterInv => RouterTypeOK
  BY DEF RouterInv
<1>2. QED
  BY <1>1, RouterInvariant, PTL

\* The router uses the ledger only as CoreQuota says: each step of a handler, a
\* poller or an administrator is a step of CoreQuota or leaves it alone.
THEOREM RouterImplementsQuota == RouterSpec => ImplementsQuota
<1>1. RouterInit => Init
  BY DEF RouterInit
<1>2. QED
  BY <1>1, StepIsQuota, PTL DEF RouterSpec, ImplementsQuota, Spec

\* So the router never drives an account below zero.
THEOREM RouterSolvency == RouterSpec => []NeverOverdrawn
BY RouterImplementsQuota, Solvency DEF ImplementsQuota

\* Neither does it make or lose money, whatever is lost, torn or shared.
THEOREM RouterConservation == RouterSpec => []Conservation
BY RouterImplementsQuota, MoneyIsConserved DEF ImplementsQuota

\* Whatever was lost, torn, written late or shared between requests, every job,
\* in every copy of the table, is of a request that still holds its money, and an
\* upstream id in it is that of the task the gateway has for this request.
THEOREM BackedJobs == RouterSpec => []JobsAreBacked
<1>1. ASSUME NEW table, TableOK(table) PROVE Backed(table)
  BY <1>1 DEF TableOK, RowOK, Backed
<1>2. RouterInv => JobsAreBacked
  BY <1>1 DEF RouterInv, TablesOK, JobsAreBacked
<1>3. QED
  BY <1>2, RouterInvariant, PTL

\* The money of a video that the gateway has a task for is never given back.
THEOREM TasksKeepMoney == RouterSpec => []NoRefundForTask
<1>1. ASSUME RouterInv, NEW r \in Requests, reservation[r] = "released"
      PROVE  got[r] = NoRequest
  BY <1>1 DEF RouterInv, HandlerOK
<1>2. RouterInv => NoRefundForTask
  BY <1>1 DEF NoRefundForTask
<1>3. QED
  BY <1>2, RouterInvariant, PTL

\* No request is forwarded twice, and none without a reservation.
THEOREM OneSubmission == RouterSpec => []SubmittedOnce
<1>1. ASSUME RouterInv, NEW r \in Requests
      PROVE  submitted[r] <= 1 /\ (submitted[r] = 1 => reservation[r] # "none")
  BY <1>1 DEF RouterInv, HandlerOK
<1>2. RouterInv => SubmittedOnce
  BY <1>1 DEF SubmittedOnce
<1>3. QED
  BY <1>2, RouterInvariant, PTL

\* What the code does with a video: once there is a task for it, its money stays
\* held for good; no video is ever charged by the router.
THEOREM VideosHeld == RouterSpec => []VideosStayHeld
<1>1. ASSUME RouterInv, NEW r \in Requests, IsVideo(r)
      PROVE  (got[r] # NoRequest => reservation[r] = "held") /\ reservation[r] # "committed"
  BY <1>1 DEF RouterInv, HandlerOK
<1>2. RouterInv => VideosStayHeld
  BY <1>1 DEF VideosStayHeld
<1>3. QED
  BY <1>2, RouterInvariant, PTL

\* A mark for reconciliation outlasts every late answer: only another request
\* that is given the same task, or a start, replaces a marked job.
THEOREM MarksRemain == RouterSpec => MarksStay
<1> DEFINE Stays ==
      crashes' = crashes =>
        \A id \in JobId :
           jobs[id].reconcile =>
              jobs'[id].reconcile \/ jobs'[id].request # jobs[id].request
<1>1. RouterInv /\ [RouterNext]_allVars => [Stays]_allVars
  <2> SUFFICES ASSUME RouterInv, [RouterNext]_allVars, crashes' = crashes,
                      NEW id \in JobId, jobs[id].reconcile
               PROVE  jobs'[id].reconcile \/ jobs'[id].request # jobs[id].request
    OBVIOUS
  <2>1. ~Restart
    BY DEF Restart, RouterInv, RouterTypeOK
  <2>2. RowCase(id) /\ RowOK(id, jobs[id])
    BY <2>1, RowCases DEF RouterInv, TablesOK, TableOK
  <2>3. CASE jobs[id] = NoJob
    BY <2>3 DEF NoJob
  <2>4. CASE jobs[id] # NoJob
    <3>1. ASSUME NEW r \in Requests, InsertJob(r) PROVE jobs[id].request # r
      BY <2>2, <2>4, <3>1 DEF RowOK, InsertJob, Persisting
    <3>2. CASE jobs'[id] = jobs[id]
      BY <3>2
    <3>3. ASSUME NEW r \in Requests, InsertJob(r), NEW b, jobs'[id] = [request |-> r, reconcile |-> b]
          PROVE  jobs'[id].request # jobs[id].request
      BY <3>1, <3>3
    <3>4. QED
      BY <2>2, <3>2, <3>3 DEF RowCase
  <2>5. QED
    BY <2>3, <2>4
<1>2. QED
  BY <1>1, RouterInvariant, PTL DEF RouterSpec, MarksStay
=============================================================================
