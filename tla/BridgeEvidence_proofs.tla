------------------------ MODULE BridgeEvidence_proofs ------------------------
(* Theorems about the evidence of costs, for any requests, accounts, calls   *)
(* and billing requests and any bound of the charges.                        *)
EXTENDS BridgeEvidence, TLAPS

LEMMA NoneIsNothing ==
  /\ None \notin Nat /\ None \notin Accounts /\ None \notin Claims
  /\ None \notin Row /\ None \notin Receipts /\ NoCharge \notin Accounts
  /\ MaxCharge \in Nat
BY EvidenceConstants

LEMMA EvidenceInitType == EvidenceInit => EvidenceTypeOK
<1> SUFFICES ASSUME EvidenceInit PROVE EvidenceTypeOK
  OBVIOUS
<1>1. 0 \in Amounts
  BY EvidenceConstants DEF Amounts
<1>2. NoReader \in ReaderStates
  BY <1>1 DEF NoReader, ReaderStates, Readings
<1>3. NewCall \in CallStates
  BY DEF NewCall, CallStates
<1>4. NoFinal \in FinalStates
  BY <1>1 DEF NoFinal, FinalStates
<1>5. QED
  BY <1>2, <1>3, <1>4 DEF EvidenceInit, EvidenceTypeOK

LEMMA DoneType == Done \in CallStates
BY DEF Done, NewCall, CallStates

LEMMA NoReaderType == NoReader \in ReaderStates
BY EvidenceConstants DEF NoReader, ReaderStates, Readings, Amounts

LEMMA NoFinalType == NoFinal \in FinalStates
BY EvidenceConstants DEF NoFinal, FinalStates, Amounts

(* A row that is merged or linked is a row.                                  *)
LEMMA MergedType ==
  ASSUME NEW row \in Row \cup {None}, NEW amount \in Amounts
  PROVE  Merged(row, amount) \in Row \cup {None}
BY DEF Merged, Row

LEMMA LinkedType ==
  ASSUME NEW row \in Row \cup {None}, NEW unique \in BOOLEAN
  PROVE  Linked(row, unique) \in Row \cup {None}
BY DEF Linked, Row

LEMMA FindingType ==
  ASSUME EvidenceTypeOK, NEW f \in Finalizers, final[f].account \in Accounts
  PROVE  Finding(f) \in Receipts
BY DEF EvidenceTypeOK, FinalStates, Finding, Receipts, Sources

LEMMA StoredType ==
  ASSUME NEW old \in Receipts \cup {None}, NEW new \in Receipts
  PROVE  Stored(old, new) \in Receipts
<1>1. CASE old = None
  BY <1>1 DEF Stored
<1>2. CASE old \in Receipts
  <2>1. 0 \in Amounts /\ old # None
    BY <1>2, NoneIsNothing DEF Amounts
  <2>2. [old EXCEPT !.status = "conflict", !.amount = 0] \in Receipts
    BY <1>2, <2>1 DEF Receipts
  <2>3. QED
    BY <1>2, <2>1, <2>2 DEF Stored
<1>3. QED
  BY <1>1, <1>2

(* A call that is on its way has a request, a claim and the session it uses; *)
(* a billing request that is on its way has a request and an account.        *)
CallsKnow ==
  \A c \in Calls :
    /\ call[c].pc \in {"accepted", "attempted", "sent"} =>
         call[c].request \in Requests
    /\ call[c].pc \in {"attempted", "sent"} =>
         call[c].account \in sessions[call[c].request]

FinalsKnow ==
  \A f \in Finalizers : final[f].pc # "idle" =>
    /\ final[f].request \in Requests
    /\ final[f].account \in sessions[final[f].request]

EvidenceTypes == EvidenceTypeOK /\ CallsKnow /\ FinalsKnow

LEMMA TypesInit == EvidenceInit => EvidenceTypes
BY EvidenceInitType DEF EvidenceInit, EvidenceTypes, CallsKnow, FinalsKnow,
  NewCall, NoFinal

LEMMA CallTypes ==
  ASSUME EvidenceTypes, NEW c \in Calls, CallStep(c)
  PROVE  EvidenceTypes'
<1> USE DEF EvidenceTypes, EvidenceTypeOK
<1>1. ASSUME NEW r \in Requests, NEW claim \in Claims, Arrive(c, r, claim)
      PROVE  EvidenceTypes'
  <2>1. request' \in [Requests -> [claim : Claims, conflict : BOOLEAN] \cup {None}]
    <3> DEFINE R == [claim : Claims, conflict : BOOLEAN]
    <3>1. request \in [Requests -> R \cup {None}]
      OBVIOUS
    <3>2. [claim |-> claim, conflict |-> FALSE] \in R
      OBVIOUS
    <3>3. request[r] # None => [request[r] EXCEPT !.conflict = TRUE] \in R
      BY <3>1
    <3>4. \/ request' = request
          \/ request' = [request EXCEPT ![r] = [claim |-> claim, conflict |-> FALSE]]
          \/ /\ request[r] # None
             /\ request' = [request EXCEPT ![r] =
                              [request[r] EXCEPT !.conflict = TRUE]]
      BY <1>1, Zenon DEF Arrive, RecordRequest, Recorded
    <3> HIDE DEF R
    <3>5. request' \in [Requests -> R \cup {None}]
      BY <3>1, <3>2, <3>3, <3>4
    <3>6. QED
      BY <3>5 DEF R
  <2>2. call' \in [Calls -> CallStates]
    <3>1. [NewCall EXCEPT !.pc = "accepted", !.request = r, !.claim = claim]
          \in CallStates
      BY DEF NewCall, CallStates
    <3>2. QED
      BY <1>1, <3>1, DoneType DEF Arrive
  <2>3. call'[c].pc \in {"done", "accepted"}
        /\ (call'[c].pc = "accepted" => call'[c].request = r)
    BY <1>1 DEF Arrive, NewCall, Done
  <2>4. CallsKnow'
    BY <1>1, <2>3 DEF Arrive, CallsKnow
  <2>5. QED
    BY <1>1, <2>1, <2>2, <2>4 DEF Arrive, FinalsKnow
<1>2. CASE Reject(c)
  <2>1. call[c].request \in Requests
    BY <1>2 DEF Reject, CallsKnow
  <2>2. [status |-> "final", source |-> NoCharge, amount |-> 0, task |-> None]
        \in Receipts
    BY EvidenceConstants DEF Receipts, Sources, Amounts
  <2>3. receipt' \in [Requests -> Receipts \cup {None}]
    BY <1>2, <2>1, <2>2 DEF Reject
  <2>4. call' \in [Calls -> CallStates] /\ call'[c].pc = "done"
        /\ \A d \in Calls \ {c} : call'[d] = call[d]
    BY <1>2, DoneType DEF Reject, Done, NewCall
  <2>5. QED
    BY <1>2, <2>3, <2>4 DEF Reject, CallsKnow, FinalsKnow
<1>3. ASSUME NEW a \in Accounts, Attempt(c, a)
      PROVE  EvidenceTypes'
  <2>1. call[c].request \in Requests
    BY <1>3 DEF Attempt, CallsKnow
  <2> DEFINE rr == call[c].request
             next == [call[c] EXCEPT !.pc = "attempted", !.account = a,
                                     !.tried = @ \cup {a}]
  <2>b. next \in CallStates /\ next.pc = "attempted"
        /\ next.request = call[c].request /\ next.account = a
    BY DEF CallStates
  <2>c. \/ /\ sessions' = [sessions EXCEPT ![rr] = sessions[rr] \cup {a}]
           /\ call' = [call EXCEPT ![c] = next]
        \/ sessions' = sessions /\ call' = [call EXCEPT ![c] = Done]
    <3>1. MayAttempt(rr) \/ ~MayAttempt(rr)
      OBVIOUS
    <3>2. QED
      BY <1>3, <3>1, Zenon DEF Attempt
  <2>e. sessions \in [Requests -> SUBSET Accounts]
    OBVIOUS
  <2>2. sessions' \in [Requests -> SUBSET Accounts]
        /\ \A r \in Requests : sessions[r] \subseteq sessions'[r]
    <3>1. sessions' = sessions \/ sessions' = [sessions EXCEPT ![rr] = sessions[rr] \cup {a}]
      BY <2>c
    <3>2. rr \in Requests /\ a \in Accounts
      BY <2>1, <1>3
    <3> HIDE DEF rr, EvidenceTypes, EvidenceTypeOK
    <3>3. QED
      BY <3>1, <3>2, <2>e
  <2>d. \/ call' = [call EXCEPT ![c] = next] /\ a \in sessions'[call[c].request]
        \/ call' = [call EXCEPT ![c] = Done]
    BY <2>1, <2>c, <2>e
  <2> HIDE DEF next
  <2>3. call' \in [Calls -> CallStates]
        /\ \A d \in Calls \ {c} : call'[d] = call[d]
    BY <2>b, <2>d, DoneType
  <2>4. \/ call'[c].pc = "done"
        \/ /\ call'[c].pc = "attempted" /\ call'[c].request = call[c].request
           /\ call'[c].account = a /\ a \in sessions'[call[c].request]
    BY <2>b, <2>d DEF Done, NewCall
  <2>5. CallsKnow'
    BY <2>1, <2>2, <2>3, <2>4 DEF CallsKnow
  <2>6. FinalsKnow'
    BY <1>3, <2>2 DEF Attempt, FinalsKnow
  <2>7. QED
    BY <1>3, <2>2, <2>3, <2>5, <2>6 DEF Attempt
<1>4. CASE Send(c)
  <2>1. call[c].request \in Requests
        /\ call[c].account \in sessions[call[c].request]
    BY <1>4 DEF Send, CallsKnow
  <2>2. charge' \in [Requests -> [Accounts -> Amounts \cup {None}]]
    BY <1>4, <2>1, EvidenceConstants DEF Send, Amounts
  <2>3. call' \in [Calls -> CallStates]
    <3> DEFINE next == [call[c] EXCEPT !.pc = "sent"]
    <3>1. call \in [Calls -> CallStates] /\ call[c] \in CallStates
      OBVIOUS
    <3>2. next \in CallStates
      BY <3>1 DEF CallStates
    <3>3. call' = [call EXCEPT ![c] = next]
      BY <1>4 DEF Send
    <3> HIDE DEF next, EvidenceTypes, EvidenceTypeOK
    <3>4. QED
      BY <3>1, <3>2, <3>3
  <2>4. CallsKnow'
    BY <1>4, <2>1 DEF Send, CallsKnow, CallStates
  <2>5. QED
    BY <1>4, <2>2, <2>3, <2>4 DEF Send, FinalsKnow
<1>5. CASE Rotate(c)
  <2>1. call' \in [Calls -> CallStates]
    <3> DEFINE next == [call[c] EXCEPT !.pc = "accepted"]
    <3>1. call \in [Calls -> CallStates] /\ call[c] \in CallStates
      OBVIOUS
    <3>2. next \in CallStates
      BY <3>1 DEF CallStates
    <3>3. call' = [call EXCEPT ![c] = next]
      BY <1>5 DEF Rotate
    <3> HIDE DEF next, EvidenceTypes, EvidenceTypeOK
    <3>4. QED
      BY <3>1, <3>2, <3>3
  <2>2. CallsKnow'
    BY <1>5 DEF Rotate, CallsKnow, CallStates
  <2>3. QED
    BY <1>5, <2>1, <2>2 DEF Rotate, FinalsKnow
<1>6. CASE End(c)
  BY <1>6, DoneType DEF End, Done, NewCall, CallsKnow, FinalsKnow
<1>7. QED
  BY <1>1, <1>2, <1>3, <1>4, <1>5, <1>6 DEF CallStep

LEMMA ReaderTypes ==
  ASSUME EvidenceTypes, NEW a \in Accounts, ReaderStep(a)
  PROVE  EvidenceTypes'
<1>1. CASE Fetch(a)
  <2>1. \A r \in Requests : charge[r][a] \in Amounts \cup {None}
    BY DEF EvidenceTypes, EvidenceTypeOK
  <2>2. [r \in Requests |-> IF Called(r, a) THEN charge[r][a] ELSE 0] \in Readings
    BY <2>1, EvidenceConstants DEF Called, Readings, Amounts
  <2>3. reader' \in [Accounts -> ReaderStates]
    BY <1>1, <2>2 DEF Fetch, ReaderStates, EvidenceTypes, EvidenceTypeOK
  <2>4. QED
    BY <1>1, <2>3 DEF Fetch, EvidenceTypes, EvidenceTypeOK, CallsKnow, FinalsKnow
<1>2. CASE Match(a)
  <2>1. reader' \in [Accounts -> ReaderStates]
    <3> DEFINE L == {r \in Requests : a \in sessions[r] /\ ~Conflicted(r)}
               m == [reader[a] EXCEPT !.pc = "matched", !.links = L]
               u == [reader[a] EXCEPT !.pc = "unmatched"]
    <3>1. m \in ReaderStates /\ u \in ReaderStates
      BY DEF EvidenceTypes, EvidenceTypeOK, ReaderStates
    <3>2. reader' = [reader EXCEPT ![a] = m] \/ reader' = [reader EXCEPT ![a] = u]
      BY <1>2 DEF Match, EvidenceTypes, EvidenceTypeOK
    <3> HIDE DEF m, u
    <3>3. QED
      BY <3>1, <3>2 DEF EvidenceTypes, EvidenceTypeOK
  <2>2. QED
    BY <1>2, <2>1 DEF Match, EvidenceTypes, EvidenceTypeOK, CallsKnow, FinalsKnow
<1>3. CASE Merge(a)
  <2>1. \A r \in Requests : /\ cache[r][a] \in Row \cup {None}
                            /\ reader[a].rows[r] \in Amounts
    BY DEF EvidenceTypes, EvidenceTypeOK, ReaderStates, Readings
  <2> DEFINE merged(r) == Merged(cache[r][a], reader[a].rows[r])
             linked(r) == Linked(merged(r), r \in reader[a].links)
             next(r) == IF reader[a].pc = "matched" THEN linked(r) ELSE merged(r)
  <2>2. \A r \in Requests : merged(r) \in Row \cup {None}
    BY <2>1, MergedType
  <2>3. \A r \in Requests : linked(r) \in Row \cup {None}
    <3> HIDE DEF merged
    <3> TAKE r \in Requests
    <3>1. \A u \in BOOLEAN : Linked(merged(r), u) \in Row \cup {None}
      BY <2>2, LinkedType
    <3>2. (r \in reader[a].links) \in BOOLEAN
      OBVIOUS
    <3>3. QED
      BY <3>1, <3>2
  <2>4. \A r \in Requests : next(r) \in Row \cup {None}
    BY <2>2, <2>3
  <2>5. cache' = [r \in Requests |-> [cache[r] EXCEPT ![a] = next(r)]]
    BY <1>3 DEF Merge
  <2> HIDE DEF next
  <2>6. cache' \in [Requests -> [Accounts -> Row \cup {None}]]
    BY <2>4, <2>5 DEF EvidenceTypes, EvidenceTypeOK
  <2>7. QED
    BY <1>3, <2>6, NoReaderType DEF Merge, EvidenceTypes, EvidenceTypeOK,
      CallsKnow, FinalsKnow
<1>4. CASE DropRead(a)
  BY <1>4, NoReaderType DEF DropRead, EvidenceTypes, EvidenceTypeOK, CallsKnow,
    FinalsKnow
<1>5. QED
  BY <1>1, <1>2, <1>3, <1>4 DEF ReaderStep

LEMMA ChargeTypes ==
  ASSUME EvidenceTypes, NEW r \in Requests, NEW a \in Accounts, Charge(r, a)
  PROVE  EvidenceTypes'
<1>1. charge[r][a] \in Nat /\ charge[r][a] < MaxCharge
  BY EvidenceConstants DEF Charge, Called, EvidenceTypes, EvidenceTypeOK, Amounts
<1>2. charge[r][a] + 1 \in Amounts
  BY <1>1, EvidenceConstants DEF Amounts
<1>3. charge' \in [Requests -> [Accounts -> Amounts \cup {None}]]
  BY <1>2 DEF Charge, EvidenceTypes, EvidenceTypeOK
<1>4. QED
  BY <1>3 DEF Charge, EvidenceTypes, EvidenceTypeOK, CallsKnow, FinalsKnow

LEMMA FinalTypes ==
  ASSUME EvidenceTypes, NEW f \in Finalizers, FinalStep(f)
  PROVE  EvidenceTypes'
<1>1. final[f].pc # "idle" => /\ final[f].request \in Requests
                             /\ final[f].account \in Accounts
                             /\ final[f].account \in sessions[final[f].request]
  BY DEF EvidenceTypes, EvidenceTypeOK, FinalsKnow
<1>2. ASSUME NEW r \in Requests, NEW t \in Tasks \cup {None}, Look(f, r, t)
      PROVE  EvidenceTypes'
  <2>1. PICK a \in Accounts : UniqueSession(r, a) /\ final' = [final EXCEPT ![f] =
            [pc |-> "looked", request |-> r, task |-> t, account |-> a,
             amount |-> 0]]
    BY <1>2 DEF Look
  <2>2. [pc |-> "looked", request |-> r, task |-> t, account |-> a, amount |-> 0]
        \in FinalStates
    BY EvidenceConstants DEF FinalStates, Amounts
  <2>3. QED
    BY <1>2, <2>1, <2>2 DEF Look, UniqueSession, EvidenceTypes, EvidenceTypeOK,
      CallsKnow, FinalsKnow
<1>3. CASE ReadCandidate(f)
  <2> DEFINE row == cache[final[f].request][final[f].account]
             next == [final[f] EXCEPT !.pc = "ready", !.amount = row.amount]
  <2>1. \/ final' = [final EXCEPT ![f] = NoFinal]
        \/ row # None /\ final' = [final EXCEPT ![f] = next]
    BY <1>3 DEF ReadCandidate, Candidate
  <2>2. row # None => row.amount \in Amounts
    BY <1>1, <1>3 DEF ReadCandidate, EvidenceTypes, EvidenceTypeOK, Row
  <2>3. row # None => /\ next \in FinalStates /\ next.request = final[f].request
                      /\ next.account = final[f].account
    BY <2>2 DEF EvidenceTypes, EvidenceTypeOK, FinalStates
  <2>4. final[f].pc # "idle"
    BY <1>3 DEF ReadCandidate
  <2> HIDE DEF next, row
  <2>5. final' \in [Finalizers -> FinalStates]
    BY <2>1, <2>3, NoFinalType DEF EvidenceTypes, EvidenceTypeOK
  <2>6. UNCHANGED <<request, sessions, receipt, charge, cache, reader, call>>
    BY <1>3 DEF ReadCandidate
  <2>7. FinalsKnow'
    BY <1>1, <2>1, <2>3, <2>4, <2>6 DEF FinalsKnow, NoFinal, EvidenceTypes,
      EvidenceTypeOK
  <2>8. QED
    BY <2>5, <2>6, <2>7 DEF EvidenceTypes, EvidenceTypeOK, CallsKnow
<1>4. CASE CheckSession(f)
  <2> DEFINE next == [final[f] EXCEPT !.pc = "checked"]
  <2>1. final' = [final EXCEPT ![f] = NoFinal] \/ final' = [final EXCEPT ![f] = next]
    BY <1>4 DEF CheckSession
  <2>2. /\ next \in FinalStates /\ next.request = final[f].request
        /\ next.account = final[f].account
    BY DEF EvidenceTypes, EvidenceTypeOK, FinalStates
  <2>3. final[f].pc # "idle"
    BY <1>4 DEF CheckSession
  <2> HIDE DEF next
  <2>4. final' \in [Finalizers -> FinalStates]
    BY <2>1, <2>2, NoFinalType DEF EvidenceTypes, EvidenceTypeOK
  <2>5. UNCHANGED <<request, sessions, receipt, charge, cache, reader, call>>
    BY <1>4 DEF CheckSession
  <2>6. FinalsKnow'
    <3>1. final \in [Finalizers -> FinalStates] /\ FinalsKnow
      BY DEF EvidenceTypes, EvidenceTypeOK
    <3>2. final'[f].pc = "idle" \/ final'[f] = next
      BY <2>1, <3>1 DEF NoFinal
    <3>3. \A g \in Finalizers \ {f} : final'[g] = final[g]
      BY <2>1, <3>1
    <3>4. QED
      BY <1>1, <2>2, <2>3, <2>5, <3>1, <3>2, <3>3 DEF FinalsKnow
  <2>7. QED
    BY <2>4, <2>5, <2>6 DEF EvidenceTypes, EvidenceTypeOK, CallsKnow
<1>5. CASE RecordReceipt(f)
  <2>1. Finding(f) \in Receipts
    BY <1>1, <1>5, FindingType DEF RecordReceipt, EvidenceTypes
  <2>2. Stored(receipt[final[f].request], Finding(f)) \in Receipts
    BY <1>1, <1>5, <2>1, StoredType DEF RecordReceipt, EvidenceTypes, EvidenceTypeOK
  <2>3. receipt' \in [Requests -> Receipts \cup {None}]
    BY <1>5, <2>2 DEF RecordReceipt, EvidenceTypes, EvidenceTypeOK
  <2>4. QED
    BY <1>5, <2>3, NoFinalType DEF RecordReceipt, EvidenceTypes, EvidenceTypeOK,
      CallsKnow, FinalsKnow, NoFinal
<1>6. CASE DropFinal(f)
  BY <1>6, NoFinalType DEF DropFinal, EvidenceTypes, EvidenceTypeOK, CallsKnow,
    FinalsKnow, NoFinal
<1>7. QED
  BY <1>2, <1>3, <1>4, <1>5, <1>6 DEF FinalStep

LEMMA CrashTypes == ASSUME EvidenceTypes, Crash PROVE EvidenceTypes'
<1>1. call' \in [Calls -> CallStates]
  BY DoneType DEF Crash, EvidenceTypes, EvidenceTypeOK
<1>2. \A c \in Calls : call'[c].pc \in {"new", "done"}
  BY DEF Crash, Done, NewCall
<1>3. \A f \in Finalizers : final'[f].pc = "idle"
  BY DEF Crash, NoFinal
<1>4. QED
  BY <1>1, <1>2, <1>3, NoReaderType, NoFinalType DEF Crash, EvidenceTypes,
    EvidenceTypeOK, CallsKnow, FinalsKnow

LEMMA TypesStep == EvidenceTypes /\ [EvidenceNext]_vars => EvidenceTypes'
<1>1. EvidenceTypes /\ UNCHANGED vars => EvidenceTypes'
  BY DEF vars, EvidenceTypes, EvidenceTypeOK, CallsKnow, FinalsKnow
<1>2. EvidenceTypes /\ EvidenceNext => EvidenceTypes'
  BY CallTypes, ReaderTypes, ChargeTypes, FinalTypes, CrashTypes DEF EvidenceNext
<1>3. QED
  BY <1>1, <1>2

(* Every table keeps the type of its columns (EvidenceTypeOK).               *)
THEOREM EvidenceTypeCorrect == EvidenceSpec => []EvidenceTypeOK
<1>1. EvidenceTypes => EvidenceTypeOK
  BY DEF EvidenceTypes
<1>2. QED
  BY <1>1, TypesInit, TypesStep, PTL DEF EvidenceSpec
-----------------------------------------------------------------------------
(* The inductive invariant. What is charged belongs to a session; what a     *)
(* reader holds and what the cache shows has been charged; a billing request *)
(* carries the amount of the cache; and all billing requests of a request,   *)
(* and its receipt, are about the same account, since each of them found it  *)
(* alone and sessions are never removed.                                     *)
ChargesSession ==
  \A r \in Requests, a \in Accounts : Called(r, a) => a \in sessions[r]

ReaderTrue ==
  \A a \in Accounts, r \in Requests : reader[a].rows[r] # 0 =>
    Called(r, a) /\ reader[a].rows[r] <= charge[r][a]

CacheTrue ==
  \A r \in Requests, a \in Accounts : cache[r][a] # None =>
    /\ Called(r, a)
    /\ 0 < cache[r][a].amount /\ cache[r][a].amount <= charge[r][a]

Read(r, a, n) == cache[r][a] # None /\ cache[r][a].amount = n

FinalsRead ==
  \A f \in Finalizers : final[f].pc \in {"ready", "checked"} =>
    Read(final[f].request, final[f].account, final[f].amount)

OneAccount ==
  \A f, g \in Finalizers :
    /\ final[f].pc # "idle" /\ final[g].pc # "idle"
    /\ final[f].request = final[g].request
    => final[f].account = final[g].account

ReceiptTrue ==
  \A r \in Requests : HasFinal(r) =>
    IF receipt[r].source = NoCharge THEN sessions[r] = {}
    ELSE /\ receipt[r].source \in sessions[r]
         /\ Read(r, receipt[r].source, receipt[r].amount)
         /\ \A f \in Finalizers :
              final[f].pc # "idle" /\ final[f].request = r =>
                final[f].account = receipt[r].source

Truth == ChargesSession /\ ReaderTrue /\ CacheTrue /\ FinalsRead /\ OneAccount
         /\ ReceiptTrue

EvidenceInv == EvidenceTypes /\ Truth

LEMMA TruthInit == EvidenceInit => Truth
BY DEF EvidenceInit, Truth, ChargesSession, ReaderTrue, CacheTrue, FinalsRead,
  OneAccount, ReceiptTrue, Called, HasFinal, NoReader, NoFinal

(* Sessions and charges only grow, and a row keeps its first amount.         *)
SessionsGrow == \A r \in Requests : sessions[r] \subseteq sessions'[r]
ChargesGrow ==
  \A r \in Requests, a \in Accounts : Called(r, a) =>
    Called(r, a)' /\ charge[r][a] \in Nat /\ charge'[r][a] \in Nat
    /\ charge[r][a] <= charge'[r][a]
RowsStay ==
  \A r \in Requests, a \in Accounts : cache[r][a] # None =>
    cache'[r][a] # None /\ cache'[r][a].amount = cache[r][a].amount

LEMMA ChargeNat ==
  ASSUME EvidenceTypes, NEW r \in Requests, NEW a \in Accounts, Called(r, a)
  PROVE  charge[r][a] \in Nat
BY EvidenceConstants DEF EvidenceTypes, EvidenceTypeOK, Called, Amounts

LEMMA SessionsGrowStep ==
  ASSUME EvidenceTypes, [EvidenceNext]_vars PROVE SessionsGrow
<1>1. ASSUME NEW c \in Calls, NEW a \in Accounts, Attempt(c, a) PROVE SessionsGrow
  <2>1. call[c].request \in Requests /\ sessions \in [Requests -> SUBSET Accounts]
    BY <1>1 DEF Attempt, EvidenceTypes, EvidenceTypeOK, CallsKnow
  <2>2. \/ sessions' = sessions
        \/ sessions' = [sessions EXCEPT ![call[c].request] = @ \cup {a}]
    BY <1>1, Zenon DEF Attempt
  <2>3. QED
    BY <2>1, <2>2 DEF SessionsGrow
<1>2. CASE UNCHANGED sessions
  BY <1>2 DEF SessionsGrow
<1>3. QED
  BY <1>1, <1>2 DEF EvidenceNext, CallStep, ReaderStep, FinalStep, Arrive, Reject,
    Send, Rotate, End, Charge, Fetch, Match, Merge, DropRead, Look, ReadCandidate,
    CheckSession, RecordReceipt, DropFinal, Crash, vars

LEMMA ChargesGrowStep ==
  ASSUME EvidenceTypes, [EvidenceNext]_vars PROVE ChargesGrow
<1>1. ASSUME NEW c \in Calls, Send(c) PROVE ChargesGrow
  <2>1. /\ call[c].request \in Requests /\ call[c].account \in Accounts
        /\ charge \in [Requests -> [Accounts -> Amounts \cup {None}]]
    BY <1>1 DEF Send, EvidenceTypes, EvidenceTypeOK, CallsKnow
  <2>2. \A r \in Requests, a \in Accounts : Called(r, a) => charge'[r][a] = charge[r][a]
    BY <1>1, <2>1 DEF Send, Called
  <2>3. QED
    BY <2>2, ChargeNat DEF ChargesGrow, Called
<1>2. ASSUME NEW r \in Requests, NEW a \in Accounts, Charge(r, a) PROVE ChargesGrow
  <2>1. charge[r][a] \in Nat
    BY <1>2, ChargeNat DEF Charge
  <2>2. charge'[r][a] = charge[r][a] + 1 /\ charge'[r][a] # None
    BY <1>2, <2>1, NoneIsNothing DEF Charge, EvidenceTypes, EvidenceTypeOK
  <2>3. \A q \in Requests, b \in Accounts : q # r \/ b # a =>
          charge'[q][b] = charge[q][b]
    BY <1>2 DEF Charge, EvidenceTypes, EvidenceTypeOK
  <2>4. QED
    BY <2>1, <2>2, <2>3, ChargeNat DEF ChargesGrow, Called
<1>3. CASE UNCHANGED charge
  BY <1>3, ChargeNat DEF ChargesGrow, Called
<1>4. QED
  BY <1>1, <1>2, <1>3 DEF EvidenceNext, CallStep, ReaderStep, FinalStep, Arrive,
    Reject, Attempt, Rotate, End, Fetch, Match, Merge, DropRead, Look,
    ReadCandidate, CheckSession, RecordReceipt, DropFinal, Crash, vars

(* What Merge does to one row.                                               *)
LEMMA MergedRow ==
  ASSUME NEW row \in Row \cup {None}, NEW n \in Amounts
  PROVE  /\ row # None => Merged(row, n) # None /\ Merged(row, n).amount = row.amount
         /\ row = None /\ n = 0 => Merged(row, n) = None
         /\ row = None /\ n # 0 => Merged(row, n) # None /\ Merged(row, n).amount = n
<1>1. CASE row = None
  <2>1. [amount |-> n, ambiguous |-> FALSE, linked |-> FALSE] \in Row
    BY DEF Row
  <2>2. QED
    BY <1>1, <2>1, NoneIsNothing DEF Merged
<1>2. CASE row \in Row /\ row # None
  <2>1. [row EXCEPT !.ambiguous = TRUE, !.linked = FALSE] \in Row
        /\ [row EXCEPT !.ambiguous = TRUE, !.linked = FALSE].amount = row.amount
    BY <1>2 DEF Row
  <2>2. QED
    BY <1>2, <2>1, NoneIsNothing DEF Merged
<1>3. QED
  BY <1>1, <1>2

LEMMA LinkedRow ==
  ASSUME NEW row \in Row \cup {None}, NEW unique
  PROVE  /\ row # None => Linked(row, unique) # None
                          /\ Linked(row, unique).amount = row.amount
         /\ row = None => Linked(row, unique) = None
<1>1. row # None => /\ [row EXCEPT !.linked = unique /\ ~row.ambiguous] \in Row
                    /\ [row EXCEPT !.linked = unique /\ ~row.ambiguous].amount
                         = row.amount
  BY DEF Row
<1>2. QED
  BY <1>1, NoneIsNothing DEF Linked

LEMMA MergeRow ==
  ASSUME EvidenceTypes, NEW a \in Accounts, Merge(a), NEW r \in Requests
  PROVE  LET n == reader[a].rows[r] IN
         /\ cache[r][a] # None => cache'[r][a] # None
                                  /\ cache'[r][a].amount = cache[r][a].amount
         /\ cache[r][a] = None /\ n = 0 => cache'[r][a] = None
         /\ cache[r][a] = None /\ n # 0 => cache'[r][a] # None
                                          /\ cache'[r][a].amount = n
         /\ \A b \in Accounts \ {a} : cache'[r][b] = cache[r][b]
<1> DEFINE n == reader[a].rows[r]
           m == Merged(cache[r][a], n)
           l == Linked(m, r \in reader[a].links)
<1>1. cache[r][a] \in Row \cup {None} /\ n \in Amounts
  BY DEF EvidenceTypes, EvidenceTypeOK, ReaderStates, Readings
<1>2. m \in Row \cup {None}
  BY <1>1, MergedType
<1>3. /\ cache[r][a] # None => m # None /\ m.amount = cache[r][a].amount
      /\ cache[r][a] = None /\ n = 0 => m = None
      /\ cache[r][a] = None /\ n # 0 => m # None /\ m.amount = n
  BY <1>1, MergedRow
<1>4. cache' = [q \in Requests |-> [cache[q] EXCEPT ![a] =
        IF reader[a].pc = "matched"
        THEN Linked(Merged(cache[q][a], reader[a].rows[q]), q \in reader[a].links)
        ELSE Merged(cache[q][a], reader[a].rows[q])]]
  BY DEF Merge
<1>5. cache'[r] = [cache[r] EXCEPT ![a] = IF reader[a].pc = "matched" THEN l ELSE m]
  BY <1>4
<1> HIDE DEF m, n
<1>6. /\ m # None => l # None /\ l.amount = m.amount
      /\ m = None => l = None
  BY <1>2, LinkedRow
<1> HIDE DEF l
<1>7. cache'[r][a] \in {l, m} /\ \A b \in Accounts \ {a} : cache'[r][b] = cache[r][b]
  BY <1>5 DEF EvidenceTypes, EvidenceTypeOK
<1>8. QED
  BY <1>3, <1>6, <1>7 DEF n

LEMMA RowsStayStep ==
  ASSUME EvidenceTypes, [EvidenceNext]_vars PROVE RowsStay
<1>1. ASSUME NEW a \in Accounts, Merge(a) PROVE RowsStay
  BY <1>1, MergeRow DEF RowsStay
<1>2. CASE UNCHANGED cache
  BY <1>2 DEF RowsStay
<1>3. QED
  BY <1>1, <1>2 DEF EvidenceNext, CallStep, ReaderStep, FinalStep, Arrive, Reject,
    Attempt, Send, Rotate, End, Charge, Fetch, Match, DropRead, Look,
    ReadCandidate, CheckSession, RecordReceipt, DropFinal, Crash, vars

(* Each part of the invariant: the action that can disturb it, and the rest. *)
LEMMA ChargesStep ==
  ASSUME EvidenceInv, EvidenceNext PROVE ChargesSession'
<1>1. SessionsGrow
  BY SessionsGrowStep DEF EvidenceInv
<1>2. ASSUME NEW c \in Calls, Send(c) PROVE ChargesSession'
  <2>1. /\ call[c].request \in Requests
        /\ call[c].account \in sessions[call[c].request]
        /\ charge \in [Requests -> [Accounts -> Amounts \cup {None}]]
    BY <1>2 DEF Send, EvidenceInv, EvidenceTypes, EvidenceTypeOK, CallsKnow
  <2>2. \A r \in Requests, a \in Accounts :
          r # call[c].request \/ a # call[c].account => charge'[r][a] = charge[r][a]
    BY <1>2, <2>1 DEF Send
  <2>3. UNCHANGED sessions
    BY <1>2 DEF Send
  <2>4. QED
    BY <2>1, <2>2, <2>3 DEF EvidenceInv, Truth, ChargesSession, Called
<1>3. ASSUME NEW r \in Requests, NEW a \in Accounts, Charge(r, a)
      PROVE  ChargesSession'
  <2>1. \A q \in Requests, b \in Accounts : q # r \/ b # a =>
          charge'[q][b] = charge[q][b]
    BY <1>3 DEF Charge, EvidenceInv, EvidenceTypes, EvidenceTypeOK
  <2>2. QED
    BY <1>3, <2>1 DEF Charge, EvidenceInv, Truth, ChargesSession, Called
<1>4. CASE UNCHANGED charge
  BY <1>1, <1>4 DEF SessionsGrow, EvidenceInv, Truth, ChargesSession, Called
<1>5. QED
  BY <1>2, <1>3, <1>4 DEF EvidenceNext, CallStep, ReaderStep, FinalStep, Arrive,
    Reject, Attempt, Rotate, End, Fetch, Match, Merge, DropRead, Look,
    ReadCandidate, CheckSession, RecordReceipt, DropFinal, Crash

LEMMA ReaderNat ==
  ASSUME EvidenceTypes, NEW a \in Accounts, NEW r \in Requests
  PROVE  reader[a].rows[r] \in Nat
BY EvidenceConstants DEF EvidenceTypes, EvidenceTypeOK, ReaderStates, Readings, Amounts

LEMMA ReaderTrueStep ==
  ASSUME EvidenceInv, EvidenceNext PROVE ReaderTrue'
<1>1. ChargesGrow
  BY ChargesGrowStep DEF EvidenceInv
<1>2. EvidenceTypes /\ ReaderTrue
  BY DEF EvidenceInv, Truth
<1>3. SUFFICES ASSUME NEW a \in Accounts, NEW r \in Requests,
                      reader'[a].rows[r] # 0
               PROVE  Called(r, a)' /\ reader'[a].rows[r] <= charge'[r][a]
  BY DEF ReaderTrue
<1>4. CASE reader'[a].rows = reader[a].rows
  <2>1. reader[a].rows[r] \in Nat /\ reader[a].rows[r] # 0
    BY <1>2, <1>3, <1>4, ReaderNat
  <2>2. Called(r, a) /\ reader[a].rows[r] <= charge[r][a]
    BY <1>2, <2>1 DEF ReaderTrue
  <2>3. QED
    BY <1>1, <1>4, <2>1, <2>2 DEF ChargesGrow
<1>5. CASE reader'[a] = NoReader
  BY <1>3, <1>5 DEF NoReader
<1>6. CASE Fetch(a)
  <2>1. reader'[a].rows[r] = IF Called(r, a) THEN charge[r][a] ELSE 0
    BY <1>2, <1>6 DEF Fetch, EvidenceTypes, EvidenceTypeOK
  <2>2. Called(r, a) /\ UNCHANGED charge
    BY <1>3, <1>6, <2>1 DEF Fetch
  <2>3. QED
    BY <1>2, <2>1, <2>2, ChargeNat DEF Called
<1>7. ASSUME NEW b \in Accounts, ReaderStep(b)
      PROVE  reader'[a].rows = reader[a].rows \/ reader'[a] = NoReader \/ Fetch(a)
  <2>1. reader \in [Accounts -> ReaderStates]
    BY <1>2 DEF EvidenceTypes, EvidenceTypeOK
  <2>2. CASE a # b
    BY <1>7, <2>1, <2>2 DEF ReaderStep, Fetch, Match, Merge, DropRead
  <2>3. CASE a = b /\ Match(b)
    <3> DEFINE L == {q \in Requests : b \in sessions[q] /\ ~Conflicted(q)}
               m == [reader[b] EXCEPT !.pc = "matched", !.links = L]
               u == [reader[b] EXCEPT !.pc = "unmatched"]
    <3>1. reader[b] \in ReaderStates
      BY <2>1
    <3>2. m.rows = reader[b].rows /\ u.rows = reader[b].rows
      BY <3>1 DEF ReaderStates
    <3>3. reader' = [reader EXCEPT ![b] = m] \/ reader' = [reader EXCEPT ![b] = u]
      BY <2>1, <2>3 DEF Match
    <3> HIDE DEF m, u
    <3>4. reader'[b] = m \/ reader'[b] = u
      BY <2>1, <3>3
    <3>5. QED
      BY <2>3, <3>2, <3>4
  <2>4. CASE a = b /\ ~Match(b)
    BY <1>7, <2>1, <2>4 DEF ReaderStep, Merge, DropRead
  <2>5. QED
    BY <2>2, <2>3, <2>4
<1>8. CASE UNCHANGED reader
  BY <1>4, <1>8
<1>9. CASE Crash
  BY <1>5, <1>9 DEF Crash
<1>10. QED
  BY <1>4, <1>5, <1>6, <1>7, <1>8, <1>9 DEF EvidenceNext, CallStep, FinalStep,
    Arrive, Reject, Attempt, Send, Rotate, End, Charge, Look, ReadCandidate,
    CheckSession, RecordReceipt, DropFinal

LEMMA CacheTrueStep ==
  ASSUME EvidenceInv, EvidenceNext PROVE CacheTrue'
<1>1. ChargesGrow /\ RowsStay
  BY ChargesGrowStep, RowsStayStep DEF EvidenceInv
<1>2. EvidenceTypes /\ ReaderTrue /\ CacheTrue
  BY DEF EvidenceInv, Truth
<1>3. SUFFICES ASSUME NEW r \in Requests, NEW a \in Accounts, cache'[r][a] # None
               PROVE  /\ Called(r, a)'
                      /\ 0 < cache'[r][a].amount
                      /\ cache'[r][a].amount <= charge'[r][a]
  BY DEF CacheTrue
<1>4. CASE cache[r][a] # None
  <2>1. cache'[r][a].amount = cache[r][a].amount /\ cache[r][a].amount \in Nat
    BY <1>1, <1>2, <1>4 DEF RowsStay, EvidenceTypes, EvidenceTypeOK, Row, Amounts
  <2>2. QED
    BY <1>1, <1>2, <1>4, <2>1 DEF CacheTrue, ChargesGrow
<1>5. CASE cache[r][a] = None
  <2>1. cache'[r][a] # cache[r][a]
    BY <1>3, <1>5
  <2>2. PICK b \in Accounts : Merge(b)
    BY <2>1 DEF EvidenceNext, CallStep, ReaderStep, FinalStep, Arrive, Reject,
      Attempt, Send, Rotate, End, Charge, Fetch, Match, DropRead, Look,
      ReadCandidate, CheckSession, RecordReceipt, DropFinal, Crash
  <2>3. b = a
    BY <1>2, <2>1, <2>2, MergeRow
  <2>4. reader[a].rows[r] # 0 /\ cache'[r][a].amount = reader[a].rows[r]
    BY <1>2, <1>3, <1>5, <2>2, <2>3, MergeRow
  <2>5. UNCHANGED charge
    BY <2>2 DEF Merge
  <2>6. QED
    BY <1>2, <2>4, <2>5, ReaderNat DEF ReaderTrue, Called
<1>6. QED
  BY <1>4, <1>5

(* What becomes of a billing request that is still on its way after a step:  *)
(* nothing, its start on the only session of its request, or its next step.  *)
Started(f) == UniqueSession(final'[f].request, final'[f].account)
              /\ final'[f].pc = "looked"
Same(f) == final[f].pc # "idle" /\ final'[f].request = final[f].request
           /\ final'[f].account = final[f].account
Carried(f) ==
  final'[f].pc \in {"ready", "checked"} =>
    \/ /\ final[f].pc \in {"ready", "checked"}
       /\ final'[f].amount = final[f].amount
    \/ Read(final[f].request, final[f].account, final'[f].amount)

LEMMA FinalMoves ==
  ASSUME EvidenceTypes, EvidenceNext, NEW f \in Finalizers, final'[f].pc # "idle"
  PROVE  Started(f) \/ (Same(f) /\ Carried(f))
<1>1. final \in [Finalizers -> FinalStates]
  BY DEF EvidenceTypes, EvidenceTypeOK
<1>2. CASE final'[f] = final[f]
  BY <1>2 DEF Same, Carried
<1>3. ASSUME NEW r \in Requests, NEW t \in Tasks \cup {None}, Look(f, r, t)
      PROVE  Started(f)
  <2>1. PICK a \in Accounts : UniqueSession(r, a) /\ final' = [final EXCEPT ![f] =
            [pc |-> "looked", request |-> r, task |-> t, account |-> a,
             amount |-> 0]]
    BY <1>3 DEF Look
  <2>2. final'[f] = [pc |-> "looked", request |-> r, task |-> t, account |-> a,
                     amount |-> 0]
    BY <1>1, <2>1
  <2>3. QED
    BY <2>1, <2>2 DEF Started
<1>4. CASE ReadCandidate(f)
  <2> DEFINE row == cache[final[f].request][final[f].account]
             next == [final[f] EXCEPT !.pc = "ready", !.amount = row.amount]
  <2>1. \/ final' = [final EXCEPT ![f] = NoFinal]
        \/ row # None /\ final' = [final EXCEPT ![f] = next]
    BY <1>4 DEF ReadCandidate, Candidate
  <2>2. final[f].pc = "looked"
    BY <1>4 DEF ReadCandidate
  <2>3. next.request = final[f].request /\ next.account = final[f].account
        /\ next.amount = row.amount
    BY <1>1 DEF FinalStates
  <2> HIDE DEF next
  <2>4. final'[f] = NoFinal \/ (row # None /\ final'[f] = next)
    BY <1>1, <2>1
  <2>5. row # None /\ final'[f] = next
    BY <2>4 DEF NoFinal
  <2>6. QED
    BY <2>2, <2>3, <2>5 DEF Same, Carried, Read
<1>5. CASE CheckSession(f)
  <2> DEFINE next == [final[f] EXCEPT !.pc = "checked"]
  <2>1. final' = [final EXCEPT ![f] = NoFinal] \/ final' = [final EXCEPT ![f] = next]
    BY <1>5 DEF CheckSession
  <2>2. /\ next.request = final[f].request /\ next.account = final[f].account
        /\ next.amount = final[f].amount
    BY <1>1 DEF FinalStates
  <2>3. final[f].pc = "ready"
    BY <1>5 DEF CheckSession
  <2> HIDE DEF next
  <2>4. final'[f] = NoFinal \/ final'[f] = next
    BY <1>1, <2>1
  <2>5. final'[f] = next
    BY <2>4 DEF NoFinal
  <2>6. QED
    BY <2>2, <2>3, <2>5 DEF Same, Carried
<1>6. CASE RecordReceipt(f) \/ DropFinal(f) \/ Crash
  BY <1>1, <1>6 DEF RecordReceipt, DropFinal, Crash, NoFinal
<1>7. ASSUME NEW g \in Finalizers \ {f}, FinalStep(g)
      PROVE  final'[f] = final[f]
  BY <1>1, <1>7 DEF FinalStep, Look, ReadCandidate, CheckSession, RecordReceipt,
    DropFinal
<1>8. CASE UNCHANGED final
  BY <1>2, <1>8
<1>9. QED
  BY <1>2, <1>3, <1>4, <1>5, <1>6, <1>7, <1>8 DEF EvidenceNext, CallStep,
    ReaderStep, FinalStep, Arrive, Reject, Attempt, Send, Rotate, End, Charge,
    Fetch, Match, Merge, DropRead

LEMMA FinalsReadStep ==
  ASSUME EvidenceInv, EvidenceNext PROVE FinalsRead'
<1>1. RowsStay /\ EvidenceTypes /\ FinalsRead
  BY RowsStayStep DEF EvidenceInv, Truth
<1>2. SUFFICES ASSUME NEW f \in Finalizers, final'[f].pc \in {"ready", "checked"}
               PROVE  Read(final[f].request, final[f].account, final[f].amount)'
  BY DEF FinalsRead
<1>3. Same(f) /\ Carried(f)
  BY <1>1, <1>2, FinalMoves DEF Started
<1>4. final[f].request \in Requests /\ final[f].account \in Accounts
  BY <1>1, <1>3 DEF Same, EvidenceTypes, EvidenceTypeOK, FinalsKnow
<1>5. Read(final[f].request, final[f].account, final'[f].amount)
  BY <1>1, <1>2, <1>3 DEF Carried, FinalsRead
<1>6. QED
  BY <1>1, <1>3, <1>4, <1>5 DEF Read, RowsStay, Same

LEMMA OneAccountStep ==
  ASSUME EvidenceInv, EvidenceNext PROVE OneAccount'
<1>1. EvidenceTypes /\ OneAccount
  BY DEF EvidenceInv, Truth
<1>2. SUFFICES ASSUME NEW f \in Finalizers, NEW g \in Finalizers,
                      final'[f].pc # "idle", final'[g].pc # "idle",
                      final'[f].request = final'[g].request
               PROVE  final'[f].account = final'[g].account
  BY DEF OneAccount
<1>3. \A h \in {f, g} : Started(h) \/ Same(h)
  BY <1>1, <1>2, FinalMoves
<1>4. \A h \in {f, g} : Same(h) => final'[h].account \in sessions[final'[h].request]
  BY <1>1 DEF Same, EvidenceTypes, FinalsKnow
<1>5. \A h \in {f, g} : Started(h) =>
        sessions[final'[h].request] = {final'[h].account}
  BY DEF Started, UniqueSession
<1>6. CASE Same(f) /\ Same(g)
  BY <1>1, <1>2, <1>6 DEF Same, OneAccount
<1>7. QED
  BY <1>2, <1>3, <1>4, <1>5, <1>6

(* The store refuses a session once a receipt is written.                    *)
LEMMA NoSessionAfterReceipt ==
  ASSUME EvidenceTypes, [EvidenceNext]_vars, NEW r \in Requests, receipt[r] # None
  PROVE  sessions'[r] = sessions[r]
<1>1. ASSUME NEW c \in Calls, NEW a \in Accounts, Attempt(c, a)
      PROVE  sessions'[r] = sessions[r]
  <2>1. CASE MayAttempt(call[c].request)
    <3>1. call[c].request # r
      BY <2>1 DEF MayAttempt
    <3>2. sessions' = [sessions EXCEPT ![call[c].request] = @ \cup {a}]
      BY <1>1, <2>1 DEF Attempt
    <3>3. QED
      BY <3>1, <3>2 DEF EvidenceTypes, EvidenceTypeOK
  <2>2. CASE ~MayAttempt(call[c].request)
    BY <1>1, <2>2 DEF Attempt
  <2>3. QED
    BY <2>1, <2>2
<1>2. CASE UNCHANGED sessions
  BY <1>2
<1>3. QED
  BY <1>1, <1>2 DEF EvidenceNext, CallStep, ReaderStep, FinalStep, Arrive, Reject,
    Send, Rotate, End, Charge, Fetch, Match, Merge, DropRead, Look, ReadCandidate,
    CheckSession, RecordReceipt, DropFinal, Crash, vars

(* How a receipt changes: written by a rejection, or by a billing request.   *)
Rejected(r) == receipt[r] = None /\ sessions[r] = {} /\ UNCHANGED sessions
               /\ receipt'[r].source = NoCharge
Found(f, r) == RecordReceipt(f) /\ final[f].request = r
               /\ receipt'[r] = Stored(receipt[r], Finding(f))

LEMMA ReceiptMoves ==
  ASSUME EvidenceTypes, [EvidenceNext]_vars, NEW r \in Requests,
         receipt'[r] # receipt[r]
  PROVE  Rejected(r) \/ \E f \in Finalizers : Found(f, r)
<1>1. receipt \in [Requests -> Receipts \cup {None}]
  BY DEF EvidenceTypes, EvidenceTypeOK
<1>2. ASSUME NEW c \in Calls, Reject(c) PROVE Rejected(r)
  <2> DEFINE new == [status |-> "final", source |-> NoCharge, amount |-> 0,
                     task |-> None]
  <2>1. MayProveNoCharge(call[c].request)
        /\ receipt' = [receipt EXCEPT ![call[c].request] = new]
    BY <1>2 DEF Reject
  <2>2. new.source = NoCharge
    OBVIOUS
  <2> HIDE DEF new
  <2>3. call[c].request = r /\ receipt'[r] = new
    BY <1>1, <2>1
  <2>4. QED
    BY <1>2, <2>1, <2>2, <2>3 DEF Rejected, MayProveNoCharge, Reject
<1>3. ASSUME NEW f \in Finalizers, RecordReceipt(f) PROVE Found(f, r)
  <2>1. receipt' = [receipt EXCEPT ![final[f].request] =
                      Stored(receipt[final[f].request], Finding(f))]
    BY <1>3 DEF RecordReceipt
  <2>2. final[f].request = r
    BY <1>1, <2>1
  <2>3. QED
    BY <1>1, <1>3, <2>1, <2>2 DEF Found
<1>4. ~UNCHANGED receipt
  OBVIOUS
<1>5. QED
  BY <1>2, <1>3, <1>4 DEF EvidenceNext, CallStep, ReaderStep, FinalStep, Arrive,
    Attempt, Send, Rotate, End, Charge, Fetch, Match, Merge, DropRead, Look,
    ReadCandidate, CheckSession, DropFinal, Crash, vars

LEMMA ReceiptTrueStep ==
  ASSUME EvidenceInv, EvidenceNext PROVE ReceiptTrue'
<1>1. /\ EvidenceTypes /\ FinalsRead /\ OneAccount /\ ReceiptTrue
      /\ RowsStay /\ SessionsGrow
  BY RowsStayStep, SessionsGrowStep DEF EvidenceInv, Truth
<1>2. SUFFICES ASSUME NEW r \in Requests, HasFinal(r)'
               PROVE  IF receipt'[r].source = NoCharge THEN sessions'[r] = {}
                      ELSE /\ receipt'[r].source \in sessions'[r]
                           /\ Read(r, receipt[r].source, receipt[r].amount)'
                           /\ \A f \in Finalizers :
                                final'[f].pc # "idle" /\ final'[f].request = r =>
                                  final'[f].account = receipt'[r].source
  BY DEF ReceiptTrue
<1>3. receipt[r] \in Receipts \cup {None} /\ sessions[r] \subseteq Accounts
  BY <1>1 DEF EvidenceTypes, EvidenceTypeOK
<1>4. CASE receipt'[r] = receipt[r]
  <2>1. HasFinal(r) /\ receipt[r] # None
    BY <1>2, <1>4 DEF HasFinal
  <2>2. sessions'[r] = sessions[r]
    BY <1>1, <2>1, NoSessionAfterReceipt
  <2>3. CASE receipt[r].source = NoCharge
    BY <1>1, <1>4, <2>1, <2>2, <2>3 DEF ReceiptTrue
  <2>4. CASE receipt[r].source # NoCharge
    <3>1. receipt[r].source \in sessions[r]
          /\ Read(r, receipt[r].source, receipt[r].amount)
      BY <1>1, <2>1, <2>4 DEF ReceiptTrue
    <3>2. Read(r, receipt[r].source, receipt[r].amount)'
      BY <1>1, <1>3, <1>4, <3>1 DEF Read, RowsStay
    <3>3. ASSUME NEW f \in Finalizers, final'[f].pc # "idle",
                 final'[f].request = r
          PROVE  final'[f].account = receipt[r].source
      <4>1. Started(f) \/ Same(f)
        BY <1>1, <3>3, FinalMoves
      <4>2. CASE Started(f)
        BY <3>1, <3>3, <4>2 DEF Started, UniqueSession
      <4>3. CASE Same(f)
        BY <1>1, <2>1, <2>4, <3>3, <4>3 DEF Same, ReceiptTrue
      <4>4. QED
        BY <4>1, <4>2, <4>3
    <3>4. QED
      BY <1>4, <2>2, <2>4, <3>1, <3>2, <3>3
  <2>5. QED
    BY <2>3, <2>4
<1>5. CASE Rejected(r)
  BY <1>2, <1>5 DEF Rejected
<1>6. ASSUME NEW f \in Finalizers, Found(f, r), receipt'[r] # receipt[r]
      PROVE  receipt[r] = None /\ receipt'[r] = Finding(f)
  <2>1. CASE receipt[r] = None
    BY <1>6, <2>1 DEF Found, Stored
  <2>2. CASE receipt[r] # None
    <3>1. receipt'[r] = [receipt[r] EXCEPT !.status = "conflict", !.amount = 0]
      BY <1>6, <2>2 DEF Found, Stored
    <3>2. receipt'[r].status = "conflict"
      BY <1>3, <2>2, <3>1 DEF Receipts
    <3>3. QED
      BY <1>2, <3>2 DEF HasFinal
  <2>3. QED
    BY <2>1, <2>2
<1>7. ASSUME NEW f \in Finalizers, Found(f, r), receipt'[r] = Finding(f)
      PROVE  IF receipt'[r].source = NoCharge THEN sessions'[r] = {}
             ELSE /\ receipt'[r].source \in sessions'[r]
                  /\ Read(r, receipt[r].source, receipt[r].amount)'
                  /\ \A g \in Finalizers :
                       final'[g].pc # "idle" /\ final'[g].request = r =>
                         final'[g].account = receipt'[r].source
  <2>1. final[f].pc = "checked" /\ final[f].request = r
        /\ final' = [final EXCEPT ![f] = NoFinal]
    BY <1>7 DEF Found, RecordReceipt
  <2>2. final[f].account \in sessions[r] /\ final[f].account \in Accounts
    BY <1>1, <2>1 DEF EvidenceTypes, EvidenceTypeOK, FinalsKnow
  <2>3. Read(r, final[f].account, final[f].amount)
    BY <1>1, <2>1 DEF FinalsRead
  <2>4. receipt'[r].source = final[f].account /\ receipt'[r].amount = final[f].amount
    BY <1>7 DEF Finding
  <2>5. ASSUME NEW g \in Finalizers, final'[g].pc # "idle", final'[g].request = r
        PROVE  final'[g].account = final[f].account
    <3>1. Started(g) \/ Same(g)
      BY <1>1, <2>5, FinalMoves
    <3>2. CASE Started(g)
      BY <2>2, <2>5, <3>2 DEF Started, UniqueSession
    <3>3. CASE Same(g)
      BY <1>1, <2>1, <2>5, <3>3 DEF Same, OneAccount
    <3>4. QED
      BY <3>1, <3>2, <3>3
  <2>6. receipt'[r].source # NoCharge
    BY <2>2, <2>4, NoneIsNothing
  <2>7. Read(r, receipt[r].source, receipt[r].amount)'
    BY <1>1, <2>2, <2>3, <2>4 DEF Read, RowsStay
  <2>8. receipt'[r].source \in sessions'[r]
    BY <1>1, <2>2, <2>4 DEF SessionsGrow
  <2>9. QED
    BY <2>4, <2>5, <2>6, <2>7, <2>8
<1>8. CASE receipt'[r] # receipt[r]
  BY <1>1, <1>5, <1>6, <1>7, <1>8, ReceiptMoves
<1>9. QED
  BY <1>4, <1>8

LEMMA InvStep ==
  ASSUME EvidenceInv, [EvidenceNext]_vars PROVE EvidenceInv'
<1>1. CASE EvidenceNext
  BY <1>1, TypesStep, ChargesStep, ReaderTrueStep, CacheTrueStep, FinalsReadStep,
    OneAccountStep, ReceiptTrueStep DEF EvidenceInv, Truth
<1>2. CASE UNCHANGED vars
  <2>1. EvidenceTypes'
    BY TypesStep DEF EvidenceInv
  <2>2. Truth'
    BY <1>2 DEF vars, EvidenceInv, Truth, ChargesSession, ReaderTrue, CacheTrue,
      FinalsRead, OneAccount, ReceiptTrue, Called, HasFinal, Read
  <2>3. QED
    BY <2>1, <2>2 DEF EvidenceInv
<1>3. QED
  BY <1>1, <1>2

LEMMA InvHolds == EvidenceSpec => []EvidenceInv
<1>1. EvidenceInit => EvidenceInv
  BY TypesInit, TruthInit DEF EvidenceInv
<1>2. EvidenceInv /\ [EvidenceNext]_vars => EvidenceInv'
  BY InvStep
<1>3. QED
  BY <1>1, <1>2, PTL DEF EvidenceSpec

(* A final receipt of no charge is of a request nothing was ever sent for,   *)
(* and one with an amount says what the upstream charged, at least, on a     *)
(* session of the request.                                                   *)
THEOREM FinalsAreBacked == EvidenceSpec => []FinalIsBacked
<1>1. EvidenceInv => FinalIsBacked
  <2> SUFFICES ASSUME EvidenceInv, NEW r \in Requests, HasFinal(r)
               PROVE  IF receipt[r].source = NoCharge
                      THEN sessions[r] = {} /\ \A a \in Accounts : ~Called(r, a)
                      ELSE LET a == receipt[r].source
                           IN /\ a \in sessions[r] /\ Called(r, a)
                              /\ 0 < receipt[r].amount
                              /\ receipt[r].amount <= charge[r][a]
    BY DEF FinalIsBacked
  <2>1. ReceiptTrue /\ ChargesSession /\ CacheTrue
        /\ sessions \in [Requests -> SUBSET Accounts]
    BY DEF EvidenceInv, Truth, EvidenceTypes, EvidenceTypeOK
  <2>2. CASE receipt[r].source = NoCharge
    BY <2>1, <2>2 DEF ReceiptTrue, ChargesSession
  <2>3. CASE receipt[r].source # NoCharge
    <3>1. receipt[r].source \in sessions[r] /\ receipt[r].source \in Accounts
          /\ Read(r, receipt[r].source, receipt[r].amount)
      BY <2>1, <2>3 DEF ReceiptTrue
    <3>2. QED
      BY <2>1, <2>3, <3>1 DEF Read, CacheTrue
  <2>4. QED
    BY <2>2, <2>3
<1>2. QED
  BY <1>1, InvHolds, PTL

(* A request keeps its first claim, a conflict stays, a written receipt only *)
(* goes from final to conflict and closes the request for new sessions.      *)
THEOREM EvidenceOnlyHardens == EvidenceSpec => EvidenceHardens
<1>1. ASSUME EvidenceInv, [EvidenceNext]_vars, NEW r \in Requests PROVE Hardens(r)
  <2>1. EvidenceTypes
    BY <1>1 DEF EvidenceInv
  <2>2. Recorded(r) => /\ request'[r].claim = request[r].claim
                       /\ Conflicted(r) => request'[r].conflict
    <3>1. request \in [Requests -> [claim : Claims, conflict : BOOLEAN] \cup {None}]
      BY <2>1 DEF EvidenceTypes, EvidenceTypeOK
    <3>2. ASSUME NEW q \in Requests, NEW claim \in Claims, RecordRequest(q, claim),
                 Recorded(r)
          PROVE  /\ request'[r].claim = request[r].claim
                 /\ Conflicted(r) => request'[r].conflict
      <4>1. \/ request' = request
            \/ ~Recorded(q) /\ request' =
                 [request EXCEPT ![q] = [claim |-> claim, conflict |-> FALSE]]
            \/ Recorded(q) /\ request' = [request EXCEPT ![q].conflict = TRUE]
        BY <3>2, Zenon DEF RecordRequest
      <4>2. QED
        BY <3>1, <3>2, <4>1 DEF Recorded, Conflicted
    <3>3. UNCHANGED request \/ \E q \in Requests, claim \in Claims : RecordRequest(q, claim)
      BY <1>1 DEF EvidenceNext, CallStep, ReaderStep, FinalStep, Arrive, Reject,
        Attempt, Send, Rotate, End, Charge, Fetch, Match, Merge, DropRead, Look,
        ReadCandidate, CheckSession, RecordReceipt, DropFinal, Crash, vars
    <3>4. QED
      BY <3>2, <3>3 DEF Conflicted
  <2>3. ASSUME receipt[r] # None
        PROVE  /\ sessions'[r] = sessions[r]
               /\ \/ receipt'[r] = receipt[r]
                  \/ HasFinal(r) /\ receipt'[r].status = "conflict"
    <3>1. sessions'[r] = sessions[r]
      BY <1>1, <2>1, <2>3, NoSessionAfterReceipt
    <3>2. receipt[r] \in Receipts
      BY <2>1, <2>3 DEF EvidenceTypes, EvidenceTypeOK
    <3>3. ASSUME receipt'[r] # receipt[r]
          PROVE  HasFinal(r) /\ receipt'[r].status = "conflict"
      <4>1. PICK f \in Finalizers : Found(f, r)
        BY <1>1, <2>1, <2>3, <3>3, ReceiptMoves DEF Rejected
      <4>2. receipt[r].status # "conflict"
            /\ receipt'[r] = [receipt[r] EXCEPT !.status = "conflict", !.amount = 0]
        BY <2>3, <3>3, <4>1 DEF Found, Stored
      <4>3. QED
        BY <2>3, <3>2, <4>2 DEF HasFinal, Receipts
    <3>4. QED
      BY <3>1, <3>3
  <2>4. QED
    BY <2>2, <2>3 DEF Hardens
<1>2. EvidenceInv /\ [EvidenceNext]_vars => [\A r \in Requests : Hardens(r)]_vars
  BY <1>1
<1>3. QED
  BY <1>2, InvHolds, PTL DEF EvidenceSpec, EvidenceHardens

(* Billing requests for the same thing never disagree: a receipt goes into   *)
(* conflict only for another task.                                           *)
THEOREM SameThingSameReceipt == EvidenceSpec => OnlyTasksDisagree
<1>1. ASSUME EvidenceInv, NEW f \in Finalizers, RecordReceipt(f),
             NEW r \in Requests, HasFinal(r), receipt'[r].status = "conflict"
      PROVE  receipt[r].task # final[f].task
  <2>1. EvidenceTypes /\ FinalsRead /\ ReceiptTrue
    BY <1>1 DEF EvidenceInv, Truth
  <2>2. receipt[r] \in Receipts /\ receipt[r].status = "final"
    BY <1>1, <2>1 DEF HasFinal, EvidenceTypes, EvidenceTypeOK
  <2>3. receipt'[r] # receipt[r]
    BY <1>1, <2>2
  <2>4. /\ final[f].pc = "checked" /\ final[f].request \in Requests
        /\ receipt' = [receipt EXCEPT ![final[f].request] =
                         Stored(receipt[final[f].request], Finding(f))]
    BY <1>1, <2>1 DEF RecordReceipt, EvidenceTypes, FinalsKnow
  <2>5. final[f].request = r /\ receipt'[r] = Stored(receipt[r], Finding(f))
    BY <2>1, <2>3, <2>4 DEF EvidenceTypes, EvidenceTypeOK
  <2>6. receipt[r] # Finding(f)
    BY <1>1, <2>3, <2>5 DEF Stored, HasFinal
  <2>7. final[f].account \in sessions[r] /\ Read(r, final[f].account, final[f].amount)
    BY <2>1, <2>4, <2>5 DEF EvidenceTypes, FinalsKnow, FinalsRead
  <2>8. receipt[r].source = final[f].account
        /\ Read(r, receipt[r].source, receipt[r].amount)
    BY <1>1, <2>1, <2>4, <2>5, <2>7 DEF ReceiptTrue
  <2>9. receipt[r].amount = final[f].amount
    BY <2>7, <2>8 DEF Read
  <2>10. QED
    BY <2>2, <2>6, <2>8, <2>9 DEF Finding, Receipts
<1>2. EvidenceInv /\ [EvidenceNext]_vars =>
        [\A f \in Finalizers : RecordReceipt(f) =>
           \A r \in Requests :
             HasFinal(r) /\ receipt'[r].status = "conflict" =>
               receipt[r].task # final[f].task]_vars
  BY <1>1
<1>3. QED
  BY <1>2, InvHolds, PTL DEF EvidenceSpec, OnlyTasksDisagree
=============================================================================
