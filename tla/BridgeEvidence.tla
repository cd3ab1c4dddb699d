--------------------------- MODULE BridgeEvidence ---------------------------
(* What the gateway knows of the cost of a request the Core sent over the    *)
(* bridge (api_server/bridge_billing.rs) and where it learns it:             *)
(*   - auth.rs records the request under the key and mode of its headers,    *)
(*   - a call (routes.rs, video.rs) records every upstream session before it *)
(*     uses it; the session id is a digest of request and account, so that a *)
(*     session is a pair of these here and is never shared by two requests,  *)
(*   - commands/usage_history.rs reads what the upstream charged for each    *)
(*     session into a cache, one reader per account at a time,               *)
(*   - the Core asks for a final receipt (bridge_api.rs), several times and  *)
(*     concurrently if it likes; each asks the store, the cache, the store   *)
(*     again, and writes: four steps, with the others in between.            *)
(* Only the last of these is a transaction together with what it decides on. *)
(* SQLite and the cache file survive a crash, calls and readers do not.      *)
(* Left out: receipts of unverified sources, which only tests record; calls  *)
(* with a budget, which BridgeBudget describes.                              *)
EXTENDS Naturals, FiniteSets

CONSTANTS Requests,    \* Core request ids
          Accounts,    \* accounts of the gateway's pool
          Keys,        \* Core keys
          Calls,       \* HTTP requests that reach the gateway
          Finalizers,  \* billing requests of the Core
          Tasks,       \* references of video tasks
          MaxCharge,   \* bound: credits charged for any two sessions of a request
          None         \* no claim, no receipt, no row, no task

Modes == {"quoted", "controlled"}
Claims == [key : Keys, mode : Modes]
Amounts == 0 .. MaxCharge
NoCharge == "no_charge"        \* source aiwork-pre-dispatch-no-charge
Sources == Accounts \cup {NoCharge}

VARIABLES request,   \* bridge_core_requests and their modes
          sessions,  \* bridge_core_upstream_sessions: accounts of a request
          receipt,   \* bridge_billing_receipts
          charge,    \* what the upstream has charged for a session, if called
          cache,     \* usage_history.json: session_usage of each account
          reader,    \* a refresh of one account, under its account_refresh_lock
          call,      \* progress of each HTTP request
          final      \* progress of each billing request
storeVars == <<request, sessions, receipt>>
vars == <<request, sessions, receipt, charge, cache, reader, call, final>>

Row == [amount : Amounts, ambiguous : BOOLEAN, linked : BOOLEAN]
Readings == [Requests -> Amounts]      \* 0: the history has no row
ReaderStates ==
  [pc : {"idle", "fetched", "matched", "unmatched"}, rows : Readings,
   links : SUBSET Requests]
NoReader == [pc |-> "idle", rows |-> [r \in Requests |-> 0], links |-> {}]
CallStates ==
  [pc : {"new", "accepted", "attempted", "sent", "done"},
   request : Requests \cup {None}, claim : Claims \cup {None},
   account : Accounts \cup {None}, tried : SUBSET Accounts]
NewCall == [pc |-> "new", request |-> None, claim |-> None, account |-> None,
            tried |-> {}]
Done == [NewCall EXCEPT !.pc = "done"]
Receipts == [status : {"final", "conflict"}, source : Sources,
             amount : Amounts, task : Tasks \cup {None}]
FinalStates ==
  [pc : {"idle", "looked", "ready", "checked"}, request : Requests \cup {None},
   task : Tasks \cup {None}, account : Accounts \cup {None}, amount : Amounts]
NoFinal == [pc |-> "idle", request |-> None, task |-> None, account |-> None,
            amount |-> 0]

\* None and NoCharge are nothing else
ASSUME EvidenceConstants ==
  /\ MaxCharge \in Nat
  /\ NoCharge \notin Accounts
  /\ None \notin Nat /\ None \notin Accounts /\ None \notin Tasks
  /\ None \notin Claims /\ None \notin Row /\ None \notin Receipts

Recorded(r) == request[r] # None
Conflicted(r) == Recorded(r) /\ request[r].conflict
HasFinal(r) == receipt[r] # None /\ receipt[r].status = "final"
Called(r, a) == charge[r][a] # None

\* core_session_for_request answers Unique
UniqueSession(r, a) == Recorded(r) /\ ~Conflicted(r) /\ sessions[r] = {a}
-----------------------------------------------------------------------------
(* The way of a call                                                         *)

\* record_core_request_with_billing_mode: the first claim is recorded, the
\* same one may come again, any other marks the request for good
RecordRequest(r, claim) ==
  IF ~Recorded(r)
  THEN request' = [request EXCEPT ![r] = [claim |-> claim, conflict |-> FALSE]]
  ELSE request' = IF request[r].claim = claim THEN request
                  ELSE [request EXCEPT ![r].conflict = TRUE]

\* persist_core_attribution refuses a conflicting request
Arrive(c, r, claim) ==
  /\ call[c].pc = "new"
  /\ RecordRequest(r, claim)
  /\ call' = [call EXCEPT ![c] =
       IF request'[r].conflict THEN Done
       ELSE [NewCall EXCEPT !.pc = "accepted", !.request = r, !.claim = claim]]
  /\ UNCHANGED <<sessions, receipt, charge, cache, reader, final>>

\* controlled_video_pre_dispatch_rejection: the call ends before any upstream
\* is asked and record_controlled_pre_dispatch_no_charge tries to say so
FaultyMayProveNoCharge(r) ==     \* forgets that a session was attempted
  /\ ~Conflicted(r) /\ request[r].claim.mode = "controlled"
  /\ receipt[r] = None

MayProveNoCharge(r) ==
  /\ ~Conflicted(r) /\ request[r].claim.mode = "controlled"
  /\ sessions[r] = {} /\ receipt[r] = None

Reject(c) ==
  LET r == call[c].request
  IN /\ call[c].pc = "accepted" /\ call[c].tried = {}
     /\ call[c].claim.mode = "controlled"
     /\ call' = [call EXCEPT ![c] = Done]
     /\ receipt' = IF MayProveNoCharge(r)
                   THEN [receipt EXCEPT ![r] =
                           [status |-> "final", source |-> NoCharge,
                            amount |-> 0, task |-> None]]
                   ELSE receipt
     /\ UNCHANGED <<request, sessions, charge, cache, reader, final>>

\* record_core_session_attempt: nothing is sent for a request whose claim is
\* in conflict or whose receipt is written
FaultyMayAttempt(r) == ~Conflicted(r)     \* ignores the receipt

MayAttempt(r) == ~Conflicted(r) /\ receipt[r] = None

Attempt(c, a) ==
  LET r == call[c].request
  IN /\ call[c].pc = "accepted" /\ a \notin call[c].tried
     /\ IF MayAttempt(r)
        THEN /\ sessions' = [sessions EXCEPT ![r] = @ \cup {a}]
             /\ call' = [call EXCEPT ![c] =
                  [@ EXCEPT !.pc = "attempted", !.account = a,
                            !.tried = call[c].tried \cup {a}]]
        ELSE /\ call' = [call EXCEPT ![c] = Done]
             /\ UNCHANGED sessions
     /\ UNCHANGED <<request, receipt, charge, cache, reader, final>>

\* The upstream is asked, after a retry on the same account once more
Send(c) ==
  LET r == call[c].request
      a == call[c].account
  IN /\ call[c].pc = "attempted"
     /\ call' = [call EXCEPT ![c].pc = "sent"]
     /\ charge' = [charge EXCEPT ![r][a] = IF @ = None THEN 0 ELSE @]
     /\ UNCHANGED <<request, sessions, receipt, cache, reader, final>>

\* core_account_rotations, can_retry_account: a controlled request stays on
\* its account, any other may try the next one
Rotate(c) ==
  /\ call[c].pc = "sent" /\ call[c].claim.mode # "controlled"
  /\ call' = [call EXCEPT ![c].pc = "accepted"]
  /\ UNCHANGED <<request, sessions, receipt, charge, cache, reader, final>>

\* The call answers, fails, or finds no account that is left
End(c) ==
  /\ call[c].pc \in {"accepted", "attempted", "sent"}
  /\ call' = [call EXCEPT ![c] = Done]
  /\ UNCHANGED <<request, sessions, receipt, charge, cache, reader, final>>

\* The upstream charges for a session it was asked on, possibly late
Charge(r, a) ==
  /\ Called(r, a) /\ charge[r][a] < MaxCharge
  /\ \A b \in Accounts \ {a} :
       Called(r, b) => charge[r][a] + charge[r][b] < MaxCharge
  /\ charge' = [charge EXCEPT ![r][a] = @ + 1]
  /\ UNCHANGED <<request, sessions, receipt, cache, reader, call, final>>
-----------------------------------------------------------------------------
(* Usage history                                                             *)

\* Background polls ask for accounts with pending sessions, the user for all
Fetch(a) ==
  /\ reader[a].pc = "idle"
  /\ reader' = [reader EXCEPT ![a] =
       [pc |-> "fetched", links |-> {},
        rows |-> [r \in Requests |->
                    IF Called(r, a) THEN charge[r][a] ELSE 0]]]
  /\ UNCHANGED <<request, sessions, receipt, charge, cache, call, final>>

\* match_core_usage_sessions, one look at the store; it may fail
Match(a) ==
  /\ reader[a].pc = "fetched"
  /\ \/ reader' = [reader EXCEPT ![a] = [@ EXCEPT !.pc = "matched",
          !.links = {r \in Requests : a \in sessions[r] /\ ~Conflicted(r)}]]
     \/ reader' = [reader EXCEPT ![a] = [@ EXCEPT !.pc = "unmatched"]]
  /\ UNCHANGED <<request, sessions, receipt, charge, cache, call, final>>

\* merge_session_usage: the first row of a session stays, another one that
\* differs makes it ambiguous
FaultyLastReading(row, amount) ==     \* the last row replaces the first
  IF amount = 0 THEN row
  ELSE [amount |-> amount, ambiguous |-> FALSE, linked |-> FALSE]

Merged(row, amount) ==
  IF amount = 0 THEN row
  ELSE IF row = None
  THEN [amount |-> amount, ambiguous |-> FALSE, linked |-> FALSE]
  ELSE IF row.amount = amount THEN row
  ELSE [row EXCEPT !.ambiguous = TRUE, !.linked = FALSE]

\* apply_one_core_usage_match
Linked(row, unique) ==
  IF row = None THEN None
  ELSE [row EXCEPT !.linked = unique /\ ~row.ambiguous]

Merge(a) ==
  /\ reader[a].pc \in {"matched", "unmatched"}
  /\ cache' = [r \in Requests |-> [cache[r] EXCEPT ![a] =
       LET row == Merged(@, reader[a].rows[r])
       IN IF reader[a].pc = "matched"
          THEN Linked(row, r \in reader[a].links) ELSE row]]
  /\ reader' = [reader EXCEPT ![a] = NoReader]
  /\ UNCHANGED <<request, sessions, receipt, charge, call, final>>

\* The read, the merge or the write of the file fails, or the refresh stops
DropRead(a) ==
  /\ reader[a].pc # "idle"
  /\ reader' = [reader EXCEPT ![a] = NoReader]
  /\ UNCHANGED <<request, sessions, receipt, charge, cache, call, final>>
-----------------------------------------------------------------------------
(* finalize_video_billing (with a task) and finalize_chat_billing (without)  *)

\* A final receipt answers a chat unless it is of a task, and a video unless
\* it has no task
Answered(r, t) == HasFinal(r) /\ (t = None \/ receipt[r].task # None)

Look(f, r, t) ==
  /\ final[f].pc = "idle" /\ ~Answered(r, t)
  /\ \E a \in Accounts :
       /\ UniqueSession(r, a)
       /\ final' = [final EXCEPT ![f] =
            [pc |-> "looked", request |-> r, task |-> t, account |-> a,
             amount |-> 0]]
  /\ UNCHANGED <<request, sessions, receipt, charge, cache, reader, call>>

\* core_usage_receipt_candidate
Candidate(r, a) == cache[r][a] # None /\ cache[r][a].linked
                   /\ ~cache[r][a].ambiguous

ReadCandidate(f) ==
  LET r == final[f].request
      a == final[f].account
  IN /\ final[f].pc = "looked"
     /\ final' = [final EXCEPT ![f] =
          IF Candidate(r, a)
          THEN [@ EXCEPT !.pc = "ready", !.amount = cache[r][a].amount]
          ELSE NoFinal]
     /\ UNCHANGED <<request, sessions, receipt, charge, cache, reader, call>>

\* record_core_session_receipt looks again, outside of the transaction
CheckSession(f) ==
  /\ final[f].pc = "ready"
  /\ final' = [final EXCEPT ![f] =
       IF UniqueSession(final[f].request, final[f].account)
       THEN [@ EXCEPT !.pc = "checked"] ELSE NoFinal]
  /\ UNCHANGED <<request, sessions, receipt, charge, cache, reader, call>>

Finding(f) == [status |-> "final", source |-> final[f].account,
               amount |-> final[f].amount, task |-> final[f].task]

\* record_receipt with an authorized session as its source: the first one is
\* stored, the same one is a duplicate, another one leaves no amount at all
Stored(old, new) ==
  IF old = None THEN new
  ELSE IF old.status = "conflict" \/ old = new THEN old
  ELSE [old EXCEPT !.status = "conflict", !.amount = 0]

RecordReceipt(f) ==
  LET r == final[f].request
  IN /\ final[f].pc = "checked"
     /\ receipt' = [receipt EXCEPT ![r] = Stored(@, Finding(f))]
     /\ final' = [final EXCEPT ![f] = NoFinal]
     /\ UNCHANGED <<request, sessions, charge, cache, reader, call>>

\* The Core's request is cut off, or the store can not be opened
DropFinal(f) ==
  /\ final[f].pc # "idle"
  /\ final' = [final EXCEPT ![f] = NoFinal]
  /\ UNCHANGED <<request, sessions, receipt, charge, cache, reader, call>>

\* The process dies: what it was doing is gone, what it wrote is not
Crash ==
  /\ call' = [c \in Calls |-> IF call[c].pc = "new" THEN call[c] ELSE Done]
  /\ reader' = [a \in Accounts |-> NoReader]
  /\ final' = [f \in Finalizers |-> NoFinal]
  /\ UNCHANGED <<request, sessions, receipt, charge, cache>>
-----------------------------------------------------------------------------
EvidenceInit ==
  /\ request = [r \in Requests |-> None]
  /\ sessions = [r \in Requests |-> {}]
  /\ receipt = [r \in Requests |-> None]
  /\ charge = [r \in Requests |-> [a \in Accounts |-> None]]
  /\ cache = [r \in Requests |-> [a \in Accounts |-> None]]
  /\ reader = [a \in Accounts |-> NoReader]
  /\ call = [c \in Calls |-> NewCall]
  /\ final = [f \in Finalizers |-> NoFinal]

CallStep(c) ==
  \/ \E r \in Requests, claim \in Claims : Arrive(c, r, claim)
  \/ Reject(c)
  \/ \E a \in Accounts : Attempt(c, a)
  \/ Send(c) \/ Rotate(c) \/ End(c)

ReaderStep(a) == Fetch(a) \/ Match(a) \/ Merge(a) \/ DropRead(a)

FinalStep(f) ==
  \/ \E r \in Requests, t \in Tasks \cup {None} : Look(f, r, t)
  \/ ReadCandidate(f) \/ CheckSession(f) \/ RecordReceipt(f) \/ DropFinal(f)

EvidenceNext ==
  \/ \E c \in Calls : CallStep(c)
  \/ \E r \in Requests, a \in Accounts : Charge(r, a)
  \/ \E a \in Accounts : ReaderStep(a)
  \/ \E f \in Finalizers : FinalStep(f)
  \/ Crash

EvidenceSpec == EvidenceInit /\ [][EvidenceNext]_vars
-----------------------------------------------------------------------------
(* Every table keeps the type of its columns, and every step in progress the *)
(* type of what it remembers.                                                *)
EvidenceTypeOK ==
  /\ request \in [Requests -> [claim : Claims, conflict : BOOLEAN] \cup {None}]
  /\ sessions \in [Requests -> SUBSET Accounts]
  /\ receipt \in [Requests -> Receipts \cup {None}]
  /\ charge \in [Requests -> [Accounts -> Amounts \cup {None}]]
  /\ cache \in [Requests -> [Accounts -> Row \cup {None}]]
  /\ reader \in [Accounts -> ReaderStates]
  /\ call \in [Calls -> CallStates]
  /\ final \in [Finalizers -> FinalStates]

(* What a final receipt says is true: a receipt of no charge is of a request *)
(* for which no session was ever recorded and nothing was sent, whichever    *)
(* calls of the same request race; and an amount was charged by the upstream *)
(* on a session of this request.                                             *)
FinalIsBacked ==
  \A r \in Requests : HasFinal(r) =>
    IF receipt[r].source = NoCharge
    THEN sessions[r] = {} /\ \A a \in Accounts : ~Called(r, a)
    ELSE LET a == receipt[r].source
         IN /\ a \in sessions[r] /\ Called(r, a)
            /\ 0 < receipt[r].amount /\ receipt[r].amount <= charge[r][a]

(* Evidence only hardens: a request keeps its first claim and its conflict,  *)
(* a receipt changes only from final to conflict and only once, and no       *)
(* session is recorded, nor used for the first time, after a receipt of no   *)
(* charge.                                                                   *)
Hardens(r) ==
  /\ Recorded(r) => /\ request'[r].claim = request[r].claim
                    /\ Conflicted(r) => request'[r].conflict
  /\ receipt[r] # None =>
       /\ sessions'[r] = sessions[r]
       /\ \/ receipt'[r] = receipt[r]
          \/ HasFinal(r) /\ receipt'[r].status = "conflict"

EvidenceHardens == [][\A r \in Requests : Hardens(r)]_vars

(* Two billing requests of the Core for one and the same thing (the chat, or *)
(* one video task) never put its receipt in conflict, however they race with *)
(* each other, with rotations of the account and with refreshes of the       *)
(* history: only another task does.                                          *)
OnlyTasksDisagree ==
  [][\A f \in Finalizers : RecordReceipt(f) =>
       \A r \in Requests :
         HasFinal(r) /\ receipt'[r].status = "conflict" =>
           receipt[r].task # final[f].task]_vars

=============================================================================
