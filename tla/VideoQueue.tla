----------------------------- MODULE VideoQueue -----------------------------
(***************************************************************************)
(* The durable video queue of aiwork-core. A video job is queued either     *)
(* with money only (enqueue) or with money, an upstream lease and a first   *)
(* attempt (preflight). A worker claims the next job of the next user, and   *)
(* from then on job, attempt, lease, request and reservation move together   *)
(* in single transactions, while heartbeats extend the claim and the lease.  *)
(*                                                                         *)
(* Every request of this module is a video request and stands for its job;   *)
(* a job has at most one attempt. Ages of jobs are their order of arrival.   *)
(***************************************************************************)
EXTENDS UpstreamLease

CONSTANTS
    Workers,
    UserRank,   \* [Users -> Nat], the order of user ids, which are compared as text
    Eligible    \* [Requests -> SUBSET UpstreamAccounts]: the job's queue constraints

NoWorker == "no worker"
NoUser == "no user"

ASSUME QueueConstants ==
    /\ UserRank \in [Users -> Nat]
    /\ \A u, v \in Users : UserRank[u] = UserRank[v] => u = v
    /\ Eligible \in [Requests -> SUBSET UpstreamAccounts]
    /\ NoWorker \notin Workers
    /\ NoUser \notin Users

VARIABLES
    userActive,     \* users.status = 'active'
    job,            \* jobs.state, or "none"
    attempt,        \* job_attempts.state of the one attempt, or "none"
    reference,      \* which of attempt and lease have an upstream_request_ref
    claimOwner,     \* jobs.queue_claim_owner
    claimExpires,   \* jobs.queue_claim_expires_at_ms; 0 where it is NULL
    arrival,        \* the order of jobs.created_at_ms
    cursor          \* dispatch_queue_cursors.last_user_id

jobVars   == <<job, attempt, reference, claimOwner, claimExpires, arrival>>
queueVars == <<userActive, jobVars, cursor>>
videoVars == <<vars, queueVars>>

JobState == {"queued", "running", "cancel_requested", "canceled", "succeeded", "failed", "unknown"}

\* JobState::can_transition_to; no job is ever stored as "created".
JobSuccessors ==
    [queued           |-> {"running", "cancel_requested", "failed", "unknown"},
     running          |-> {"succeeded", "failed", "cancel_requested", "unknown"},
     cancel_requested |-> {"canceled", "unknown"},
     canceled         |-> {},
     succeeded        |-> {},
     failed           |-> {},
     unknown          |-> {"canceled", "succeeded", "failed"}]

JobCanBecome(r, s) == job[r] = s \/ s \in JobSuccessors[job[r]]

Owner(r) == UserOf[KeyOf[r]]

\* ensure_principal_in_transaction
Principal(r) == keyActive[KeyOf[r]] /\ userActive[Owner(r)]

VideoInit ==
    /\ LeaseInit
    /\ userActive = [u \in Users |-> TRUE]
    /\ job = [r \in Requests |-> "none"]
    /\ attempt = [r \in Requests |-> "none"]
    /\ reference = [r \in Requests |-> {}]
    /\ claimOwner = [r \in Requests |-> NoWorker]
    /\ claimExpires = [r \in Requests |-> 0]
    /\ arrival = [r \in Requests |-> 0]
    /\ cursor = NoUser

-----------------------------------------------------------------------------
(* Submitting.                                                             *)

\* A fault: an unknown lease gives its slot back.
FaultyTakeSlot(r, a) ==
    /\ a \in selectable \cap Eligible[r]
    /\ Cardinality({q \in OnSlot(a) : Open(q)}) < MaxConcurrency[a]
    /\ leaseAccount' = [leaseAccount EXCEPT ![r] = a]
    /\ leaseExpires' = [leaseExpires EXCEPT ![r] = now + LeaseTtl]
    /\ reconcileUntil' = [reconcileUntil EXCEPT ![r] = now + ReconcileTtl]

\* select_upstream_candidate and the insertion of the lease.
TakeSlot(r, a) ==
    /\ a \in selectable \cap Eligible[r]
    /\ Cardinality(OnSlot(a)) < MaxConcurrency[a]
    /\ leaseAccount' = [leaseAccount EXCEPT ![r] = a]
    /\ leaseExpires' = [leaseExpires EXCEPT ![r] = now + LeaseTtl]
    /\ reconcileUntil' = [reconcileUntil EXCEPT ![r] = now + ReconcileTtl]

\* A new request that can pay goes to "queued" and gets its job.
InsertJob(r) ==
    /\ keyActive[KeyOf[r]]
    /\ request[r] = "absent"
    /\ ReserveDual(r)
    /\ request' = [request EXCEPT ![r] = "queued"]
    /\ job' = [job EXCEPT ![r] = "queued"]
    /\ arrival' = [arrival EXCEPT ![r] = Cardinality({q \in Requests : job[q] # "none"}) + 1]
    /\ UNCHANGED <<adminVars, now, selectable, userActive, reference,
                   claimOwner, claimExpires, cursor>>

\* preflight_video_job
PreflightVideoJob(r, a) ==
    /\ InsertJob(r)
    /\ TakeSlot(r, a)
    /\ leaseState' = [leaseState EXCEPT ![r] = "held"]
    /\ attempt' = [attempt EXCEPT ![r] = "queued"]

\* enqueue_video_job
EnqueueVideoJob(r) ==
    /\ InsertJob(r)
    /\ UNCHANGED <<lifeVars, attempt>>

-----------------------------------------------------------------------------
(* Faulty variants of the operations below.                                *)

\* A job that became unknown is played again on whatever account is free.
FaultyClaim(r, w, a) ==
    /\ job[r] \in {"queued", "unknown"}
    /\ userActive[Owner(r)]
    /\ TakeSlot(r, a)
    /\ leaseState' = [leaseState EXCEPT ![r] = "active"]
    /\ request' = [request EXCEPT ![r] = "dispatched"]
    /\ job' = [job EXCEPT ![r] = "running"]
    /\ attempt' = [attempt EXCEPT ![r] = "running"]
    /\ claimOwner' = [claimOwner EXCEPT ![r] = w]
    /\ claimExpires' = [claimExpires EXCEPT ![r] = leaseExpires'[r]]
    /\ cursor' = Owner(r)
    /\ UNCHANGED <<adminVars, available, reservation, heldOn, ledger, now, selectable,
                   userActive, reference, arrival>>

\* The heartbeat extends the lease and forgets the claim.
FaultyHeartbeatVideoJob(w, r) ==
    /\ job[r] \in {"running", "cancel_requested"}
    /\ claimOwner[r] = w /\ claimExpires[r] > now
    /\ leaseState[r] = "active" /\ leaseExpires[r] > now
    /\ leaseExpires' = [leaseExpires EXCEPT ![r] = now + LeaseTtl]
    /\ UNCHANGED <<quotaVars, now, selectable, leaseState, leaseAccount, reconcileUntil, queueVars>>

\* A cancelled job gives its money back before the adapter has confirmed.
FaultyRequestVideoCancel(r) ==
    /\ job[r] \in {"queued", "running"}
    /\ Principal(r)
    /\ request' = [request EXCEPT ![r] = "cancel_requested"]
    /\ job' = [job EXCEPT ![r] = "cancel_requested"]
    /\ attempt' = [attempt EXCEPT ![r] = IF @ = "none" THEN @ ELSE "cancel_requested"]
    /\ ApplySettlement(r, [kind |-> "release", units |-> 0])
    /\ UNCHANGED <<adminVars, leaseVars, userActive, reference, claimOwner, claimExpires,
                   arrival, cursor>>

-----------------------------------------------------------------------------
(* Claiming.                                                               *)

\* A job the queue looks at: it and its request are "queued".
Waiting(r) == job[r] = "queued" /\ request[r] = "queued"

WaitingOf(u) == {r \in Requests : Owner(r) = u /\ Waiting(r)}

QueuedUsers == {u \in Users : userActive[u] /\ WaitingOf(u) # {}}

Oldest(rs) == {r \in rs : \A q \in rs : arrival[r] <= arrival[q]}

\* next_video_queue_user: the users after the cursor, and all if there are
\* none; of these, not the next one but the one whose job is the oldest.
AfterCursor == {u \in QueuedUsers : cursor = NoUser \/ UserRank[u] > UserRank[cursor]}

NextUsers ==
    LET users == IF AfterCursor # {} THEN AfterCursor ELSE QueuedUsers
    IN  {Owner(r) : r \in Oldest(UNION {WaitingOf(u) : u \in users})}

\* The claim of a given job: its attempt's lease is used if there is one.
Claim(r, w, a) ==
    /\ Waiting(r)
    /\ userActive[Owner(r)]
    /\ \/ /\ attempt[r] = "none"
          /\ reservation[r] = "held"
          /\ TakeSlot(r, a)
       \/ /\ attempt[r] = "queued"
          /\ leaseState[r] = "held"
          /\ leaseAccount[r] = a
          /\ UNCHANGED <<leaseAccount, leaseExpires, reconcileUntil>>
    /\ leaseState' = [leaseState EXCEPT ![r] = "active"]
    /\ request' = [request EXCEPT ![r] = "dispatched"]
    /\ job' = [job EXCEPT ![r] = "running"]
    /\ attempt' = [attempt EXCEPT ![r] = "running"]
    /\ claimOwner' = [claimOwner EXCEPT ![r] = w]
    /\ claimExpires' = [claimExpires EXCEPT ![r] = leaseExpires'[r]]
    /\ cursor' = Owner(r)
    /\ UNCHANGED <<adminVars, available, reservation, heldOn, ledger, now, selectable,
                   userActive, reference, arrival>>

\* claim_next_video_job: if no account can take that job, no other is tried.
ClaimNextVideoJob(w) ==
    \E u \in NextUsers :
        \E r \in Oldest(WaitingOf(u)), a \in UpstreamAccounts : Claim(r, w, a)

\* claim_video_job_by_id
ClaimVideoJobById(r, w) == \E a \in UpstreamAccounts : Claim(r, w, a)

-----------------------------------------------------------------------------
(* Running.                                                                *)

\* heartbeat_video_job
HeartbeatVideoJob(w, r) ==
    /\ job[r] \in {"running", "cancel_requested"}
    /\ claimOwner[r] = w /\ claimExpires[r] > now
    /\ attempt[r] \in {"running", "cancel_requested"}
    /\ leaseState[r] = "active" /\ leaseExpires[r] > now
    /\ claimExpires' = [claimExpires EXCEPT ![r] = now + LeaseTtl]
    /\ leaseExpires' = [leaseExpires EXCEPT ![r] = now + LeaseTtl]
    /\ UNCHANGED <<quotaVars, now, selectable, leaseState, leaseAccount, reconcileUntil,
                   userActive, job, attempt, reference, claimOwner, arrival, cursor>>

\* mark_video_job_running: starts a queued job that has an attempt, unclaimed.
MarkVideoJobRunning(r) ==
    /\ Principal(r)
    /\ job[r] = "queued"
    /\ attempt[r] # "none"
    /\ request[r] \in {"queued", "dispatched"}
    /\ request' = [request EXCEPT ![r] = "dispatched"]
    /\ job' = [job EXCEPT ![r] = "running"]
    /\ attempt' = [attempt EXCEPT ![r] = IF @ = "queued" THEN "running" ELSE @]
    /\ leaseState' = [leaseState EXCEPT ![r] = IF @ = "held" THEN "active" ELSE @]
    /\ UNCHANGED <<adminVars, available, reservation, heldOn, ledger, now, selectable,
                   leaseAccount, leaseExpires, reconcileUntil, userActive, reference,
                   claimOwner, claimExpires, arrival, cursor>>

\* record_video_job_acceptance writes the upstream's reference, again if need be.
RecordVideoJobAcceptance(r) ==
    /\ Principal(r)
    /\ job[r] \in {"running", "cancel_requested"}
    /\ attempt[r] \in {"running", "cancel_requested"}
    /\ reference' = [reference EXCEPT ![r] =
                       @ \cup {"attempt"} \cup {l \in {"lease"} : leaseState[r] = "active"}]
    /\ UNCHANGED <<vars, userActive, job, attempt, claimOwner, claimExpires, arrival, cursor>>

\* The refund of a job that no account was ever asked for.
ReleaseQueued(r) ==
    \/ reservation[r] = "held" /\ ApplySettlement(r, [kind |-> "release", units |-> 0])
    \/ reservation[r] # "held" /\ UNCHANGED <<available, reservation, heldOn, ledger>>

\* request_video_cancel. With an attempt it records the intention; without one
\* the job ends here, "cancel_requested" being left inside the transaction.
CancelAttempted(r) ==
    /\ attempt[r] # "none"
    /\ request' = [request EXCEPT ![r] = "cancel_requested"]
    /\ job' = [job EXCEPT ![r] = "cancel_requested"]
    /\ attempt' = [attempt EXCEPT ![r] =
                     IF @ \in {"queued", "running"} THEN "cancel_requested" ELSE @]
    /\ UNCHANGED <<available, reservation, heldOn, ledger>>

CancelQueued(r) ==
    /\ attempt[r] = "none"
    /\ request' = [request EXCEPT ![r] = "settled"]
    /\ job' = [job EXCEPT ![r] = "canceled"]
    /\ ReleaseQueued(r)
    /\ UNCHANGED attempt

RequestVideoCancel(r) ==
    /\ Principal(r)
    /\ job[r] \in {"queued", "running"}
    /\ request[r] \in {"queued", "dispatched", "completing"}
    /\ CancelAttempted(r) \/ CancelQueued(r)
    /\ UNCHANGED <<adminVars, leaseVars, userActive, reference, claimOwner, claimExpires,
                   arrival, cursor>>

-----------------------------------------------------------------------------
(* Ending.                                                                 *)

\* The job state that goes with the request state of a LeaseOutcome.
JobOutcome(o) == o.request

\* sync_video_job_settlement, inside the transaction that closes the lease; the
\* outcome's reference, or none, replaces what was recorded.
SyncJob(r, s, ref) ==
    /\ JobCanBecome(r, s)
    /\ job' = [job EXCEPT ![r] = s]
    /\ attempt' = [attempt EXCEPT ![r] = s]
    /\ reference' = [reference EXCEPT ![r] = IF ref THEN {"attempt", "lease"} ELSE {}]
    /\ claimOwner' = [claimOwner EXCEPT ![r] = NoWorker]
    /\ claimExpires' = [claimExpires EXCEPT ![r] = 0]
    /\ UNCHANGED <<userActive, arrival, cursor>>

\* A rejection names no upstream call; the other outcomes may.
MayRefer(o) == {ref \in BOOLEAN : ref => o.request # "failed"}

\* settle_upstream_lease_with_status for a lease of kind video_job.
SettleVideo(r, o, ref) ==
    /\ SettleLease(r, o)
    /\ SyncJob(r, JobOutcome(o), ref)

\* reconcile_unknown_upstream_lease asks for evidence: a reference, or a rejection.
ReconcileVideo(r, o) ==
    /\ ReconcileLease(r, o)
    /\ SyncJob(r, JobOutcome(o), o.request # "failed")

\* recover_expired_upstream_leases: the attempt gets the lease's reference.
RecoverVideo ==
    LET late(f, v) == [r \in Requests |-> IF r \in Expired THEN v ELSE f[r]]
    IN  /\ RecoverExpired
        /\ \A r \in Expired : JobCanBecome(r, "unknown")
        /\ job' = late(job, "unknown")
        /\ attempt' = late(attempt, "unknown")
        /\ reference' = [r \in Requests |->
                           IF r \in Expired /\ "lease" \notin reference[r] THEN {}
                           ELSE IF r \in Expired THEN {"attempt", "lease"} ELSE reference[r]]
        /\ claimOwner' = late(claimOwner, NoWorker)
        /\ claimExpires' = late(claimExpires, 0)
        /\ UNCHANGED <<userActive, arrival, cursor>>

\* set_user_status_as_admin
SetUserStatus(u, active) ==
    /\ userActive' = [userActive EXCEPT ![u] = active]
    /\ UNCHANGED <<vars, jobVars, cursor>>

JobNext(r) ==
    \/ \E a \in UpstreamAccounts : PreflightVideoJob(r, a)
    \/ EnqueueVideoJob(r)
    \/ \E w \in Workers : ClaimVideoJobById(r, w) \/ HeartbeatVideoJob(w, r)
    \/ MarkVideoJobRunning(r)
    \/ RecordVideoJobAcceptance(r)
    \/ RequestVideoCancel(r)
    \/ \E o \in LeaseOutcome(r) :
          (\E ref \in MayRefer(o) : SettleVideo(r, o, ref)) \/ ReconcileVideo(r, o)

EnvironmentNext ==
    \/ (\E accts \in SUBSET UpstreamAccounts : SetSelectable(accts)) /\ UNCHANGED queueVars
    \/ Tick /\ UNCHANGED queueVars
    \/ AdminStep /\ UNCHANGED queueVars
    \/ \E u \in Users, active \in BOOLEAN : SetUserStatus(u, active)

VideoNext ==
    \/ \E r \in Requests : JobNext(r)
    \/ \E w \in Workers : ClaimNextVideoJob(w)
    \/ RecoverVideo
    \/ EnvironmentNext

VideoSpec == VideoInit /\ [][VideoNext]_videoVars

-----------------------------------------------------------------------------
(* Properties.                                                             *)

\* Every variable has its type.
VideoTypeOK ==
    /\ LeaseTypeOK
    /\ userActive \in [Users -> BOOLEAN]
    /\ job \in [Requests -> JobState \cup {"none"}]
    /\ attempt \in [Requests -> JobState \cup {"none"}]
    /\ reference \in [Requests -> SUBSET {"attempt", "lease"}]
    /\ claimOwner \in [Requests -> Workers \cup {NoWorker}]
    /\ claimExpires \in [Requests -> Nat]
    /\ arrival \in [Requests -> Nat]
    /\ cursor \in Users \cup {NoUser}

\* Five tables tell one story of a video job - the job, its attempt, the lease,
\* the request and the reservation - whatever order claims, cancels, settlements
\* and recoveries come in. In particular a job is refunded only if no attempt was
\* ever made or its lease was closed as failed, and nothing that may still be
\* running at an upstream stands beside money that was given back.
StoryOf(r, attempts, leases, requests, reservations) ==
    /\ attempt[r] \in attempts
    /\ leaseState[r] \in leases
    /\ request[r] \in requests
    /\ reservation[r] \in reservations

JobStory(r) ==
    /\ job[r] = "none" => StoryOf(r, {"none"}, {"none"}, {"absent"}, {"none"})
    /\ job[r] = "queued" =>
         \/ StoryOf(r, {"none"}, {"none"}, {"queued"}, {"held"})
         \/ StoryOf(r, {"queued"}, {"held"}, {"queued"}, {"held"})
    /\ job[r] = "running" => StoryOf(r, {"running"}, {"active"}, {"dispatched"}, {"held"})
    /\ job[r] = "cancel_requested" =>
         StoryOf(r, {"cancel_requested"}, {"held", "active"}, {"cancel_requested"}, {"held"})
    /\ job[r] = "unknown" => StoryOf(r, {"unknown"}, {"unknown"}, {"unknown"}, {"unknown"})
    /\ job[r] = "failed" => StoryOf(r, {"failed"}, {"failed"}, {"settled"}, {"released"})
    /\ job[r] = "canceled" =>
         \/ StoryOf(r, {"none"}, {"none"}, {"settled"}, {"released"})
         \/ StoryOf(r, {"canceled"}, {"failed"}, {"settled"}, {"released"})
    /\ job[r] = "succeeded" =>
         StoryOf(r, {"succeeded"}, {"succeeded"}, {"settled"}, {"committed", "unknown"})

JobAgreesWithLease == \A r \in Requests : JobStory(r)

\* A claim lives exactly as long as the lease behind it: recovery, which looks
\* at leases, never takes a job from a worker whose claim is live, and no worker
\* keeps a claim on a job that recovery or a settlement has ended.
ClaimMatchesLease ==
    \A r \in Requests :
        claimOwner[r] # NoWorker =>
            /\ job[r] \in {"running", "cancel_requested"}
            /\ leaseState[r] = "active"
            /\ claimExpires[r] = leaseExpires[r]

\* A job is never run on a second upstream account, nor its slot moved: there is
\* no automatic replay, whatever was lost ("恢复只能查询/对账，不能自动换账号重放" in
\* the durable queue design).
NoSecondAccount ==
    [][\A r \in Requests :
         leaseState[r] # "none" =>
            leaseAccount'[r] = leaseAccount[r] /\ (job'[r] = "running" => job[r] \in {"queued", "running"})]_videoVars
=============================================================================
