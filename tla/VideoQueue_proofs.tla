-------------------------- MODULE VideoQueue_proofs --------------------------
(* Theorems about the durable video queue and the gateway around it, for every *)
(* instance of their constants. Those of the queue rest on one invariant: the  *)
(* five tables tell one story of each job. From it follows that each operation *)
(* acts on money that is still held, that a claim follows its lease, and that  *)
(* no job gets a second account. Those of the gateway rest on what each actor  *)
(* knows of its job, and on the queue's: every step of the gateway is one of    *)
(* the queue's or leaves the queue alone.                                      *)
EXTENDS VideoSubmit, UpstreamLease_proofs

-----------------------------------------------------------------------------
(* The cases of a step.                                                      *)

\* A settlement or a reconciliation of a video job.
EndJob(r, o) ==
    /\ Open(r) \/ (leaseState[r] = "unknown" /\ o.lease # "unknown")
    /\ CloseLease(r, o)
    /\ UNCHANGED <<adminVars, now, selectable>>
    /\ \E ref \in BOOLEAN : SyncJob(r, o.request, ref)

\* The steps that touch no job: of the administrator, the clock, the accounts.
Environment ==
    \/ [LeaseNext]_vars /\ UNCHANGED <<request, reservation, heldOn, ledger, lifeVars, queueVars>>
    \/ UNCHANGED <<vars, jobVars, cursor>> /\ userActive' \in [Users -> BOOLEAN]

LEMMA VideoCases ==
    ASSUME VideoTypeOK, [VideoNext]_videoVars
    PROVE  \/ \E r \in Requests : InsertJob(r) /\ \E a \in UpstreamAccounts : PreflightVideoJob(r, a)
           \/ \E r \in Requests : InsertJob(r) /\ EnqueueVideoJob(r)
           \/ \E r \in Requests, w \in Workers, a \in UpstreamAccounts : Claim(r, w, a)
           \/ \E r \in Requests, w \in Workers : HeartbeatVideoJob(w, r)
           \/ \E r \in Requests : MarkVideoJobRunning(r)
           \/ \E r \in Requests : RecordVideoJobAcceptance(r)
           \/ \E r \in Requests : RequestVideoCancel(r)
           \/ \E r \in Requests : \E o \in LeaseOutcome(r) : EndJob(r, o)
           \/ RecoverVideo
           \/ Environment
<1>1. ASSUME NEW w \in Workers, ClaimNextVideoJob(w)
      PROVE  \E r \in Requests, a \in UpstreamAccounts : Claim(r, w, a)
  BY <1>1 DEF ClaimNextVideoJob, Oldest, WaitingOf
<1>2. ASSUME NEW r \in Requests, NEW o \in LeaseOutcome(r),
             (\E ref \in MayRefer(o) : SettleVideo(r, o, ref)) \/ ReconcileVideo(r, o)
      PROVE  EndJob(r, o)
  <2>1. ASSUME NEW ref \in MayRefer(o), SettleVideo(r, o, ref) PROVE EndJob(r, o)
    BY <2>1 DEF MayRefer, SettleVideo, SettleLease, EndJob, JobOutcome
  <2>2. ASSUME ReconcileVideo(r, o) PROVE EndJob(r, o)
    <3>1. PICK ref \in BOOLEAN : ref = (o.request # "failed")
      OBVIOUS
    <3>2. QED
      BY <2>2, <3>1 DEF ReconcileVideo, ReconcileLease, EndJob, JobOutcome
  <2>3. QED
    BY <1>2, <2>1, <2>2
<1>3. ASSUME EnvironmentNext \/ UNCHANGED videoVars PROVE Environment
  <2>1. ASSUME NEW accts \in SUBSET UpstreamAccounts, SetSelectable(accts), UNCHANGED queueVars
        PROVE  Environment
    BY <2>1 DEF SetSelectable, Environment, LeaseNext, quotaVars, holdVars
  <2>2. ASSUME Tick, UNCHANGED queueVars PROVE Environment
    BY <2>2 DEF Tick, Environment, LeaseNext, quotaVars, holdVars
  <2>3. ASSUME AdminStep, UNCHANGED queueVars PROVE Environment
    BY <2>3, AdminCases DEF Environment, LeaseNext, VideoTypeOK, leaseVars
  <2>4. ASSUME NEW u \in Users, NEW active \in BOOLEAN, SetUserStatus(u, active)
        PROVE  Environment
    BY <2>4 DEF SetUserStatus, Environment, VideoTypeOK
  <2>5. CASE UNCHANGED videoVars
    BY <2>5 DEF videoVars, queueVars, Environment, VideoTypeOK
  <2>6. QED
    BY <1>3, <2>1, <2>2, <2>3, <2>4, <2>5 DEF EnvironmentNext
<1>4. QED
  BY <1>1, <1>2, <1>3
  DEF VideoNext, JobNext, ClaimVideoJobById, PreflightVideoJob, EnqueueVideoJob

-----------------------------------------------------------------------------
(* Types. The jobs that exist are finitely many, so each has its place in the *)
(* order of arrival.                                                         *)

Jobs == {r \in Requests : job[r] # "none"}

FinitelyQueued == IsFiniteSet(Jobs)

LEMMA InsertType ==
    ASSUME VideoTypeOK, FinitelyQueued, NEW r \in Requests, InsertJob(r)
    PROVE  /\ TypeOK'
           /\ now' \in Nat /\ selectable' \subseteq UpstreamAccounts
           /\ userActive' \in [Users -> BOOLEAN]
           /\ job' \in [Requests -> JobState \cup {"none"}]
           /\ reference' \in [Requests -> SUBSET {"attempt", "lease"}]
           /\ claimOwner' \in [Requests -> Workers \cup {NoWorker}]
           /\ claimExpires' \in [Requests -> Nat]
           /\ arrival' \in [Requests -> Nat]
           /\ cursor' \in Users \cup {NoUser}
<1>1. TypeOK /\ ReserveDual(r)
  BY DEF InsertJob, VideoTypeOK, LeaseTypeOK
<1>2. request' \in [Requests -> RequestState \cup {"absent"}]
  BY <1>1 DEF InsertJob, TypeOK, RequestState
<1>3. TypeOK'
  BY <1>1, <1>2, ReserveDualType DEF InsertJob, TypeOK, adminVars
<1>4. Cardinality({q \in Requests : job[q] # "none"}) + 1 \in Nat
  BY FS_CardinalityType DEF FinitelyQueued, Jobs
<1>5. arrival' \in [Requests -> Nat]
  BY <1>4 DEF InsertJob, VideoTypeOK
<1>6. QED
  BY <1>3, <1>5 DEF InsertJob, VideoTypeOK, LeaseTypeOK, JobState

LEMMA TakeSlotType ==
    ASSUME VideoTypeOK, NEW r \in Requests, NEW a \in UpstreamAccounts, TakeSlot(r, a)
    PROVE  /\ leaseAccount' \in [Requests -> UpstreamAccounts \cup {NoAccount}]
           /\ leaseExpires' \in [Requests -> Nat]
           /\ reconcileUntil' \in [Requests -> Nat]
BY LeaseConstants DEF VideoTypeOK, LeaseTypeOK, TakeSlot

LEMMA PreflightType ==
    ASSUME VideoTypeOK, FinitelyQueued, NEW r \in Requests, NEW a \in UpstreamAccounts,
           InsertJob(r), PreflightVideoJob(r, a)
    PROVE  VideoTypeOK'
<1>1. TakeSlot(r, a)
  BY DEF PreflightVideoJob
<1>2. leaseState' \in [Requests -> LeaseState \cup {"none"}]
      /\ attempt' \in [Requests -> JobState \cup {"none"}]
  BY DEF PreflightVideoJob, VideoTypeOK, LeaseTypeOK, LeaseState, JobState
<1>3. QED
  BY <1>1, <1>2, InsertType, TakeSlotType DEF VideoTypeOK, LeaseTypeOK

LEMMA EnqueueType ==
    ASSUME VideoTypeOK, FinitelyQueued, NEW r \in Requests, InsertJob(r), EnqueueVideoJob(r)
    PROVE  VideoTypeOK'
BY InsertType DEF VideoTypeOK, LeaseTypeOK, EnqueueVideoJob, lifeVars

LEMMA OwnerType == ASSUME NEW r \in Requests PROVE Owner(r) \in Users
BY QuotaConstants DEF Owner

LEMMA ClaimType ==
    ASSUME VideoTypeOK, NEW r \in Requests, NEW w \in Workers, NEW a \in UpstreamAccounts,
           Claim(r, w, a)
    PROVE  VideoTypeOK'
<1>1. /\ leaseAccount' \in [Requests -> UpstreamAccounts \cup {NoAccount}]
      /\ leaseExpires' \in [Requests -> Nat]
      /\ reconcileUntil' \in [Requests -> Nat]
  BY TakeSlotType DEF Claim, VideoTypeOK, LeaseTypeOK
<1>2. TypeOK'
  BY DEF Claim, VideoTypeOK, LeaseTypeOK, TypeOK, RequestState, adminVars
<1>3. LeaseTypeOK'
  BY <1>1, <1>2 DEF Claim, VideoTypeOK, LeaseTypeOK, LeaseState
<1>4. leaseExpires'[r] \in Nat
  BY <1>1
<1>5. QED
  BY <1>3, <1>4, OwnerType DEF Claim, VideoTypeOK, JobState

LEMMA CancelType ==
    ASSUME VideoTypeOK, NEW r \in Requests, RequestVideoCancel(r)
    PROVE  VideoTypeOK'
<1>0. TypeOK
  BY DEF VideoTypeOK, LeaseTypeOK
<1>1. [kind |-> "release", units |-> 0] \in Settlement(r)
  BY DEF Settlement
<1>2. /\ reservation' \in [Requests -> ReservationState \cup {"none"}]
      /\ heldOn' \in [Requests -> SUBSET Accounts]
      /\ ledger' \in [Requests -> SUBSET Row]
      /\ available' \in [Accounts -> Int]
  <2>1. \/ UNCHANGED <<available, reservation, heldOn, ledger>>
        \/ ApplySettlement(r, [kind |-> "release", units |-> 0])
    BY DEF RequestVideoCancel, CancelAttempted, CancelQueued, ReleaseQueued
  <2>2. QED
    BY <1>0, <1>1, <2>1, SettlementType DEF TypeOK
<1>3. /\ request' \in [Requests -> RequestState \cup {"absent"}]
      /\ job' \in [Requests -> JobState \cup {"none"}]
      /\ attempt' \in [Requests -> JobState \cup {"none"}]
  BY <1>0 DEF RequestVideoCancel, CancelAttempted, CancelQueued, VideoTypeOK, TypeOK,
       RequestState, JobState
<1>4. TypeOK'
  BY <1>0, <1>2, <1>3 DEF RequestVideoCancel, TypeOK, adminVars
<1>5. QED
  BY <1>3, <1>4 DEF RequestVideoCancel, VideoTypeOK, LeaseTypeOK, leaseVars, lifeVars

LEMMA EndType ==
    ASSUME VideoTypeOK, NEW r \in Requests, NEW o \in LeaseOutcome(r), EndJob(r, o)
    PROVE  VideoTypeOK'
<1>1. LeaseTypeOK'
  BY CloseType DEF VideoTypeOK, EndJob
<1>2. PICK ref \in BOOLEAN : SyncJob(r, o.request, ref)
  BY DEF EndJob
<1>3. o.request \in JobState
  BY OutcomeType DEF JobState
<1>4. QED
  BY <1>1, <1>2, <1>3 DEF SyncJob, VideoTypeOK

LEMMA RecoverVideoType ==
    ASSUME VideoTypeOK, RecoverVideo
    PROVE  VideoTypeOK'
<1>1. LeaseTypeOK'
  BY RecoverType DEF VideoTypeOK, RecoverVideo
<1>2. reference' \in [Requests -> SUBSET {"attempt", "lease"}]
  BY DEF VideoTypeOK, RecoverVideo
<1>3. QED
  BY <1>1, <1>2 DEF VideoTypeOK, RecoverVideo, JobState

LEMMA VideoStepType == VideoTypeOK /\ FinitelyQueued /\ [VideoNext]_videoVars => VideoTypeOK'
<1> SUFFICES ASSUME VideoTypeOK, FinitelyQueued, [VideoNext]_videoVars PROVE VideoTypeOK'
  OBVIOUS
<1>1. ASSUME NEW r \in Requests, NEW w \in Workers, HeartbeatVideoJob(w, r)
      PROVE  VideoTypeOK'
  BY <1>1, LeaseConstants
  DEF HeartbeatVideoJob, VideoTypeOK, LeaseTypeOK, TypeOK, quotaVars, adminVars, holdVars
<1>2. ASSUME NEW r \in Requests, MarkVideoJobRunning(r) PROVE VideoTypeOK'
  BY <1>2
  DEF MarkVideoJobRunning, VideoTypeOK, LeaseTypeOK, TypeOK, adminVars, LeaseState, JobState,
      RequestState
<1>3. ASSUME NEW r \in Requests, RecordVideoJobAcceptance(r) PROVE VideoTypeOK'
  <2>1. {l \in {"lease"} : leaseState[r] = "active"} \subseteq {"attempt", "lease"}
    OBVIOUS
  <2>2. reference' \in [Requests -> SUBSET {"attempt", "lease"}]
    BY <1>3, <2>1 DEF RecordVideoJobAcceptance, VideoTypeOK
  <2>3. QED
    BY <1>3, <2>2
    DEF RecordVideoJobAcceptance, VideoTypeOK, LeaseTypeOK, TypeOK, vars, quotaVars, adminVars,
        holdVars, leaseVars, lifeVars
<1>4. CASE Environment
  <2>1. LeaseTypeOK'
    BY <1>4, LeaseStepType DEF Environment, VideoTypeOK
  <2>2. QED
    BY <1>4, <2>1 DEF Environment, VideoTypeOK, queueVars, jobVars
<1>5. QED
  BY <1>1, <1>2, <1>3, <1>4, PreflightType, EnqueueType, ClaimType, CancelType, EndType,
     RecoverVideoType, VideoCases

-----------------------------------------------------------------------------
(* The five tables. A step that leaves the rows of r alone leaves its story;  *)
(* for the request a step is about, the rows after it are given one by one.   *)

\* Where the rows of job, attempt, lease, request and reservation stand.
Rows5(r) == <<job[r], attempt[r], leaseState[r], request[r], reservation[r]>>

LEMMA SameStory ==
    ASSUME NEW r, JobStory(r), UNCHANGED Rows5(r)
    PROVE  JobStory(r)'
BY DEF Rows5, JobStory, StoryOf

\* What stands in one table says where the job is.
LEMMA StoryRead ==
    ASSUME VideoTypeOK, NEW r \in Requests, JobStory(r)
    PROVE  /\ request[r] = "absent" => job[r] = "none"
           /\ leaseState[r] \in {"held", "active"} =>
                 job[r] \in {"queued", "running", "cancel_requested"} /\ reservation[r] = "held"
           /\ leaseState[r] = "unknown" => job[r] = "unknown" /\ reservation[r] = "unknown"
           /\ attempt[r] = "none" /\ job[r] # "none" => leaseState[r] = "none"
           /\ leaseState[r] = "none" => attempt[r] = "none"
BY DEF VideoTypeOK, JobState, JobStory, StoryOf

LEMMA StoryStep == VideoTypeOK /\ JobAgreesWithLease /\ [VideoNext]_videoVars => JobAgreesWithLease'
<1> SUFFICES ASSUME VideoTypeOK, JobAgreesWithLease, [VideoNext]_videoVars, NEW q \in Requests
             PROVE  JobStory(q)'
  BY DEF JobAgreesWithLease
<1>0. JobStory(q) /\ LeaseTypeOK /\ TypeOK
  BY DEF JobAgreesWithLease, VideoTypeOK, LeaseTypeOK
<1>1. ASSUME NEW r \in Requests, InsertJob(r),
             EnqueueVideoJob(r) \/ \E a \in UpstreamAccounts : PreflightVideoJob(r, a)
      PROVE  JobStory(q)'
  <2>1. CASE q # r
    <3>1. UNCHANGED Rows5(q)
      BY <1>0, <1>1, <2>1
      DEF InsertJob, ReserveDual, EnqueueVideoJob, PreflightVideoJob, lifeVars, Rows5,
          VideoTypeOK, LeaseTypeOK, TypeOK
    <3>2. QED
      BY <1>0, <3>1, SameStory
  <2>2. CASE q = r
    <3>1. attempt[r] = "none" /\ leaseState[r] = "none"
      <4>1. job[r] = "none"
        BY <1>0, <1>1, <2>2, StoryRead DEF InsertJob
      <4>2. QED
        BY <1>0, <2>2, <4>1 DEF JobStory, StoryOf
    <3>2. job'[r] = "queued" /\ request'[r] = "queued" /\ reservation'[r] = "held"
      BY <1>0, <1>1 DEF InsertJob, ReserveDual, VideoTypeOK, TypeOK
    <3>3. \/ attempt'[r] = "none" /\ leaseState'[r] = "none"
          \/ attempt'[r] = "queued" /\ leaseState'[r] = "held"
      BY <1>0, <1>1, <3>1 DEF EnqueueVideoJob, PreflightVideoJob, lifeVars, VideoTypeOK, LeaseTypeOK
    <3>4. QED
      BY <2>2, <3>2, <3>3 DEF JobStory, StoryOf
  <2>3. QED
    BY <2>1, <2>2
<1>2. ASSUME NEW r \in Requests, NEW w \in Workers, NEW a \in UpstreamAccounts, Claim(r, w, a)
      PROVE  JobStory(q)'
  <2>1. CASE q # r
    <3>1. UNCHANGED Rows5(q)
      BY <1>0, <1>2, <2>1 DEF Claim, Rows5, VideoTypeOK, LeaseTypeOK, TypeOK
    <3>2. QED
      BY <1>0, <3>1, SameStory
  <2>2. CASE q = r
    <3>1. reservation[r] = "held"
      BY <1>0, <1>2, <2>2 DEF Claim, Waiting, JobStory, StoryOf
    <3>2. /\ job'[r] = "running" /\ attempt'[r] = "running" /\ leaseState'[r] = "active"
          /\ request'[r] = "dispatched" /\ reservation'[r] = "held"
      BY <1>0, <1>2, <3>1 DEF Claim, VideoTypeOK, LeaseTypeOK, TypeOK
    <3>3. QED
      BY <2>2, <3>2 DEF JobStory, StoryOf
  <2>3. QED
    BY <2>1, <2>2
<1>3. ASSUME NEW r \in Requests, MarkVideoJobRunning(r) PROVE JobStory(q)'
  <2>1. CASE q # r
    <3>1. UNCHANGED Rows5(q)
      BY <1>0, <1>3, <2>1 DEF MarkVideoJobRunning, Rows5, VideoTypeOK, LeaseTypeOK, TypeOK
    <3>2. QED
      BY <1>0, <3>1, SameStory
  <2>2. CASE q = r
    <3>1. attempt[r] = "queued" /\ leaseState[r] = "held" /\ reservation[r] = "held"
      BY <1>0, <1>3, <2>2 DEF MarkVideoJobRunning, JobStory, StoryOf
    <3>2. /\ job'[r] = "running" /\ attempt'[r] = "running" /\ leaseState'[r] = "active"
          /\ request'[r] = "dispatched" /\ reservation'[r] = "held"
      BY <1>0, <1>3, <3>1 DEF MarkVideoJobRunning, VideoTypeOK, LeaseTypeOK, TypeOK
    <3>3. QED
      BY <2>2, <3>2 DEF JobStory, StoryOf
  <2>3. QED
    BY <2>1, <2>2
<1>4. ASSUME NEW r \in Requests, RequestVideoCancel(r) PROVE JobStory(q)'
  <2>1. CASE q # r
    <3>1. UNCHANGED Rows5(q)
      BY <1>0, <1>4, <2>1
      DEF RequestVideoCancel, CancelAttempted, CancelQueued, ReleaseQueued, ApplySettlement,
          leaseVars, lifeVars, Rows5, VideoTypeOK, LeaseTypeOK, TypeOK
    <3>2. QED
      BY <1>0, <3>1, SameStory
  <2>2. CASE q = r /\ CancelAttempted(r)
    <3>1. /\ attempt[r] \in {"queued", "running"} /\ leaseState[r] \in {"held", "active"}
          /\ reservation[r] = "held"
      BY <1>0, <1>4, <2>2 DEF RequestVideoCancel, CancelAttempted, JobStory, StoryOf
    <3>2. /\ job'[r] = "cancel_requested" /\ attempt'[r] = "cancel_requested"
          /\ request'[r] = "cancel_requested"
          /\ leaseState'[r] = leaseState[r] /\ reservation'[r] = reservation[r]
      BY <1>0, <1>4, <2>2, <3>1
      DEF RequestVideoCancel, CancelAttempted, VideoTypeOK, LeaseTypeOK, TypeOK, leaseVars, lifeVars
    <3>3. QED
      BY <2>2, <3>1, <3>2 DEF JobStory, StoryOf
  <2>3. CASE q = r /\ CancelQueued(r)
    <3>1. attempt[r] = "none" /\ leaseState[r] = "none" /\ reservation[r] = "held"
      BY <1>0, <1>4, <2>3 DEF RequestVideoCancel, CancelQueued, JobStory, StoryOf
    <3>2. reservation'[r] = "released"
      BY <1>0, <2>3, <3>1 DEF CancelQueued, ReleaseQueued, ApplySettlement, TypeOK
    <3>3. /\ job'[r] = "canceled" /\ request'[r] = "settled"
          /\ attempt'[r] = "none" /\ leaseState'[r] = "none"
      BY <1>0, <1>4, <2>3, <3>1
      DEF RequestVideoCancel, CancelQueued, VideoTypeOK, TypeOK, leaseVars, lifeVars
    <3>4. QED
      BY <2>3, <3>2, <3>3 DEF JobStory, StoryOf
  <2>4. QED
    BY <1>4, <2>1, <2>2, <2>3 DEF RequestVideoCancel
<1>5. ASSUME NEW r \in Requests, NEW o \in LeaseOutcome(r), EndJob(r, o)
      PROVE  JobStory(q)'
  <2>0. PICK ref \in BOOLEAN : SyncJob(r, o.request, ref)
    BY <1>5 DEF EndJob
  <2>1. CASE q # r
    <3>1. UNCHANGED Rows5(q)
      BY <1>0, <1>5, <2>0, <2>1
      DEF EndJob, CloseLease, ApplySettlement, SyncJob, Rows5, VideoTypeOK, LeaseTypeOK, TypeOK
    <3>2. QED
      BY <1>0, <3>1, SameStory
  <2>2. CASE q = r
    <3>1. /\ job'[r] = o.request /\ attempt'[r] = o.request
      BY <2>0 DEF SyncJob, VideoTypeOK
    <3>2. /\ leaseState'[r] = o.lease
          /\ request'[r] = IF o.request = "unknown" THEN "unknown" ELSE "settled"
      BY <1>0, <1>5 DEF EndJob, CloseLease, LeaseTypeOK, TypeOK
    <3>3. /\ o.quota.kind = "release" => reservation'[r] = "released"
          /\ o.quota.kind = "commit" => reservation'[r] = "committed"
          /\ o.quota.kind \in {"unmetered", "unknown"} => reservation'[r] = "unknown"
      BY <1>0, <1>5 DEF EndJob, CloseLease, ApplySettlement, TypeOK
    <3>4. QED
      BY <2>2, <3>1, <3>2, <3>3, OutcomeType DEF JobStory, StoryOf
  <2>3. QED
    BY <2>1, <2>2
<1>6. CASE RecoverVideo
  <2>1. CASE q \notin Expired
    <3>1. UNCHANGED Rows5(q)
      BY <1>0, <1>6, <2>1 DEF RecoverVideo, RecoverExpired, Rows5
    <3>2. QED
      BY <1>0, <3>1, SameStory
  <2>2. CASE q \in Expired
    <3>1. /\ job'[q] = "unknown" /\ attempt'[q] = "unknown" /\ leaseState'[q] = "unknown"
          /\ request'[q] = "unknown" /\ reservation'[q] = "unknown"
      BY <1>6, <2>2 DEF RecoverVideo, RecoverExpired
    <3>2. QED
      BY <3>1 DEF JobStory, StoryOf
  <2>3. QED
    BY <2>1, <2>2
<1>7. ASSUME \/ \E r \in Requests, w \in Workers : HeartbeatVideoJob(w, r)
             \/ \E r \in Requests : RecordVideoJobAcceptance(r)
             \/ Environment
      PROVE  JobStory(q)'
  <2>1. UNCHANGED Rows5(q)
    BY <1>7
    DEF HeartbeatVideoJob, RecordVideoJobAcceptance, Environment, Rows5, vars, quotaVars, holdVars,
        leaseVars, lifeVars, queueVars, jobVars
  <2>2. QED
    BY <1>0, <2>1, SameStory
<1>8. QED
  BY <1>1, <1>2, <1>3, <1>4, <1>5, <1>6, <1>7, VideoCases

LEMMA JobsStep ==
    VideoTypeOK /\ FinitelyQueued /\ JobAgreesWithLease /\ [VideoNext]_videoVars => FinitelyQueued'
<1> SUFFICES ASSUME VideoTypeOK, FinitelyQueued, JobAgreesWithLease, [VideoNext]_videoVars
             PROVE  FinitelyQueued'
  OBVIOUS
<1>1. ASSUME NEW r \in Requests, NEW s, job' = [job EXCEPT ![r] = s] PROVE FinitelyQueued'
  <2>1. Jobs' \subseteq Jobs \cup {r}
    BY <1>1 DEF VideoTypeOK, Jobs
  <2>2. IsFiniteSet(Jobs \cup {r})
    BY FS_AddElement DEF FinitelyQueued
  <2>3. QED
    BY <2>1, <2>2, FS_Subset DEF FinitelyQueued
<1>2. CASE UNCHANGED job
  BY <1>2 DEF FinitelyQueued, Jobs
<1>3. CASE RecoverVideo
  <2>1. \A r \in Expired : job[r] # "none"
    BY StoryRead DEF Expired, Open, JobAgreesWithLease
  <2>2. Jobs' \subseteq Jobs
    BY <1>3, <2>1 DEF RecoverVideo, Jobs
  <2>3. QED
    BY <2>2, FS_Subset DEF FinitelyQueued
<1>4. QED
  BY <1>1, <1>2, <1>3, VideoCases
  DEF InsertJob, Claim, HeartbeatVideoJob, MarkVideoJobRunning, RecordVideoJobAcceptance,
      RequestVideoCancel, CancelAttempted, CancelQueued, EndJob, SyncJob, Environment,
      queueVars, jobVars

\* The invariant the rest of the module builds on.
QueueInv == VideoTypeOK /\ FinitelyQueued /\ JobAgreesWithLease

LEMMA QueueInit == VideoInit => QueueInv
<1>1. VideoInit => VideoTypeOK
  <2>1. VideoInit => LeaseTypeOK
    BY InitType DEF VideoInit, LeaseInit, LeaseTypeOK, LeaseState
  <2>2. QED
    BY <2>1 DEF VideoInit, VideoTypeOK
<1>2. VideoInit => FinitelyQueued
  <2>1. VideoInit => Jobs = {}
    BY DEF VideoInit, Jobs
  <2>2. QED
    BY <2>1, FS_EmptySet DEF FinitelyQueued
<1>3. VideoInit => JobAgreesWithLease
  BY DEF VideoInit, LeaseInit, Init, JobAgreesWithLease, JobStory, StoryOf
<1>4. QED
  BY <1>1, <1>2, <1>3 DEF QueueInv

LEMMA QueueStep == QueueInv /\ [VideoNext]_videoVars => QueueInv'
BY VideoStepType, StoryStep, JobsStep DEF QueueInv

LEMMA AlwaysQueueInv == VideoSpec => []QueueInv
BY QueueInit, QueueStep, PTL DEF VideoSpec

\* Every variable of the queue keeps its type.
THEOREM VideoTypeCorrect == VideoSpec => []VideoTypeOK
BY AlwaysQueueInv, PTL DEF QueueInv

\* Job, attempt, lease, request and reservation tell one story in every
\* reachable state.
THEOREM VideoAgreement == VideoSpec => []JobAgreesWithLease
BY AlwaysQueueInv, PTL DEF QueueInv

-----------------------------------------------------------------------------
(* Claims.                                                                   *)

ClaimFits(r) ==
    claimOwner[r] # NoWorker =>
        /\ job[r] \in {"running", "cancel_requested"}
        /\ leaseState[r] = "active"
        /\ claimExpires[r] = leaseExpires[r]

LEMMA SameClaim ==
    ASSUME NEW r, ClaimFits(r),
           UNCHANGED <<job[r], leaseState[r], leaseExpires[r], claimOwner[r], claimExpires[r]>>
    PROVE  ClaimFits(r)'
BY DEF ClaimFits

LEMMA ClaimStep == QueueInv /\ ClaimMatchesLease /\ [VideoNext]_videoVars => ClaimMatchesLease'
<1> SUFFICES ASSUME QueueInv, ClaimMatchesLease, [VideoNext]_videoVars, NEW q \in Requests
             PROVE  ClaimFits(q)'
  BY DEF ClaimMatchesLease, ClaimFits
<1>0. ClaimFits(q) /\ JobStory(q) /\ VideoTypeOK /\ LeaseTypeOK
  BY DEF ClaimMatchesLease, ClaimFits, QueueInv, JobAgreesWithLease, VideoTypeOK
<1>1. ASSUME NEW r \in Requests, InsertJob(r),
             EnqueueVideoJob(r) \/ \E a \in UpstreamAccounts : PreflightVideoJob(r, a)
      PROVE  ClaimFits(q)'
  <2>1. CASE q # r
    BY <1>0, <1>1, <2>1, SameClaim
    DEF InsertJob, EnqueueVideoJob, PreflightVideoJob, TakeSlot, lifeVars, VideoTypeOK, LeaseTypeOK
  <2>2. CASE q = r
    BY <1>0, <1>1, <2>2, StoryRead DEF InsertJob, ClaimFits
  <2>3. QED
    BY <2>1, <2>2
<1>2. ASSUME NEW r \in Requests, NEW w \in Workers, NEW a \in UpstreamAccounts, Claim(r, w, a)
      PROVE  ClaimFits(q)'
  <2>1. CASE q # r
    BY <1>0, <1>2, <2>1, SameClaim DEF Claim, TakeSlot, VideoTypeOK, LeaseTypeOK
  <2>2. CASE q = r
    <3>1. /\ job'[r] = "running" /\ leaseState'[r] = "active"
          /\ claimExpires'[r] = leaseExpires'[r]
      BY <1>0, <1>2 DEF Claim, VideoTypeOK, LeaseTypeOK
    <3>2. QED
      BY <2>2, <3>1 DEF ClaimFits
  <2>3. QED
    BY <2>1, <2>2
<1>3. ASSUME NEW r \in Requests, NEW w \in Workers, HeartbeatVideoJob(w, r) PROVE ClaimFits(q)'
  <2>1. CASE q # r
    BY <1>0, <1>3, <2>1, SameClaim DEF HeartbeatVideoJob, VideoTypeOK, LeaseTypeOK
  <2>2. CASE q = r
    BY <1>0, <1>3, <2>2 DEF HeartbeatVideoJob, ClaimFits, VideoTypeOK, LeaseTypeOK
  <2>3. QED
    BY <2>1, <2>2
<1>4. ASSUME NEW r \in Requests, MarkVideoJobRunning(r) PROVE ClaimFits(q)'
  <2>1. CASE q # r
    BY <1>0, <1>4, <2>1, SameClaim DEF MarkVideoJobRunning, VideoTypeOK, LeaseTypeOK
  <2>2. CASE q = r
    BY <1>0, <1>4, <2>2 DEF MarkVideoJobRunning, ClaimFits
  <2>3. QED
    BY <2>1, <2>2
<1>5. ASSUME NEW r \in Requests, RequestVideoCancel(r) PROVE ClaimFits(q)'
  <2>1. CASE q # r
    BY <1>0, <1>5, <2>1, SameClaim
    DEF RequestVideoCancel, CancelAttempted, CancelQueued, leaseVars, lifeVars, VideoTypeOK
  <2>2. CASE q = r /\ CancelAttempted(r)
    BY <1>0, <1>5, <2>2
    DEF RequestVideoCancel, CancelAttempted, leaseVars, lifeVars, VideoTypeOK, ClaimFits
  <2>3. CASE q = r /\ CancelQueued(r)
    <3>1. job[r] = "queued"
      BY <1>0, <1>5, <2>3 DEF RequestVideoCancel, CancelQueued, JobStory, StoryOf
    <3>2. QED
      BY <1>0, <1>5, <2>3, <3>1 DEF RequestVideoCancel, ClaimFits
  <2>4. QED
    BY <1>5, <2>1, <2>2, <2>3 DEF RequestVideoCancel
<1>6. ASSUME NEW r \in Requests, NEW o \in LeaseOutcome(r), EndJob(r, o) PROVE ClaimFits(q)'
  <2>0. PICK ref \in BOOLEAN : SyncJob(r, o.request, ref)
    BY <1>6 DEF EndJob
  <2>1. CASE q # r
    BY <1>0, <1>6, <2>0, <2>1, SameClaim DEF EndJob, CloseLease, SyncJob, VideoTypeOK, LeaseTypeOK
  <2>2. CASE q = r
    BY <1>0, <2>0, <2>2 DEF SyncJob, ClaimFits, VideoTypeOK
  <2>3. QED
    BY <2>1, <2>2
<1>7. CASE RecoverVideo
  <2>1. CASE q \notin Expired
    BY <1>0, <1>7, <2>1, SameClaim DEF RecoverVideo, RecoverExpired
  <2>2. CASE q \in Expired
    BY <1>7, <2>2 DEF RecoverVideo, ClaimFits
  <2>3. QED
    BY <2>1, <2>2
<1>8. ASSUME \/ \E r \in Requests : RecordVideoJobAcceptance(r)
             \/ Environment
      PROVE  ClaimFits(q)'
  <2>1. UNCHANGED <<job, leaseState, leaseExpires, claimOwner, claimExpires>>
    BY <1>8
    DEF RecordVideoJobAcceptance, Environment, vars, leaseVars, lifeVars, queueVars, jobVars
  <2>2. QED
    BY <1>0, <2>1, SameClaim
<1>9. QED
  BY <1>1, <1>2, <1>3, <1>4, <1>5, <1>6, <1>7, <1>8, VideoCases DEF QueueInv

\* A claim lives exactly as long as the lease behind it.
THEOREM VideoClaims == VideoSpec => []ClaimMatchesLease
<1>1. VideoInit => ClaimMatchesLease
  BY DEF VideoInit, ClaimMatchesLease
<1>2. QED
  BY <1>1, AlwaysQueueInv, ClaimStep, PTL DEF VideoSpec

-----------------------------------------------------------------------------
(* No second account.                                                        *)

Stays(q) ==
    leaseAccount'[q] = leaseAccount[q] /\ (job'[q] = "running" => job[q] \in {"queued", "running"})

LEMMA StaysStep ==
    ASSUME QueueInv, [VideoNext]_videoVars, NEW q \in Requests, leaseState[q] # "none"
    PROVE  Stays(q)
<1>0. JobStory(q) /\ VideoTypeOK /\ LeaseTypeOK
  BY DEF QueueInv, JobAgreesWithLease, VideoTypeOK
<1>1. ASSUME NEW r \in Requests, InsertJob(r),
             EnqueueVideoJob(r) \/ \E a \in UpstreamAccounts : PreflightVideoJob(r, a)
      PROVE  Stays(q)
  <2>1. q # r
    <3>1. ASSUME q = r PROVE FALSE
      <4>1. job[q] = "none"
        BY <1>0, <1>1, <3>1, StoryRead DEF InsertJob
      <4>2. QED
        BY <1>0, <4>1 DEF JobStory, StoryOf
    <3>2. QED
      BY <3>1
  <2>2. job'[q] = job[q] /\ leaseAccount'[q] = leaseAccount[q]
    BY <1>0, <1>1, <2>1
    DEF InsertJob, EnqueueVideoJob, PreflightVideoJob, TakeSlot, lifeVars, VideoTypeOK, LeaseTypeOK
  <2>3. QED
    BY <2>2 DEF Stays
<1>2. ASSUME NEW r \in Requests, NEW w \in Workers, NEW a \in UpstreamAccounts, Claim(r, w, a)
      PROVE  Stays(q)
  <2>1. CASE q # r
    <3>1. job'[q] = job[q] /\ leaseAccount'[q] = leaseAccount[q]
      BY <1>0, <1>2, <2>1 DEF Claim, TakeSlot, VideoTypeOK, LeaseTypeOK
    <3>2. QED
      BY <3>1 DEF Stays
  <2>2. CASE q = r
    <3>1. job[r] = "queued"
      BY <1>2 DEF Claim, Waiting
    <3>2. attempt[r] # "none"
      BY <1>0, <2>2, <3>1, StoryRead
    <3>3. leaseAccount' = leaseAccount
      BY <1>2, <3>2 DEF Claim
    <3>4. QED
      BY <2>2, <3>1, <3>3 DEF Stays
  <2>3. QED
    BY <2>1, <2>2
<1>3. ASSUME NEW r \in Requests, MarkVideoJobRunning(r) PROVE Stays(q)
  BY <1>0, <1>3 DEF MarkVideoJobRunning, Stays, VideoTypeOK
<1>4. ASSUME NEW r \in Requests, RequestVideoCancel(r) PROVE Stays(q)
  BY <1>0, <1>4
  DEF RequestVideoCancel, CancelAttempted, CancelQueued, leaseVars, lifeVars, Stays, VideoTypeOK
<1>5. ASSUME NEW r \in Requests, NEW o \in LeaseOutcome(r), EndJob(r, o) PROVE Stays(q)
  <2>1. PICK ref \in BOOLEAN : SyncJob(r, o.request, ref)
    BY <1>5 DEF EndJob
  <2>2. o.request # "running"
    BY OutcomeType
  <2>3. QED
    BY <1>0, <1>5, <2>1, <2>2 DEF EndJob, CloseLease, SyncJob, Stays, VideoTypeOK
<1>6. CASE RecoverVideo
  BY <1>6 DEF RecoverVideo, RecoverExpired, Stays
<1>7. ASSUME \/ \E r \in Requests, w \in Workers : HeartbeatVideoJob(w, r)
             \/ \E r \in Requests : RecordVideoJobAcceptance(r)
             \/ Environment
      PROVE  Stays(q)
  BY <1>7
  DEF HeartbeatVideoJob, RecordVideoJobAcceptance, Environment, vars, leaseVars, lifeVars,
      queueVars, jobVars, Stays
<1>8. QED
  BY <1>0, <1>1, <1>2, <1>3, <1>4, <1>5, <1>6, <1>7, VideoCases

\* No job is ever run on a second account, whatever was lost.
THEOREM VideoNoSecondAccount == VideoSpec => NoSecondAccount
<1>1. QueueInv /\ [VideoNext]_videoVars =>
        [\A r \in Requests :
           leaseState[r] # "none" =>
              leaseAccount'[r] = leaseAccount[r]
              /\ (job'[r] = "running" => job[r] \in {"queued", "running"})]_videoVars
  BY StaysStep DEF Stays
<1>2. QED
  BY <1>1, AlwaysQueueInv, PTL DEF VideoSpec, NoSecondAccount

-----------------------------------------------------------------------------
(* Money.                                                                    *)

LEMMA VideoMoves ==
    ASSUME QueueInv, [VideoNext]_videoVars
    PROVE  MoneyMove
<1>0. VideoTypeOK /\ LeaseTypeOK
  BY DEF QueueInv, VideoTypeOK
<1>1. ASSUME NEW r \in Requests, InsertJob(r) PROVE MoneyMove
  BY <1>1 DEF InsertJob, MoneyMove
<1>2. ASSUME NEW r \in Requests, RequestVideoCancel(r) PROVE MoneyMove
  <2>1. [kind |-> "release", units |-> 0] \in Settlement(r)
    BY DEF Settlement
  <2>2. \/ UNCHANGED <<available, reservation, heldOn, ledger>>
        \/ /\ reservation[r] = "held"
           /\ ApplySettlement(r, [kind |-> "release", units |-> 0])
    BY <1>2 DEF RequestVideoCancel, CancelAttempted, CancelQueued, ReleaseQueued
  <2>3. QED
    BY <2>1, <2>2 DEF MoneyMove, Unsettled
<1>3. ASSUME NEW r \in Requests, NEW o \in LeaseOutcome(r), EndJob(r, o) PROVE MoneyMove
  <2>1. reservation[r] \in {"held", "unknown"}
    BY <1>0, <1>3, StoryRead DEF EndJob, Open, QueueInv, JobAgreesWithLease
  <2>2. o.quota \in Settlement(r) /\ ApplySettlement(r, o.quota)
    BY <1>3, OutcomeType DEF EndJob, CloseLease
  <2>3. QED
    BY <2>1, <2>2 DEF MoneyMove, Unsettled
<1>4. CASE RecoverVideo
  <2>1. \A r \in Expired : reservation[r] = "held"
    BY <1>0, StoryRead DEF Expired, Open, QueueInv, JobAgreesWithLease
  <2>2. LoseHeld
    BY <1>4, <2>1 DEF RecoverVideo, RecoverExpired, LoseHeld
  <2>3. QED
    BY <2>2 DEF MoneyMove
<1>5. CASE UNCHANGED <<available, reservation, heldOn, ledger>>
  BY <1>5 DEF MoneyMove
<1>6. CASE Environment
  <2>1. CASE UNCHANGED vars
    BY <1>5, <2>1 DEF vars, quotaVars, holdVars
  <2>2. CASE [LeaseNext]_vars /\ UNCHANGED <<request, reservation, heldOn, ledger, lifeVars>>
    <3>1. CASE UNCHANGED available
      BY <1>5, <2>2, <3>1
    <3>2. CASE AdminStep
      BY <1>0, <3>2, AdminCases DEF MoneyMove
    <3>3. ASSUME NEW r \in Requests, NEW o \in LeaseOutcome(r),
                 SettleLease(r, o) \/ ReconcileLease(r, o)
          PROVE  MoneyMove
      <4>1. reservation[r] \in {"held", "unknown"}
        BY <1>0, <3>3, StoryRead DEF SettleLease, ReconcileLease, Open, QueueInv, JobAgreesWithLease
      <4>2. o.quota \in Settlement(r) /\ ApplySettlement(r, o.quota)
        BY <3>3, OutcomeType DEF SettleLease, ReconcileLease, CloseLease
      <4>3. QED
        BY <4>1, <4>2 DEF MoneyMove, Unsettled
    <3>4. ASSUME NEW r \in Requests, NEW a \in UpstreamAccounts, AcquireLease(r, a)
          PROVE  MoneyMove
      BY <3>4 DEF AcquireLease, MoneyMove
    <3>5. QED
      BY <2>2, <3>1, <3>2, <3>3, <3>4
      DEF LeaseNext, OwnerNext, Heartbeat, RequestCancel, RecoverExpired, SetSelectable, Tick,
          vars, quotaVars, holdVars
  <2>3. QED
    BY <1>6, <2>1, <2>2 DEF Environment
<1>7. QED
  BY <1>0, <1>1, <1>2, <1>3, <1>4, <1>5, <1>6, VideoCases
  DEF Claim, HeartbeatVideoJob, MarkVideoJobRunning, RecordVideoJobAcceptance, vars,
      quotaVars, holdVars

\* No operation of the queue grants anything.
LEMMA VideoGrants == [VideoNext]_videoVars => GrantMove
<1> SUFFICES ASSUME [VideoNext]_videoVars PROVE GrantMove
  OBVIOUS
<1>1. ASSUME NEW r \in Requests, JobNext(r) PROVE granted' = granted
  BY <1>1
  DEF JobNext, InsertJob, PreflightVideoJob, EnqueueVideoJob, ClaimVideoJobById, Claim, HeartbeatVideoJob,
      MarkVideoJobRunning, RecordVideoJobAcceptance, RequestVideoCancel, SettleVideo, ReconcileVideo,
      SettleLease, ReconcileLease, vars, quotaVars, adminVars
<1>2. ASSUME NEW w \in Workers, ClaimNextVideoJob(w) PROVE granted' = granted
  BY <1>2 DEF ClaimNextVideoJob, Claim, adminVars
<1>3. ASSUME RecoverVideo PROVE granted' = granted
  BY <1>3 DEF RecoverVideo, RecoverExpired, adminVars
<1>4. ASSUME EnvironmentNext PROVE GrantMove
  BY <1>4, LeaseGrants DEF EnvironmentNext, SetUserStatus, LeaseNext, GrantMove, vars, quotaVars, adminVars
<1>5. CASE UNCHANGED videoVars
  BY <1>5 DEF videoVars, vars, quotaVars, adminVars, GrantMove
<1> QED
  BY <1>1, <1>2, <1>3, <1>4, <1>5 DEF VideoNext, GrantMove

LEMMA TypeOfQueue == QueueInv => TypeOK
BY DEF QueueInv, VideoTypeOK, LeaseTypeOK

\* No operation of the queue overdraws an account.
THEOREM VideoSolvency == VideoSpec => []NeverOverdrawn
<1>1. VideoInit => NeverOverdrawn
  BY DEF VideoInit, LeaseInit, Init, NeverOverdrawn
<1>2. QED
  BY <1>1, AlwaysQueueInv, VideoMoves, MoveBalance, TypeOfQueue, StepNeverOverdrawn, PTL
  DEF VideoSpec

\* The rows of a reservation and its state never disagree, although cancels
\* inside the queue now settle it too.
THEOREM VideoLedgerAgreement == VideoSpec => []LedgerMatchesReservation
<1>1. VideoInit => LedgerMatchesReservation
  BY DEF VideoInit, LeaseInit, Init, LedgerMatchesReservation, GroupReserved, GroupSettled
<1>2. QED
  BY <1>1, AlwaysQueueInv, VideoMoves, MoveLedger, TypeOfQueue, PTL DEF VideoSpec

\* However jobs are enqueued, claimed, canceled, lost and reconciled, the balance
\* of every account stays what it was granted.
THEOREM VideoConservation == VideoSpec => []Conservation
<1> DEFINE AllFunds == \A a \in Accounts : Funds(a)
<1>1. VideoInit => AllFunds
  BY InitFunds DEF VideoInit, LeaseInit
<1>2. /\ QueueInv /\ QueueInv' /\ LedgerMatchesReservation /\ AllFunds /\ [VideoNext]_videoVars
      => AllFunds'
  BY VideoMoves, VideoGrants, MoveFunds DEF QueueInv, VideoTypeOK, LeaseTypeOK
<1>3. AllFunds => Conservation
  BY DEF Funds, Conservation
<1>4. QED
  BY <1>1, <1>2, <1>3, AlwaysQueueInv, VideoLedgerAgreement, PTL DEF VideoSpec

\* Money given back or charged for a job is never touched again.
THEOREM VideoSettlementIsFinal == VideoSpec => SettledOnce
<1>1. QueueInv /\ [VideoNext]_videoVars =>
        [\A r \in Requests :
           reservation[r] \in {"released", "committed"} =>
              reservation'[r] = reservation[r] /\ ledger'[r] = ledger[r]]_quotaVars
  BY VideoMoves, MoveFinal, TypeOfQueue
<1>2. QED
  BY <1>1, AlwaysQueueInv, PTL DEF VideoSpec, SettledOnce

\* With the queue on top of leases and ledger, the ledger is still an escrow.
THEOREM VideoImplementation == VideoSpec => ImplementsBudgetHold
<1>1. VideoInit => Escrow!Init
  BY DEF VideoInit, LeaseInit, Init, Escrow!Init, HoldOf
<1>2. QED
  BY <1>1, AlwaysQueueInv, VideoMoves, MoveEscrow, TypeOfQueue, PTL
  DEF VideoSpec, ImplementsBudgetHold, Escrow!Spec

-----------------------------------------------------------------------------
(* Slots.                                                                    *)

\* A step that takes no slot: it leaves or ends leases.
Keeps ==
    \A q \in Requests :
        /\ leaseAccount'[q] = leaseAccount[q]
        /\ leaseState'[q] # "none" => leaseState[q] # "none"
        /\ leaseState'[q] \in {"held", "active", "unknown"} =>
              leaseState[q] \in {"held", "active", "unknown"}

LEMMA KeepsSlots == Keeps => SlotMove /\ LeasedMove
<1>1. Keeps => \A b \in UpstreamAccounts : OnSlot(b)' \subseteq OnSlot(b)
  BY DEF Keeps, OnSlot
<1>2. Keeps => Leased' \subseteq Leased
  BY DEF Keeps, Leased
<1>3. QED
  BY <1>1, <1>2 DEF SlotMove, LeasedMove

LEMMA TakesSlot ==
    ASSUME LeaseTypeOK, NEW r \in Requests, NEW a \in UpstreamAccounts, TakeSlot(r, a),
           NEW t, leaseState' = [leaseState EXCEPT ![r] = t]
    PROVE  SlotMove /\ LeasedMove
<1>1. /\ Cardinality(OnSlot(a)) < MaxConcurrency[a]
      /\ OnSlot(a)' \subseteq OnSlot(a) \cup {r}
      /\ \A b \in UpstreamAccounts \ {a} : OnSlot(b)' \subseteq OnSlot(b)
  BY DEF TakeSlot, OnSlot, LeaseTypeOK
<1>2. Leased' \subseteq Leased \cup {r}
  BY DEF LeaseTypeOK, Leased
<1>3. QED
  BY <1>1, <1>2 DEF SlotMove, LeasedMove

LEMMA VideoSlotCases ==
    ASSUME QueueInv, [VideoNext]_videoVars
    PROVE  SlotMove /\ LeasedMove
<1>0. VideoTypeOK /\ LeaseTypeOK
  BY DEF QueueInv, VideoTypeOK
<1>1. ASSUME NEW r \in Requests, NEW a \in UpstreamAccounts, PreflightVideoJob(r, a)
      PROVE  SlotMove /\ LeasedMove
  BY <1>0, <1>1, TakesSlot DEF PreflightVideoJob
<1>2. ASSUME NEW r \in Requests, NEW w \in Workers, NEW a \in UpstreamAccounts, Claim(r, w, a)
      PROVE  SlotMove /\ LeasedMove
  <2>1. CASE TakeSlot(r, a)
    BY <1>0, <1>2, <2>1, TakesSlot DEF Claim
  <2>2. CASE leaseState[r] = "held" /\ UNCHANGED leaseAccount
    <3>1. Keeps
      BY <1>0, <1>2, <2>2 DEF Claim, Keeps, LeaseTypeOK
    <3>2. QED
      BY <3>1, KeepsSlots
  <2>3. QED
    BY <1>2, <2>1, <2>2 DEF Claim
<1>3. ASSUME NEW r \in Requests, MarkVideoJobRunning(r) PROVE Keeps
  BY <1>0, <1>3 DEF MarkVideoJobRunning, Keeps, LeaseTypeOK
<1>4. ASSUME NEW r \in Requests, NEW o \in LeaseOutcome(r), EndJob(r, o) PROVE Keeps
  BY <1>0, <1>4 DEF EndJob, CloseLease, Open, Keeps, LeaseTypeOK
<1>5. ASSUME RecoverVideo PROVE Keeps
  BY <1>5 DEF RecoverVideo, RecoverExpired, Expired, Open, Keeps
<1>6. ASSUME UNCHANGED lifeVars PROVE Keeps
  BY <1>6 DEF lifeVars, Keeps
<1>7. ASSUME NEW r \in Requests, NEW w \in Workers, HeartbeatVideoJob(w, r) PROVE Keeps
  BY <1>7 DEF HeartbeatVideoJob, Keeps
<1>8. QED
  BY <1>0, <1>1, <1>2, <1>3, <1>4, <1>5, <1>6, <1>7, KeepsSlots, VideoCases
  DEF EnqueueVideoJob, RecordVideoJobAcceptance, RequestVideoCancel, Environment, vars, leaseVars

\* No upstream account is given more jobs than its slots, whoever claims them
\* and however many of them stay unknown.
THEOREM VideoSlots == VideoSpec => []SlotsWithinLimit
<1>1. VideoInit => FinitelyLeased
  <2>1. VideoInit => Leased = {}
    BY DEF VideoInit, LeaseInit, Leased
  <2>2. QED
    BY <2>1, FS_EmptySet DEF FinitelyLeased
<1>2. VideoInit => SlotsWithinLimit
  <2> SUFFICES ASSUME VideoInit, NEW a \in UpstreamAccounts
               PROVE  Cardinality(OnSlot(a)) <= MaxConcurrency[a]
    BY DEF SlotsWithinLimit
  <2>1. OnSlot(a) = {}
    BY DEF VideoInit, LeaseInit, OnSlot
  <2>2. QED
    BY <2>1, FS_EmptySet, LeaseConstants
<1>3. QED
  BY <1>1, <1>2, AlwaysQueueInv, VideoSlotCases, MoveLeased, MoveSlots, PTL DEF VideoSpec

-----------------------------------------------------------------------------
(* The gateway around the queue. A job that was claimed has an attempt; only  *)
(* for such a job is the upstream called, settled with or asked to cancel.    *)

Claimed(r) == job[r] \notin {"none", "queued"} /\ attempt[r] # "none"

\* The upstream will not make the video.
Refused(r) == upstream[r] \in {"refused", "canceled"}

GateTypeOK ==
    /\ pc \in [Actors -> Steps]
    /\ target \in [Actors -> Requests \cup {NoRequest}]
    /\ outcome \in [Actors -> [kind : Outcome \cup {"none"}, ref : BOOLEAN]]
    /\ creator \in [Requests -> Submissions \cup {NoJob}]
    /\ payload \subseteq Submissions
    /\ permits \subseteq Submissions
    /\ counted \subseteq Submissions
    /\ upstream \in [Requests -> {"none", "refused", "accepted", "canceled"}]
    /\ sends \in [Requests -> Nat]
    /\ restarts \in 0..MaxRestarts

\* What was sent and answered for a request, and what its money says about it.
SentOK(r) ==
    /\ ~Claimed(r) => sends[r] = 0
    /\ sends[r] <= 1
    /\ sends[r] = 0 => upstream[r] = "none"
    /\ reservation[r] = "released" /\ Claimed(r) => Refused(r)

\* The submission that made a job is past its own clean-up.
CreatorOK(r) ==
    creator[r] # NoJob =>
        /\ RequestOf[creator[r]] = r
        /\ pc[creator[r]] \notin {"idle", "admitted", "stored", "refused", "replayed"}

SubmissionOK(s) == target[s] = RequestOf[s] /\ (pc[s] = "stored" => s \in payload)

Chasing == {"load", "submitting", "calling", "orphaned", "answered", "doubt", "forget", "release",
            "recheck", "asking", "confirm"}

\* Whoever works on a job works on one that was claimed, and what it is about
\* to record or to clean up is true of the job.
ActorOK(x) ==
    /\ pc[x] \in Chasing => target[x] \in Requests /\ Claimed(target[x])
    /\ pc[x] \in {"load", "submitting"} => sends[target[x]] = 0
    /\ pc[x] = "calling" => sends[target[x]] # 0
    /\ pc[x] = "answered" => outcome[x].kind # "none"
    /\ pc[x] = "doubt" => outcome[x].kind = "unknown"
    /\ pc[x] = "confirm" => outcome[x].kind \in {"canceled", "unknown"}
    /\ pc[x] \in {"answered", "confirm"} /\ outcome[x].kind \in {"rejected", "canceled"} =>
          Refused(target[x])
    /\ pc[x] = "answered" /\ outcome[x].kind = "rejected" => ~outcome[x].ref
    /\ pc[x] \in {"forget", "release"} => ~Unfinished(target[x])

\* A job is about to be sent by one actor only.
OneCaller ==
    \A x, y \in Actors :
        /\ pc[x] \in {"load", "submitting"} /\ pc[y] \in {"load", "submitting"}
        /\ target[x] = target[y]
        => x = y

GateInv ==
    /\ GateTypeOK
    /\ \A r \in Requests : SentOK(r) /\ CreatorOK(r)
    /\ \A s \in Submissions : SubmissionOK(s)
    /\ \A x \in Actors : ActorOK(x)
    /\ OneCaller
    /\ UnfinishedHasPayload
    /\ UnfinishedHoldsPermit

SubmitInv == QueueInv /\ GateInv

-----------------------------------------------------------------------------
(* The gateway's steps as steps of the queue.                                *)

\* x closes the lease of its job with the outcome it has.
Settles(x) ==
    /\ pc[x] \in {"answered", "doubt", "confirm"}
    /\ pc[x] = "answered" => outcome[x].kind # "accepted"
    /\ \E l \in LeaseOutcome(target[x]) :
          l.request = ClosesAs[outcome[x].kind] /\ SettleVideo(target[x], l, outcome[x].ref)

\* s makes the job of its request.
Creates(s) ==
    /\ pc[s] = "stored"
    /\ EnqueueVideoJob(RequestOf[s])
    /\ creator' = [creator EXCEPT ![RequestOf[s]] = s]
    /\ Goto(s, "created")
    /\ UNCHANGED payload

Runs ==
    \/ \E r \in Requests, w \in Workers : HeartbeatVideoJob(w, r)
    \/ \E r \in Requests : RecordVideoJobAcceptance(r)
    \/ AdminStep /\ UNCHANGED <<reservation, queueVars>>
    \/ Tick /\ UNCHANGED queueVars
    \/ UNCHANGED videoVars

LEMMA SettleCases ==
    ASSUME NEW x \in Actors, pc[x] \in {"answered", "doubt", "confirm"},
           pc[x] = "answered" => outcome[x].kind # "accepted",
           SettleJob(target[x], outcome[x])
    PROVE  Settles(x) \/ (~Open(target[x]) /\ UNCHANGED videoVars)
BY DEF SettleJob, Settles

LEMMA QueueCases ==
    ASSUME SubmitInv, [SubmitNext]_submitVars
    PROVE  \/ \E s \in Submissions : Creates(s)
           \/ \E w \in Workers, r \in Requests : ClaimVideoJobById(r, w)
           \/ \E w \in Workers : ClaimNextVideoJob(w)
           \/ \E r \in Requests : RequestVideoCancel(r)
           \/ RecoverVideo
           \/ \E x \in Actors : Settles(x)
           \/ Runs
<1> DEFINE Cases ==
           \/ \E s \in Submissions : Creates(s)
           \/ \E w \in Workers, r \in Requests : ClaimVideoJobById(r, w)
           \/ \E w \in Workers : ClaimNextVideoJob(w)
           \/ \E r \in Requests : RequestVideoCancel(r)
           \/ RecoverVideo
           \/ \E x \in Actors : Settles(x)
           \/ Runs
<1>0. /\ \A s \in Submissions : RequestOf[s] \in Requests
      /\ \A x \in Actors : WorkerId(x) \in Workers
      /\ QueueWorkers \subseteq Workers /\ HttpWorker \in Workers
      /\ Submissions \subseteq Actors /\ QueueWorkers \subseteq Actors /\ Cancellations \subseteq Actors
  BY SubmitConstants DEF Actors, WorkerId
<1>1. ASSUME NEW s \in Submissions, SubmissionNext(s) PROVE Cases
  <2>1. CASE Enqueue(s)
    BY <2>1 DEF Enqueue, Creates, Runs
  <2>2. CASE ClaimOwn(s)
    BY <2>2, <1>0 DEF ClaimOwn
  <2>3. CASE Admit(s) \/ PutPayload(s) \/ Discard(s) \/ Retain(s) \/ ClaimMisses(s) \/ HangUp(s)
    <3>1. UNCHANGED videoVars
      BY <2>3 DEF Admit, PutPayload, Discard, Retain, ClaimMisses, HangUp
    <3>2. QED
      BY <3>1 DEF Runs
  <2>4. QED
    BY <1>1, <2>1, <2>2, <2>3 DEF SubmissionNext
<1>2. ASSUME NEW w \in QueueWorkers, WorkerClaims(w) \/ Load(w) PROVE Cases
  <2>1. CASE WorkerClaims(w)
    <3>1. ClaimNextVideoJob(w)
      BY <2>1 DEF WorkerClaims, ClaimNextVideoJob
    <3>2. QED
      BY <3>1, <1>0
  <2>2. CASE Load(w)
    BY <2>2 DEF Load, Runs
  <2>3. QED
    BY <1>2, <2>1, <2>2
<1>3. ASSUME NEW x \in Submissions \cup QueueWorkers, CallerNext(x) PROVE Cases
  <2>0. x \in Actors /\ ActorOK(x)
    BY <1>0 DEF SubmitInv, GateInv
  <2>1. CASE Beat(x)
    <3>1. target[x] \in Requests
      BY <2>0, <2>1 DEF Beat, ActorOK, Chasing
    <3>2. QED
      BY <2>0, <2>1, <3>1, <1>0 DEF Beat, Runs
  <2>2. CASE RecordAcceptance(x)
    <3>1. target[x] \in Requests
      BY <2>0, <2>2 DEF RecordAcceptance, ActorOK, Chasing
    <3>2. RecordVideoJobAcceptance(target[x]) \/ UNCHANGED videoVars
      BY <2>2 DEF RecordAcceptance
    <3>3. QED
      BY <3>1, <3>2 DEF Runs
  <2>3. CASE Doubt(x)
    <3>1. pc[x] = "doubt" /\ (SettleJob(target[x], outcome[x]) \/ UNCHANGED videoVars)
      BY <2>3 DEF Doubt
    <3>2. Settles(x) \/ UNCHANGED videoVars
      BY <2>0, <3>1, SettleCases
    <3>3. QED
      BY <2>0, <3>2 DEF Runs
  <2>4. CASE Settle(x)
    <3>1. /\ pc[x] = "answered" /\ outcome[x].kind # "accepted"
          /\ SettleJob(target[x], outcome[x]) \/ UNCHANGED videoVars
      BY <2>4 DEF Settle
    <3>2. Settles(x) \/ UNCHANGED videoVars
      BY <2>0, <3>1, SettleCases
    <3>3. QED
      BY <2>0, <3>2 DEF Runs
  <2>5. CASE Call(x) \/ Return(x) \/ Recheck(x) \/ Forget(x)
    <3>1. UNCHANGED videoVars
      BY <2>5 DEF Call, Return, Recheck, Forget
    <3>2. QED
      BY <3>1 DEF Runs
  <2>6. QED
    BY <1>3, <2>1, <2>2, <2>3, <2>4, <2>5 DEF CallerNext
<1>4. ASSUME NEW c \in Cancellations, CancellationNext(c) PROVE Cases
  <2>0. c \in Actors /\ ActorOK(c)
    BY <1>0 DEF SubmitInv, GateInv
  <2>1. ASSUME NEW r \in Requests, AskCancel(c, r) PROVE Cases
    <3>1. RequestVideoCancel(r) \/ UNCHANGED videoVars
      BY <2>1 DEF AskCancel
    <3>2. QED
      BY <3>1 DEF Runs
  <2>2. CASE CancelAtUpstream(c)
    BY <2>2 DEF CancelAtUpstream, Runs
  <2>3. CASE SettleCancel(c)
    <3>1. pc[c] = "confirm" /\ (SettleJob(target[c], outcome[c]) \/ UNCHANGED videoVars)
      BY <2>3 DEF SettleCancel
    <3>2. Settles(c) \/ UNCHANGED videoVars
      BY <2>0, <3>1, SettleCases
    <3>3. QED
      BY <2>0, <3>2 DEF Runs
  <2>4. QED
    BY <1>4, <2>1, <2>2, <2>3 DEF CancellationNext
<1>5. CASE \/ \E x \in Actors : Release(x)
           \/ \E r \in Requests : UpstreamAccepts(r)
           \/ UNCHANGED submitVars
  <2>1. UNCHANGED videoVars
    BY <1>5 DEF Release, UpstreamAccepts, submitVars
  <2>2. QED
    BY <2>1 DEF Runs
<1>6. CASE Restart \/ Reopen
  <2>1. RecoverVideo \/ UNCHANGED videoVars
    BY <1>6 DEF Restart, Reopen
  <2>2. QED
    BY <2>1 DEF Runs
<1>7. CASE SurroundingsStep
  <2>1. CASE (\E k \in Keys, n \in Grants : GrantKey(k, n)) /\ UNCHANGED <<leaseVars, queueVars>>
    <3>1. UNCHANGED reservation
      BY <2>1 DEF GrantKey, Adjust
    <3>2. QED
      BY <2>1, <3>1 DEF AdminStep, Runs
  <2>2. CASE Tick /\ UNCHANGED queueVars
    BY <2>2 DEF Runs
  <2>3. QED
    BY <1>7, <2>1, <2>2 DEF SurroundingsStep
<1>8. Cases
  BY <1>1, <1>2, <1>3, <1>4, <1>5, <1>6, <1>7 DEF SubmitNext
<1>9. QED
  BY <1>8
LEMMA SubmitIsQueue == SubmitInv /\ [SubmitNext]_submitVars => [VideoNext]_videoVars
<1> SUFFICES ASSUME SubmitInv, [SubmitNext]_submitVars PROVE [VideoNext]_videoVars
  OBVIOUS
<1>1. ASSUME NEW s \in Submissions, Creates(s) PROVE VideoNext
  <2>1. RequestOf[s] \in Requests
    BY SubmitConstants
  <2>2. QED
    BY <1>1, <2>1 DEF Creates, VideoNext, JobNext
<1>2. ASSUME NEW x \in Actors, Settles(x) PROVE VideoNext
  <2>1. target[x] \in Requests
    BY <1>2 DEF Settles, SubmitInv, GateInv, ActorOK, Chasing
  <2>2. PICK l \in LeaseOutcome(target[x]) :
          l.request = ClosesAs[outcome[x].kind] /\ SettleVideo(target[x], l, outcome[x].ref)
    BY <1>2 DEF Settles
  <2>3. outcome[x].kind \in {"succeeded", "canceled", "rejected", "unknown"} /\ outcome[x].ref \in BOOLEAN
    BY <1>2 DEF Settles, SubmitInv, GateInv, GateTypeOK, ActorOK, Outcome
  <2>4. l.request = "failed" => ~outcome[x].ref
    BY <1>2, <2>2, <2>3 DEF Settles, ClosesAs, SubmitInv, GateInv, ActorOK
  <2>5. outcome[x].ref \in MayRefer(l)
    BY <2>3, <2>4 DEF MayRefer
  <2>6. QED
    BY <2>1, <2>2, <2>5 DEF VideoNext, JobNext
<1>3. ASSUME Runs PROVE [VideoNext]_videoVars
  BY <1>3 DEF Runs, VideoNext, JobNext, EnvironmentNext
<1>4. QED
  BY <1>1, <1>2, <1>3, QueueCases DEF VideoNext, JobNext

\* What becomes of a claim and of the end of a job, in any step of the queue.
LEMMA QueueOnward ==
    ASSUME QueueInv, [VideoNext]_videoVars, NEW q \in Requests
    PROVE  /\ Claimed(q) => Claimed(q)'
           /\ job[q] # "none" /\ ~Unfinished(q) => ~Unfinished(q)'
<1>0. JobStory(q) /\ VideoTypeOK /\ LeaseTypeOK
  BY DEF QueueInv, JobAgreesWithLease, VideoTypeOK
<1>1. ASSUME UNCHANGED <<job[q], attempt[q]>>
      PROVE  (Claimed(q) <=> Claimed(q)') /\ (Unfinished(q) <=> Unfinished(q)')
  BY <1>1 DEF Claimed, Unfinished
<1>2. ASSUME NEW r \in Requests, InsertJob(r),
             EnqueueVideoJob(r) \/ \E a \in UpstreamAccounts : PreflightVideoJob(r, a)
      PROVE  /\ Claimed(q) => Claimed(q)'
             /\ job[q] # "none" /\ ~Unfinished(q) => ~Unfinished(q)'
  <2>1. CASE q # r
    <3>1. UNCHANGED <<job[q], attempt[q]>>
      BY <1>0, <1>2, <2>1
      DEF InsertJob, EnqueueVideoJob, PreflightVideoJob, VideoTypeOK
    <3>2. QED
      BY <1>1, <3>1
  <2>2. CASE q = r
    <3>1. job[q] = "none"
      BY <1>0, <1>2, <2>2, StoryRead DEF InsertJob
    <3>2. QED
      BY <3>1 DEF Claimed
  <2>3. QED
    BY <2>1, <2>2
<1>3. ASSUME NEW r \in Requests, NEW w \in Workers, NEW a \in UpstreamAccounts, Claim(r, w, a)
      PROVE  /\ Claimed(q) => Claimed(q)'
             /\ job[q] # "none" /\ ~Unfinished(q) => ~Unfinished(q)'
  <2>1. CASE q # r
    BY <1>0, <1>1, <1>3, <2>1 DEF Claim, VideoTypeOK
  <2>2. CASE q = r
    BY <1>3, <2>2 DEF Claim, Waiting, Claimed, Unfinished
  <2>3. QED
    BY <2>1, <2>2
<1>4. ASSUME NEW r \in Requests, MarkVideoJobRunning(r)
      PROVE  /\ Claimed(q) => Claimed(q)'
             /\ job[q] # "none" /\ ~Unfinished(q) => ~Unfinished(q)'
  <2>1. CASE q # r
    BY <1>0, <1>1, <1>4, <2>1 DEF MarkVideoJobRunning, VideoTypeOK
  <2>2. CASE q = r
    BY <1>4, <2>2 DEF MarkVideoJobRunning, Claimed, Unfinished
  <2>3. QED
    BY <2>1, <2>2
<1>5. ASSUME NEW r \in Requests, RequestVideoCancel(r)
      PROVE  /\ Claimed(q) => Claimed(q)'
             /\ job[q] # "none" /\ ~Unfinished(q) => ~Unfinished(q)'
  <2>1. CASE q # r
    BY <1>0, <1>1, <1>5, <2>1
    DEF RequestVideoCancel, CancelAttempted, CancelQueued, VideoTypeOK
  <2>2. CASE q = r /\ CancelAttempted(r)
    BY <1>0, <1>5, <2>2 DEF RequestVideoCancel, CancelAttempted, VideoTypeOK, Claimed, Unfinished
  <2>3. CASE q = r /\ CancelQueued(r)
    BY <1>0, <1>5, <2>3 DEF RequestVideoCancel, CancelQueued, Claimed, Unfinished
  <2>4. QED
    BY <1>5, <2>1, <2>2, <2>3 DEF RequestVideoCancel
<1>6. ASSUME NEW r \in Requests, NEW o \in LeaseOutcome(r), EndJob(r, o)
      PROVE  /\ Claimed(q) => Claimed(q)'
             /\ job[q] # "none" /\ ~Unfinished(q) => ~Unfinished(q)'
  <2>0. PICK ref \in BOOLEAN : SyncJob(r, o.request, ref)
    BY <1>6 DEF EndJob
  <2>1. CASE q # r
    BY <1>0, <1>1, <2>0, <2>1 DEF SyncJob, VideoTypeOK
  <2>2. CASE q = r
    <3>1. job'[q] = o.request /\ attempt'[q] = o.request
      BY <1>0, <2>0, <2>2 DEF SyncJob, VideoTypeOK
    <3>2. QED
      BY <3>1, OutcomeType DEF Claimed, Unfinished
  <2>3. QED
    BY <2>1, <2>2
<1>7. CASE RecoverVideo
  BY <1>7 DEF RecoverVideo, Claimed, Unfinished
<1>8. ASSUME \/ \E r \in Requests, w \in Workers : HeartbeatVideoJob(w, r)
             \/ \E r \in Requests : RecordVideoJobAcceptance(r)
             \/ Environment
      PROVE  UNCHANGED <<job[q], attempt[q]>>
  BY <1>8 DEF HeartbeatVideoJob, RecordVideoJobAcceptance, Environment, queueVars, jobVars
<1>9. QED
  BY <1>0, <1>1, <1>2, <1>3, <1>4, <1>5, <1>6, <1>7, <1>8, VideoCases

LEMMA SubmitOnward ==
    ASSUME SubmitInv, [SubmitNext]_submitVars, NEW q \in Requests
    PROVE  /\ Claimed(q) => Claimed(q)'
           /\ job[q] # "none" /\ ~Unfinished(q) => ~Unfinished(q)'
BY SubmitIsQueue, QueueOnward DEF SubmitInv

\* Only the submission that makes a job begins an unfinished one.
LEMMA NewJob ==
    ASSUME SubmitInv, [SubmitNext]_submitVars, NEW q \in Requests, ~Unfinished(q), Unfinished(q)'
    PROVE  \E s \in Submissions : q = RequestOf[s] /\ Creates(s)
<1>0. JobStory(q) /\ VideoTypeOK /\ QueueInv
  BY DEF SubmitInv, QueueInv, JobAgreesWithLease
<1>1. job[q] = "none"
  BY SubmitOnward
<1>2. job'[q] # "none"
  BY DEF Unfinished
<1>3. ASSUME NEW s \in Submissions, Creates(s), q # RequestOf[s] PROVE FALSE
  <2>1. job'[q] = job[q]
    BY <1>0, <1>3 DEF Creates, EnqueueVideoJob, InsertJob, VideoTypeOK
  <2>2. QED
    BY <2>1, <1>1, <1>2
<1>4. ASSUME NEW r \in Requests, NEW w \in Workers, NEW a \in UpstreamAccounts, Claim(r, w, a) PROVE FALSE
  BY <1>0, <1>1, <1>2, <1>4 DEF Claim, Waiting, VideoTypeOK
<1>5. ASSUME NEW r \in Requests, RequestVideoCancel(r) PROVE FALSE
  BY <1>0, <1>1, <1>2, <1>5 DEF RequestVideoCancel, CancelAttempted, CancelQueued, VideoTypeOK
<1>6. CASE RecoverVideo
  <2>1. q \notin Expired
    BY <1>0, <1>1, StoryRead DEF Expired, Open
  <2>2. QED
    BY <1>1, <1>2, <1>6, <2>1 DEF RecoverVideo
<1>7. ASSUME NEW x \in Actors, Settles(x) PROVE FALSE
  <2>1. target[x] # q
    BY <1>1, <1>7 DEF Settles, SubmitInv, GateInv, ActorOK, Chasing, Claimed
  <2>2. job'[q] = job[q]
    BY <1>0, <1>7, <2>1 DEF Settles, SettleVideo, SyncJob, VideoTypeOK
  <2>3. QED
    BY <1>1, <1>2, <2>2
<1>8. ASSUME Runs PROVE FALSE
  BY <1>1, <1>2, <1>8
  DEF Runs, HeartbeatVideoJob, RecordVideoJobAcceptance, videoVars, queueVars, jobVars
<1>9. QED
  BY <1>3, <1>4, <1>5, <1>6, <1>7, <1>8, QueueCases
  DEF ClaimVideoJobById, ClaimNextVideoJob, Oldest, WaitingOf

\* Money comes back for a job that was claimed only if the upstream has refused.
LEMMA ReleasedBy ==
    ASSUME SubmitInv, [SubmitNext]_submitVars, NEW q \in Requests,
           reservation'[q] = "released", Claimed(q)'
    PROVE  Refused(q)
<1>0. JobStory(q) /\ VideoTypeOK /\ LeaseTypeOK /\ TypeOK /\ SentOK(q)
  BY DEF SubmitInv, QueueInv, JobAgreesWithLease, VideoTypeOK, LeaseTypeOK, GateInv
<1>1. ASSUME UNCHANGED <<job[q], attempt[q], reservation[q]>> PROVE Refused(q)
  BY <1>0, <1>1 DEF Claimed, SentOK
<1>3. ASSUME NEW s \in Submissions, Creates(s) PROVE Refused(q)
  <2>1. CASE q = RequestOf[s]
    <3>1. reservation'[q] = "held"
      BY <1>0, <1>3, <2>1 DEF Creates, EnqueueVideoJob, InsertJob, ReserveDual, TypeOK
    <3>2. QED
      BY <3>1
  <2>2. CASE q # RequestOf[s]
    BY <1>0, <1>1, <1>3, <2>2
    DEF Creates, EnqueueVideoJob, InsertJob, ReserveDual, TypeOK, VideoTypeOK
  <2>3. QED
    BY <2>1, <2>2
<1>4. ASSUME NEW r \in Requests, NEW w \in Workers, NEW a \in UpstreamAccounts, Claim(r, w, a)
      PROVE Refused(q)
  <2>1. CASE q = r
    <3>1. job[q] = "queued" /\ reservation'[q] = reservation[q]
      BY <1>4, <2>1 DEF Claim, Waiting
    <3>2. QED
      BY <1>0, <3>1 DEF JobStory, StoryOf
  <2>2. CASE q # r
    BY <1>0, <1>1, <1>4, <2>2 DEF Claim, VideoTypeOK
  <2>3. QED
    BY <2>1, <2>2
<1>5. ASSUME NEW r \in Requests, RequestVideoCancel(r) PROVE Refused(q)
  <2>1. CASE q # r
    BY <1>0, <1>1, <1>5, <2>1
    DEF RequestVideoCancel, CancelAttempted, CancelQueued, ReleaseQueued, ApplySettlement,
        VideoTypeOK, TypeOK
  <2>2. CASE q = r /\ CancelAttempted(r)
    <3>1. job[q] \in {"queued", "running"} /\ reservation'[q] = reservation[q]
      BY <1>5, <2>2 DEF RequestVideoCancel, CancelAttempted
    <3>2. QED
      BY <1>0, <3>1 DEF JobStory, StoryOf
  <2>3. CASE q = r /\ CancelQueued(r)
    BY <2>3 DEF CancelQueued, Claimed
  <2>4. QED
    BY <1>5, <2>1, <2>2, <2>3 DEF RequestVideoCancel
<1>6. CASE RecoverVideo
  <2>1. CASE q \in Expired
    BY <1>6, <2>1 DEF RecoverVideo, RecoverExpired
  <2>2. CASE q \notin Expired
    BY <1>1, <1>6, <2>2 DEF RecoverVideo, RecoverExpired
  <2>3. QED
    BY <2>1, <2>2
<1>7. ASSUME NEW x \in Actors, Settles(x) PROVE Refused(q)
  <2>0. PICK l \in LeaseOutcome(target[x]) :
          l.request = ClosesAs[outcome[x].kind] /\ SettleVideo(target[x], l, outcome[x].ref)
    BY <1>7 DEF Settles
  <2>1. CASE q # target[x]
    <3>1. UNCHANGED <<job[q], attempt[q], reservation[q]>>
      BY <1>0, <2>0, <2>1
      DEF SettleVideo, SettleLease, CloseLease, ApplySettlement, SyncJob, VideoTypeOK, TypeOK
    <3>2. QED
      BY <1>1, <3>1
  <2>2. CASE q = target[x]
    <3>1. l.quota.kind = "release"
      <4>1. reservation'[q] = IF l.quota.kind = "release" THEN "released"
                              ELSE IF l.quota.kind = "commit" THEN "committed" ELSE "unknown"
        BY <1>0, <2>0, <2>2, OutcomeType
        DEF SettleVideo, SettleLease, CloseLease, ApplySettlement, TypeOK
      <4>2. QED
        BY <4>1
    <3>2. l.request \in {"failed", "canceled"}
      BY <2>2, <3>1, OutcomeType
    <3>3. outcome[x].kind \in {"succeeded", "canceled", "rejected", "unknown"}
      BY <1>7 DEF Settles, SubmitInv, GateInv, GateTypeOK, ActorOK, Outcome
    <3>4. outcome[x].kind \in {"canceled", "rejected"}
      BY <2>0, <3>2, <3>3 DEF ClosesAs
    <3>5. QED
      BY <1>7, <2>2, <3>4 DEF Settles, SubmitInv, GateInv, ActorOK
  <2>3. QED
    BY <2>1, <2>2
<1>8. ASSUME Runs PROVE Refused(q)
  BY <1>1, <1>8
  DEF Runs, HeartbeatVideoJob, RecordVideoJobAcceptance, Tick, videoVars, vars, quotaVars, holdVars,
      queueVars, jobVars
<1>9. QED
  BY <1>3, <1>4, <1>5, <1>6, <1>7, <1>8, QueueCases
  DEF ClaimVideoJobById, ClaimNextVideoJob, Oldest, WaitingOf
-----------------------------------------------------------------------------
(* Types of the gateway.                                                     *)

LEMMA ActorFacts ==
    /\ Submissions \subseteq Actors /\ QueueWorkers \subseteq Actors /\ Cancellations \subseteq Actors
    /\ \A s \in Submissions : RequestOf[s] \in Requests
    /\ \A x : Rest(x) \in {"idle", "done"}
    /\ \A s \in Submissions : Rest(s) = "done"
    /\ NoRequest \notin Requests /\ NoJob \notin Submissions
BY SubmitConstants DEF Actors, Rest

LEMMA FinishType ==
    ASSUME GateTypeOK, NEW x \in Actors, Finish(x)
    PROVE  /\ pc' \in [Actors -> Steps]
           /\ outcome' \in [Actors -> [kind : Outcome \cup {"none"}, ref : BOOLEAN]]
BY ActorFacts DEF GateTypeOK, Finish, Goto, NoOutcome, Steps

LEMMA GotoType ==
    ASSUME GateTypeOK, NEW x \in Actors, NEW t \in Steps, Goto(x, t)
    PROVE  pc' \in [Actors -> Steps]
BY DEF GateTypeOK, Goto

LEMMA ToldType ==
    ASSUME GateTypeOK, NEW x \in Actors, NEW k \in Outcome, NEW b \in BOOLEAN,
           outcome' = [outcome EXCEPT ![x] = [kind |-> k, ref |-> b]]
    PROVE  outcome' \in [Actors -> [kind : Outcome \cup {"none"}, ref : BOOLEAN]]
BY DEF GateTypeOK

LEMMA GateTypeStep == SubmitInv /\ [SubmitNext]_submitVars => GateTypeOK'
<1> SUFFICES ASSUME SubmitInv, [SubmitNext]_submitVars PROVE GateTypeOK'
  OBVIOUS
<1>0. GateTypeOK
  BY DEF SubmitInv, GateInv
<1>1. ASSUME NEW s \in Submissions, Admit(s) PROVE GateTypeOK'
  BY <1>1, <1>0, ActorFacts DEF Admit, GateTypeOK, Goto, Steps
<1>2. ASSUME NEW s \in Submissions, PutPayload(s) PROVE GateTypeOK'
  BY <1>2, <1>0, ActorFacts DEF PutPayload, GateTypeOK, Goto, Steps
<1>3. ASSUME NEW s \in Submissions, Enqueue(s) PROVE GateTypeOK'
  BY <1>3, <1>0, ActorFacts DEF Enqueue, GateTypeOK, Goto, Steps
<1>4. ASSUME NEW s \in Submissions, Discard(s) PROVE GateTypeOK'
  BY <1>4, <1>0, ActorFacts DEF Discard, GateTypeOK, Goto, Steps
<1>5. ASSUME NEW s \in Submissions, Retain(s) PROVE GateTypeOK'
  BY <1>5, <1>0, ActorFacts DEF Retain, GateTypeOK, Goto, Steps
<1>6. ASSUME NEW s \in Submissions, ClaimOwn(s) PROVE GateTypeOK'
  BY <1>6, <1>0, ActorFacts DEF ClaimOwn, GateTypeOK, Goto, Steps
<1>7. ASSUME NEW s \in Submissions, ClaimMisses(s) PROVE GateTypeOK'
  BY <1>7, <1>0, ActorFacts DEF ClaimMisses, GateTypeOK, Goto, Steps
<1>8. ASSUME NEW s \in Submissions, HangUp(s) PROVE GateTypeOK'
  BY <1>8, <1>0, ActorFacts DEF HangUp, GateTypeOK, Goto, Steps
<1>9. ASSUME NEW w \in QueueWorkers, WorkerClaims(w) PROVE GateTypeOK'
  <2>1. \E r \in Requests : target' = [target EXCEPT ![w] = r]
    BY <1>9 DEF WorkerClaims, Oldest, WaitingOf
  <2>2. pc' \in [Actors -> Steps]
    BY <1>9, <1>0, ActorFacts DEF WorkerClaims, GateTypeOK, Goto, Steps
  <2>3. QED
    BY <1>9, <1>0, <2>1, <2>2 DEF WorkerClaims, GateTypeOK
<1>10. ASSUME NEW w \in QueueWorkers, Load(w) PROVE GateTypeOK'
  <2>1. \/ Goto(w, "submitting") /\ UNCHANGED outcome
        \/ Goto(w, "doubt") /\ outcome' = [outcome EXCEPT ![w] = [kind |-> "unknown", ref |-> FALSE]]
    BY <1>10 DEF Load
  <2>2. pc' \in [Actors -> Steps]
    BY <1>0, <2>1, ActorFacts, GotoType DEF Steps
  <2>3. outcome' \in [Actors -> [kind : Outcome \cup {"none"}, ref : BOOLEAN]]
    BY <1>0, <2>1, ActorFacts, ToldType DEF Outcome, GateTypeOK
  <2>4. QED
    BY <1>10, <1>0, <2>2, <2>3 DEF Load, GateTypeOK
<1>11. ASSUME NEW x \in Submissions \cup QueueWorkers, Call(x) PROVE GateTypeOK'
  <2>1. target[x] \in Requests /\ x \in Actors
    BY <1>11, ActorFacts DEF Call, SubmitInv, GateInv, ActorOK, Chasing
  <2>2. sends' \in [Requests -> Nat]
    BY <1>11, <1>0, <2>1 DEF Call, GateTypeOK
  <2>3. pc' \in [Actors -> Steps]
    BY <1>11, <1>0, <2>1, GotoType DEF Call, Steps
  <2>4. QED
    BY <1>11, <1>0, <2>2, <2>3 DEF Call, GateTypeOK
<1>12. ASSUME NEW x \in Submissions \cup QueueWorkers, Forget(x) PROVE GateTypeOK'
  BY <1>12, <1>0, ActorFacts DEF Forget, GateTypeOK, Goto, Steps
<1>13. ASSUME NEW x \in Submissions \cup QueueWorkers, Beat(x) PROVE GateTypeOK'
  BY <1>13, <1>0 DEF Beat, gateVars, GateTypeOK
<1>14. ASSUME NEW x \in Submissions \cup QueueWorkers, Return(x) PROVE GateTypeOK'
  <2>0. target[x] \in Requests /\ x \in Actors
    BY <1>14, ActorFacts DEF Return, SubmitInv, GateInv, ActorOK, Chasing
  <2>1. PICK o \in Answers(target[x]) :
          /\ outcome' = [outcome EXCEPT ![x] = o]
          /\ upstream' = [upstream EXCEPT ![target[x]] =
                            IF o.kind \in {"rejected", "canceled"} THEN "refused"
                            ELSE upstream[target[x]]]
    BY <1>14 DEF Return
  <2>2. o \in [kind : Outcome \cup {"none"}, ref : BOOLEAN]
    BY DEF Answers, Outcome
  <2>3. upstream' \in [Requests -> {"none", "refused", "accepted", "canceled"}]
    BY <1>0, <2>0, <2>1 DEF GateTypeOK
  <2>4. pc' \in [Actors -> Steps]
    BY <1>14, <1>0, <2>0, GotoType DEF Return, Steps
  <2>5. outcome' \in [Actors -> [kind : Outcome \cup {"none"}, ref : BOOLEAN]]
    BY <1>0, <2>1, <2>2 DEF GateTypeOK
  <2>6. QED
    BY <1>14, <1>0, <2>3, <2>4, <2>5 DEF Return, GateTypeOK
<1>15. ASSUME NEW x \in Submissions \cup QueueWorkers, RecordAcceptance(x) PROVE GateTypeOK'
  <2>1. \/ Finish(x)
        \/ /\ outcome' = [outcome EXCEPT ![x] = [kind |-> "unknown", ref |-> TRUE]]
           /\ Goto(x, "doubt")
    BY <1>15 DEF RecordAcceptance
  <2>2. /\ pc' \in [Actors -> Steps]
        /\ outcome' \in [Actors -> [kind : Outcome \cup {"none"}, ref : BOOLEAN]]
    BY <1>0, <2>1, ActorFacts, FinishType, GotoType, ToldType DEF GateTypeOK, Steps, Outcome
  <2>3. QED
    BY <1>15, <1>0, <2>2 DEF RecordAcceptance, GateTypeOK
<1>16. ASSUME NEW x \in Submissions \cup QueueWorkers, Doubt(x) PROVE GateTypeOK'
  <2>1. Finish(x) \/ (Goto(x, "recheck") /\ UNCHANGED outcome)
    BY <1>16 DEF Doubt
  <2>2. /\ pc' \in [Actors -> Steps]
        /\ outcome' \in [Actors -> [kind : Outcome \cup {"none"}, ref : BOOLEAN]]
    BY <1>0, <2>1, ActorFacts, FinishType, GotoType, ToldType DEF GateTypeOK, Steps, Outcome
  <2>3. QED
    BY <1>16, <1>0, <2>2 DEF Doubt, GateTypeOK
<1>17. ASSUME NEW x \in Submissions \cup QueueWorkers, Settle(x) PROVE GateTypeOK'
  <2>1. Finish(x) \/ ((Goto(x, "forget") \/ Goto(x, "recheck")) /\ UNCHANGED outcome)
    BY <1>17 DEF Settle
  <2>2. /\ pc' \in [Actors -> Steps]
        /\ outcome' \in [Actors -> [kind : Outcome \cup {"none"}, ref : BOOLEAN]]
    BY <1>0, <2>1, ActorFacts, FinishType, GotoType, ToldType DEF GateTypeOK, Steps, Outcome
  <2>3. QED
    BY <1>17, <1>0, <2>2 DEF Settle, GateTypeOK
<1>18. ASSUME NEW x \in Submissions \cup QueueWorkers, Recheck(x) PROVE GateTypeOK'
  BY <1>18, <1>0, ActorFacts, FinishType DEF Recheck, GateTypeOK
<1>19. ASSUME NEW x \in Actors, Release(x) PROVE GateTypeOK'
  BY <1>19, <1>0, FinishType DEF Release, GateTypeOK
<1>20. ASSUME NEW c \in Cancellations, NEW r \in Requests, AskCancel(c, r) PROVE GateTypeOK'
  <2>1. \E t \in {"done", "asking"} : Goto(c, t)
    BY <1>20 DEF AskCancel
  <2>2. pc' \in [Actors -> Steps]
    BY <1>0, <2>1, ActorFacts, GotoType DEF Steps
  <2>3. QED
    BY <1>20, <1>0, <2>2, ActorFacts DEF AskCancel, GateTypeOK
<1>21. ASSUME NEW c \in Cancellations, CancelAtUpstream(c) PROVE GateTypeOK'
  <2>1. \E k \in {"canceled", "unknown"}, ref \in BOOLEAN :
           outcome' = [outcome EXCEPT ![c] = [kind |-> k, ref |-> ref]]
    BY <1>21 DEF CancelAtUpstream
  <2>2. outcome' \in [Actors -> [kind : Outcome \cup {"none"}, ref : BOOLEAN]]
    BY <1>0, <2>1, ActorFacts, ToldType DEF Outcome
  <2>3. pc' \in [Actors -> Steps]
    BY <1>21, <1>0, ActorFacts, GotoType DEF CancelAtUpstream, Steps
  <2>4. upstream' \in [Requests -> {"none", "refused", "accepted", "canceled"}]
    BY <1>21, <1>0 DEF CancelAtUpstream, GateTypeOK
  <2>5. QED
    BY <1>21, <1>0, <2>2, <2>3, <2>4 DEF CancelAtUpstream, GateTypeOK
<1>22. ASSUME NEW c \in Cancellations, SettleCancel(c) PROVE GateTypeOK'
  <2>1. Finish(c) \/ (Goto(c, "release") /\ UNCHANGED outcome)
    BY <1>22 DEF SettleCancel
  <2>2. /\ pc' \in [Actors -> Steps]
        /\ outcome' \in [Actors -> [kind : Outcome \cup {"none"}, ref : BOOLEAN]]
    BY <1>0, <2>1, ActorFacts, FinishType, GotoType, ToldType DEF GateTypeOK, Steps, Outcome
  <2>3. QED
    BY <1>22, <1>0, <2>2 DEF SettleCancel, GateTypeOK
<1>23. ASSUME Restart PROVE GateTypeOK'
  <2>1. pc' \in [Actors -> Steps]
    BY <1>23, <1>0, ActorFacts DEF Restart, GateTypeOK, Steps
  <2>2. outcome' \in [Actors -> [kind : Outcome \cup {"none"}, ref : BOOLEAN]]
    BY <1>23 DEF Restart, NoOutcome
  <2>3. restarts' \in 0..MaxRestarts
    BY <1>23, <1>0, SubmitConstants DEF Restart, GateTypeOK
  <2>4. QED
    BY <1>23, <1>0, <2>1, <2>2, <2>3 DEF Restart, GateTypeOK
<1>24. ASSUME NEW r \in Requests, UpstreamAccepts(r) PROVE GateTypeOK'
  BY <1>24, <1>0 DEF UpstreamAccepts, GateTypeOK
<1>27. ASSUME Reopen PROVE GateTypeOK'
  <2>1. restarts' \in 0..MaxRestarts
    BY <1>27, <1>0, SubmitConstants DEF Reopen, GateTypeOK
  <2>2. QED
    BY <1>27, <1>0, <2>1 DEF Reopen, GateTypeOK
<1>25. ASSUME SurroundingsStep \/ UNCHANGED submitVars PROVE GateTypeOK'
  BY <1>25, <1>0 DEF SurroundingsStep, submitVars, gateVars, GateTypeOK
<1>26. QED
  BY <1>1, <1>2, <1>3, <1>4, <1>5, <1>6, <1>7, <1>8, <1>9, <1>10, <1>11, <1>12, <1>13, <1>14,
     <1>15, <1>16, <1>17, <1>18, <1>19, <1>20, <1>21, <1>22, <1>23, <1>24, <1>25, <1>27
  DEF SubmitNext, SubmissionNext, CallerNext, CancellationNext
-----------------------------------------------------------------------------
(* Who changes what.                                                         *)

LEMMA Acts ==
    ASSUME SubmitInv, [SubmitNext]_submitVars, NEW y \in Actors
    PROVE  \/ UNCHANGED <<pc[y], target[y], outcome[y]>>
           \/ y \in Submissions /\ SubmissionNext(y)
           \/ y \in QueueWorkers /\ (WorkerClaims(y) \/ Load(y))
           \/ y \in Submissions \cup QueueWorkers /\ CallerNext(y)
           \/ y \in Cancellations /\ CancellationNext(y)
           \/ Release(y)
           \/ Restart
<1> DEFINE Same == UNCHANGED <<pc[y], target[y], outcome[y]>>
<1>0. GateTypeOK
  BY DEF SubmitInv, GateInv
<1>1. ASSUME NEW x, x # y,
             \E t : Goto(x, t),
             UNCHANGED target \/ \E t : target' = [target EXCEPT ![x] = t],
             UNCHANGED outcome \/ \E o : outcome' = [outcome EXCEPT ![x] = o]
      PROVE  Same
  BY <1>0, <1>1 DEF GateTypeOK, Goto
<1>2. ASSUME NEW s \in Submissions, s # y, SubmissionNext(s) PROVE Same
  <2>1. \E t : Goto(s, t)
    BY <1>2 DEF SubmissionNext, Admit, PutPayload, Enqueue, Discard, Retain, ClaimOwn, ClaimMisses, HangUp
  <2>2. UNCHANGED <<target, outcome>>
    BY <1>2 DEF SubmissionNext, Admit, PutPayload, Enqueue, Discard, Retain, ClaimOwn, ClaimMisses, HangUp
  <2>3. QED
    BY <1>1, <1>2, <2>1, <2>2
<1>3. ASSUME NEW w \in QueueWorkers, w # y, WorkerClaims(w) \/ Load(w) PROVE Same
  BY <1>1, <1>3 DEF WorkerClaims, Load
<1>4. ASSUME NEW x \in Submissions \cup QueueWorkers, x # y, CallerNext(x) PROVE Same
  <2>1. CASE Beat(x)
    BY <2>1 DEF Beat, gateVars
  <2>2. CASE Call(x) \/ Return(x) \/ Forget(x)
    BY <1>1, <1>4, <2>2 DEF Call, Return, Forget
  <2>3. CASE RecordAcceptance(x) \/ Recheck(x)
    BY <1>1, <1>4, <2>3 DEF RecordAcceptance, Recheck, Finish
  <2>4. CASE Doubt(x)
    <3>1. Finish(x) \/ (Goto(x, "recheck") /\ UNCHANGED outcome)
      BY <2>4 DEF Doubt
    <3>2. UNCHANGED target
      BY <2>4 DEF Doubt
    <3>3. QED
      BY <1>1, <1>4, <3>1, <3>2 DEF Finish
  <2>5. CASE Settle(x)
    <3>1. Finish(x) \/ ((Goto(x, "forget") \/ Goto(x, "recheck")) /\ UNCHANGED outcome)
      BY <2>5 DEF Settle
    <3>2. UNCHANGED target
      BY <2>5 DEF Settle
    <3>3. QED
      BY <1>1, <1>4, <3>1, <3>2 DEF Finish
  <2>6. QED
    BY <1>4, <2>1, <2>2, <2>3, <2>4, <2>5 DEF CallerNext
<1>5. ASSUME NEW c \in Cancellations, c # y, CancellationNext(c) PROVE Same
  <2>1. ASSUME NEW r \in Requests, AskCancel(c, r) PROVE Same
    BY <1>1, <1>5, <2>1 DEF AskCancel
  <2>2. CASE CancelAtUpstream(c)
    BY <1>1, <1>5, <2>2 DEF CancelAtUpstream
  <2>3. CASE SettleCancel(c)
    <3>1. Finish(c) \/ (Goto(c, "release") /\ UNCHANGED outcome)
      BY <2>3 DEF SettleCancel
    <3>2. UNCHANGED target
      BY <2>3 DEF SettleCancel
    <3>3. QED
      BY <1>1, <1>5, <3>1, <3>2 DEF Finish
  <2>4. QED
    BY <1>5, <2>1, <2>2, <2>3 DEF CancellationNext
<1>6. ASSUME NEW x \in Actors, x # y, Release(x) PROVE Same
  BY <1>1, <1>6 DEF Release, Finish
<1>7. ASSUME \/ \E r \in Requests : UpstreamAccepts(r)
             \/ Reopen \/ SurroundingsStep
             \/ UNCHANGED submitVars
      PROVE  Same
  BY <1>7 DEF UpstreamAccepts, Reopen, SurroundingsStep, submitVars, gateVars
<1>8. QED
  BY <1>2, <1>3, <1>4, <1>5, <1>6, <1>7 DEF SubmitNext

LEMMA UpstreamCases ==
    ASSUME [SubmitNext]_submitVars
    PROVE  \/ UNCHANGED <<upstream, sends>>
           \/ \E x \in Submissions \cup QueueWorkers : Call(x) \/ Return(x)
           \/ \E c \in Cancellations : CancelAtUpstream(c)
           \/ \E r \in Requests : UpstreamAccepts(r)
<1>1. ASSUME NEW s \in Submissions, SubmissionNext(s) PROVE UNCHANGED <<upstream, sends>>
  BY <1>1 DEF SubmissionNext, Admit, PutPayload, Enqueue, Discard, Retain, ClaimOwn, ClaimMisses, HangUp
<1>2. ASSUME NEW w \in QueueWorkers, WorkerClaims(w) \/ Load(w) PROVE UNCHANGED <<upstream, sends>>
  BY <1>2 DEF WorkerClaims, Load
<1>3. ASSUME NEW x \in Submissions \cup QueueWorkers, CallerNext(x), ~Call(x), ~Return(x)
      PROVE  UNCHANGED <<upstream, sends>>
  BY <1>3 DEF CallerNext, Beat, gateVars, RecordAcceptance, Doubt, Settle, Recheck, Forget
<1>4. ASSUME NEW c \in Cancellations, CancellationNext(c), ~CancelAtUpstream(c)
      PROVE  UNCHANGED <<upstream, sends>>
  BY <1>4 DEF CancellationNext, AskCancel, SettleCancel
<1>5. ASSUME \/ \E x \in Actors : Release(x)
             \/ Restart \/ Reopen \/ SurroundingsStep \/ UNCHANGED submitVars
      PROVE  UNCHANGED <<upstream, sends>>
  BY <1>5 DEF Release, Restart, Reopen, SurroundingsStep, submitVars, gateVars
<1>6. QED
  BY <1>1, <1>2, <1>3, <1>4, <1>5 DEF SubmitNext

LEMMA CreatorCases ==
    ASSUME SubmitInv, [SubmitNext]_submitVars
    PROVE  \/ UNCHANGED creator
           \/ \E s \in Submissions : Creates(s)
<1>1. ASSUME NEW s \in Submissions, SubmissionNext(s), ~Creates(s) PROVE UNCHANGED creator
  <2>1. CASE Enqueue(s)
    BY <1>1, <2>1 DEF Enqueue, Creates
  <2>2. CASE ~Enqueue(s)
    BY <1>1, <2>2 DEF SubmissionNext, Admit, PutPayload, Discard, Retain, ClaimOwn, ClaimMisses, HangUp
  <2>3. QED
    BY <2>1, <2>2
<1>2. ASSUME NEW w \in QueueWorkers, WorkerClaims(w) \/ Load(w) PROVE UNCHANGED creator
  BY <1>2 DEF WorkerClaims, Load
<1>3. ASSUME NEW x \in Submissions \cup QueueWorkers, CallerNext(x)
      PROVE  UNCHANGED creator
  BY <1>3 DEF CallerNext, Call, Beat, gateVars, Return, RecordAcceptance, Doubt, Settle, Recheck, Forget
<1>4. ASSUME NEW c \in Cancellations, CancellationNext(c) PROVE UNCHANGED creator
  BY <1>4 DEF CancellationNext, AskCancel, CancelAtUpstream, SettleCancel
<1>5. ASSUME \/ \E x \in Actors : Release(x)
             \/ \E r \in Requests : UpstreamAccepts(r)
             \/ Restart \/ Reopen \/ SurroundingsStep \/ UNCHANGED submitVars
      PROVE  UNCHANGED creator
  BY <1>5 DEF Release, UpstreamAccepts, Restart, Reopen, SurroundingsStep, submitVars, gateVars
<1>6. QED
  BY <1>1, <1>2, <1>3, <1>4, <1>5 DEF SubmitNext

\* Only an admission adds a permit to those that are counted.
LEMMA CountedCases ==
    ASSUME [SubmitNext]_submitVars
    PROVE  counted' \subseteq counted \/ \E s \in Submissions : Admit(s)
<1>1. ASSUME NEW s \in Submissions, SubmissionNext(s), ~Admit(s) PROVE UNCHANGED counted
  BY <1>1 DEF SubmissionNext, PutPayload, Enqueue, Discard, Retain, ClaimOwn, ClaimMisses, HangUp
<1>2. ASSUME NEW w \in QueueWorkers, WorkerClaims(w) \/ Load(w) PROVE UNCHANGED counted
  BY <1>2 DEF WorkerClaims, Load
<1>3. ASSUME NEW x \in Submissions \cup QueueWorkers, CallerNext(x) PROVE UNCHANGED counted
  BY <1>3 DEF CallerNext, Call, Beat, gateVars, Return, RecordAcceptance, Doubt, Settle, Recheck, Forget
<1>4. ASSUME NEW c \in Cancellations, CancellationNext(c) PROVE UNCHANGED counted
  BY <1>4 DEF CancellationNext, AskCancel, CancelAtUpstream, SettleCancel
<1>5. ASSUME \/ \E x \in Actors : Release(x)
             \/ \E r \in Requests : UpstreamAccepts(r)
             \/ SurroundingsStep \/ UNCHANGED submitVars
      PROVE  UNCHANGED counted
  BY <1>5 DEF Release, UpstreamAccepts, SurroundingsStep, submitVars, gateVars
<1>6. ASSUME Restart \/ Reopen PROVE counted' = {}
  BY <1>6 DEF Restart, Reopen
<1>7. QED
  BY <1>1, <1>2, <1>3, <1>4, <1>5, <1>6 DEF SubmitNext

LEMMA PayloadCases ==
    ASSUME [SubmitNext]_submitVars
    PROVE  \/ UNCHANGED payload
           \/ \E s \in Submissions : PutPayload(s) \/ Discard(s)
           \/ \E x \in Submissions \cup QueueWorkers : Forget(x)
<1>1. ASSUME NEW s \in Submissions, SubmissionNext(s), ~PutPayload(s), ~Discard(s)
      PROVE  UNCHANGED payload
  BY <1>1 DEF SubmissionNext, Admit, Enqueue, Retain, ClaimOwn, ClaimMisses, HangUp
<1>2. ASSUME NEW w \in QueueWorkers, WorkerClaims(w) \/ Load(w) PROVE UNCHANGED payload
  BY <1>2 DEF WorkerClaims, Load
<1>3. ASSUME NEW x \in Submissions \cup QueueWorkers, CallerNext(x), ~Forget(x)
      PROVE  UNCHANGED payload
  BY <1>3 DEF CallerNext, Call, Beat, gateVars, Return, RecordAcceptance, Doubt, Settle, Recheck
<1>4. ASSUME NEW c \in Cancellations, CancellationNext(c) PROVE UNCHANGED payload
  BY <1>4 DEF CancellationNext, AskCancel, CancelAtUpstream, SettleCancel
<1>5. ASSUME \/ \E x \in Actors : Release(x)
             \/ \E r \in Requests : UpstreamAccepts(r)
             \/ Restart \/ Reopen \/ SurroundingsStep \/ UNCHANGED submitVars
      PROVE  UNCHANGED payload
  BY <1>5 DEF Release, UpstreamAccepts, Restart, Reopen, SurroundingsStep, submitVars, gateVars
<1>6. QED
  BY <1>1, <1>2, <1>3, <1>4, <1>5 DEF SubmitNext

LEMMA PermitCases ==
    ASSUME [SubmitNext]_submitVars
    PROVE  \/ UNCHANGED permits
           \/ \E s \in Submissions : Retain(s)
           \/ \E x \in Submissions \cup QueueWorkers : Recheck(x)
           \/ \E x \in Actors : Release(x)
           \/ Restart
<1>1. ASSUME NEW s \in Submissions, SubmissionNext(s), ~Retain(s) PROVE UNCHANGED permits
  BY <1>1 DEF SubmissionNext, Admit, PutPayload, Enqueue, Discard, ClaimOwn, ClaimMisses, HangUp
<1>2. ASSUME NEW w \in QueueWorkers, WorkerClaims(w) \/ Load(w) PROVE UNCHANGED permits
  BY <1>2 DEF WorkerClaims, Load
<1>3. ASSUME NEW x \in Submissions \cup QueueWorkers, CallerNext(x), ~Recheck(x)
      PROVE  UNCHANGED permits
  BY <1>3 DEF CallerNext, Call, Beat, gateVars, Return, RecordAcceptance, Doubt, Settle, Forget
<1>4. ASSUME NEW c \in Cancellations, CancellationNext(c) PROVE UNCHANGED permits
  BY <1>4 DEF CancellationNext, AskCancel, CancelAtUpstream, SettleCancel
<1>5. ASSUME \/ \E r \in Requests : UpstreamAccepts(r)
             \/ Reopen \/ SurroundingsStep \/ UNCHANGED submitVars
      PROVE  UNCHANGED permits
  BY <1>5 DEF UpstreamAccepts, Reopen, SurroundingsStep, submitVars, gateVars
<1>6. QED
  BY <1>1, <1>2, <1>3, <1>4, <1>5 DEF SubmitNext
-----------------------------------------------------------------------------
(* What is sent, and what comes back.                                        *)

\* An upstream that has refused does not change its mind.
LEMMA RefusedStays ==
    ASSUME SubmitInv, [SubmitNext]_submitVars, NEW q \in Requests, Refused(q)
    PROVE  Refused(q)'
<1>0. upstream[q] \in {"refused", "canceled"} /\ GateTypeOK
  BY DEF Refused, SubmitInv, GateInv
<1>1. ASSUME NEW x \in Submissions \cup QueueWorkers, Return(x) PROVE upstream'[q] \in {"refused", "canceled"}
  <2>1. PICK o : upstream' = [upstream EXCEPT ![target[x]] =
                   IF o.kind \in {"rejected", "canceled"} THEN "refused" ELSE upstream[target[x]]]
    BY <1>1 DEF Return
  <2>2. QED
    BY <1>0, <2>1 DEF GateTypeOK
<1>2. ASSUME NEW c \in Cancellations, CancelAtUpstream(c) PROVE upstream'[q] \in {"refused", "canceled"}
  BY <1>0, <1>2 DEF CancelAtUpstream, GateTypeOK
<1>3. ASSUME NEW r \in Requests, UpstreamAccepts(r) PROVE upstream'[q] \in {"refused", "canceled"}
  BY <1>0, <1>3 DEF UpstreamAccepts, GateTypeOK
<1>4. ASSUME NEW x \in Submissions \cup QueueWorkers, Call(x) PROVE UNCHANGED upstream
  BY <1>4 DEF Call
<1>5. QED
  BY <1>0, <1>1, <1>2, <1>3, <1>4, UpstreamCases DEF Refused

LEMMA SentStep ==
    ASSUME SubmitInv, [SubmitNext]_submitVars, NEW q \in Requests
    PROVE  SentOK(q)'
<1>0. SentOK(q) /\ GateTypeOK /\ (\A x \in Actors : ActorOK(x))
  BY DEF SubmitInv, GateInv
<1>1. Claimed(q) => Claimed(q)'
  BY SubmitOnward
<1>2. reservation'[q] = "released" /\ Claimed(q)' => Refused(q)'
  BY ReleasedBy, RefusedStays
<1>3. ASSUME sends'[q] = sends[q], upstream'[q] = upstream[q] PROVE SentOK(q)'
  BY <1>0, <1>1, <1>2, <1>3 DEF SentOK
<1>4. ASSUME NEW x \in Submissions \cup QueueWorkers, Call(x) PROVE SentOK(q)'
  <2>1. target[x] \in Requests /\ Claimed(target[x]) /\ sends[target[x]] = 0
    BY <1>0, <1>4, ActorFacts DEF Call, ActorOK, Chasing
  <2>2. CASE q # target[x]
    BY <1>0, <1>3, <1>4, <2>1, <2>2 DEF Call, GateTypeOK
  <2>3. CASE q = target[x]
    <3>1. sends'[q] = 1 /\ Claimed(q)'
      BY <1>0, <1>1, <1>4, <2>1, <2>3 DEF Call, GateTypeOK
    <3>2. QED
      BY <1>2, <3>1 DEF SentOK
  <2>4. QED
    BY <2>2, <2>3
<1>5. ASSUME sends' = sends, sends[q] # 0 PROVE SentOK(q)'
  BY <1>0, <1>1, <1>2, <1>5 DEF SentOK
<1>6. ASSUME NEW x \in Submissions \cup QueueWorkers, Return(x) PROVE SentOK(q)'
  <2>1. target[x] \in Requests /\ sends[target[x]] # 0
    BY <1>0, <1>6, ActorFacts DEF Return, ActorOK, Chasing
  <2>2. PICK o : upstream' = [upstream EXCEPT ![target[x]] =
                   IF o.kind \in {"rejected", "canceled"} THEN "refused" ELSE upstream[target[x]]]
    BY <1>6 DEF Return
  <2>3. sends' = sends
    BY <1>6 DEF Return
  <2>4. CASE q # target[x]
    BY <1>0, <1>3, <2>1, <2>2, <2>3, <2>4 DEF GateTypeOK
  <2>5. CASE q = target[x]
    BY <1>5, <2>1, <2>3, <2>5
  <2>6. QED
    BY <2>4, <2>5
<1>7. ASSUME NEW c \in Cancellations, CancelAtUpstream(c) PROVE SentOK(q)'
  <2>1. sends' = sends
    BY <1>7 DEF CancelAtUpstream
  <2>2. CASE sends[q] # 0
    BY <1>5, <2>1, <2>2
  <2>3. CASE sends[q] = 0
    <3>1. upstream[q] = "none"
      BY <1>0, <2>3 DEF SentOK
    <3>2. upstream'[q] = upstream[q]
      BY <1>0, <1>7, <3>1 DEF CancelAtUpstream, GateTypeOK
    <3>3. QED
      BY <1>3, <2>1, <3>2
  <2>4. QED
    BY <2>2, <2>3
<1>8. ASSUME NEW r \in Requests, UpstreamAccepts(r) PROVE SentOK(q)'
  <2>1. sends' = sends /\ sends[r] > 0
    BY <1>8 DEF UpstreamAccepts
  <2>2. CASE q = r
    BY <1>5, <2>1, <2>2
  <2>3. CASE q # r
    BY <1>0, <1>3, <1>8, <2>1, <2>3 DEF UpstreamAccepts, GateTypeOK
  <2>4. QED
    BY <2>2, <2>3
<1>9. QED
  BY <1>3, <1>4, <1>6, <1>7, <1>8, UpstreamCases

-----------------------------------------------------------------------------
(* The way of a submission, its file and its permit.                         *)

LEMMA Path ==
    ASSUME SubmitInv, [SubmitNext]_submitVars, NEW s \in Submissions
    PROVE  /\ pc[s] \notin {"idle", "admitted", "stored", "refused", "replayed"} =>
                pc'[s] \notin {"idle", "admitted", "stored", "refused", "replayed"}
           /\ pc'[s] = "stored" => pc[s] = "stored" \/ PutPayload(s)
           /\ pc[s] = "created" => pc'[s] = "created" \/ Retain(s) \/ Restart
<1> DEFINE Goal ==
      /\ pc[s] \notin {"idle", "admitted", "stored", "refused", "replayed"} =>
           pc'[s] \notin {"idle", "admitted", "stored", "refused", "replayed"}
      /\ pc'[s] = "stored" => pc[s] = "stored" \/ PutPayload(s)
      /\ pc[s] = "created" => pc'[s] = "created" \/ Retain(s) \/ Restart
<1>0. GateTypeOK /\ s \in Actors /\ Rest(s) = "done"
  BY ActorFacts DEF SubmitInv, GateInv
<1>1. CASE SubmissionNext(s)
  BY <1>0, <1>1
  DEF GateTypeOK, Goto, SubmissionNext, Admit, PutPayload, Enqueue, Discard, Retain, ClaimOwn, ClaimMisses, HangUp
<1>2. CASE CallerNext(s)
  <2>1. CASE Beat(s)
    BY <2>1 DEF Beat, gateVars
  <2>2. CASE Call(s) \/ Return(s) \/ Forget(s) \/ RecordAcceptance(s) \/ Recheck(s)
    BY <1>0, <2>2 DEF GateTypeOK, Goto, Call, Return, Forget, RecordAcceptance, Recheck, Finish
  <2>3. CASE Doubt(s)
    <3>1. pc[s] = "doubt" /\ (Finish(s) \/ Goto(s, "recheck"))
      BY <2>3 DEF Doubt
    <3>2. QED
      BY <1>0, <3>1 DEF GateTypeOK, Goto, Finish
  <2>4. CASE Settle(s)
    <3>1. pc[s] = "answered" /\ (Finish(s) \/ Goto(s, "forget") \/ Goto(s, "recheck"))
      BY <2>4 DEF Settle
    <3>2. QED
      BY <1>0, <3>1 DEF GateTypeOK, Goto, Finish
  <2>5. QED
    BY <1>2, <2>1, <2>2, <2>3, <2>4 DEF CallerNext
<1>3. CASE Release(s)
  BY <1>0, <1>3 DEF Release, Finish, Goto, GateTypeOK
<1>4. CASE Restart
  BY <1>0, <1>4 DEF Restart
<1>5. s \notin QueueWorkers /\ s \notin Cancellations
  BY SubmitConstants
<1>6. CASE UNCHANGED <<pc[s], target[s], outcome[s]>>
  BY <1>6
<1>7. QED
  BY <1>0, <1>1, <1>2, <1>3, <1>4, <1>5, <1>6, Acts

LEMMA CreatorStep ==
    ASSUME SubmitInv, [SubmitNext]_submitVars, NEW q \in Requests
    PROVE  CreatorOK(q)'
<1>0. CreatorOK(q) /\ GateTypeOK
  BY DEF SubmitInv, GateInv
<1>1. ASSUME creator'[q] = creator[q] PROVE CreatorOK(q)'
  <2>1. CASE creator[q] = NoJob
    BY <1>1, <2>1 DEF CreatorOK
  <2>2. CASE creator[q] # NoJob
    <3>1. creator[q] \in Submissions
      BY <1>0, <2>2 DEF GateTypeOK
    <3>2. QED
      BY <1>0, <1>1, <2>2, <3>1, Path DEF CreatorOK
  <2>3. QED
    BY <2>1, <2>2
<1>2. ASSUME NEW s \in Submissions, Creates(s) PROVE CreatorOK(q)'
  <2>1. CASE q = RequestOf[s]
    <3>1. creator'[q] = s /\ pc'[s] = "created"
      BY <1>0, <1>2, <2>1, ActorFacts DEF Creates, Goto, GateTypeOK
    <3>2. QED
      BY <2>1, <3>1 DEF CreatorOK
  <2>2. CASE q # RequestOf[s]
    BY <1>0, <1>1, <1>2, <2>2 DEF Creates, GateTypeOK
  <2>3. QED
    BY <2>1, <2>2
<1>4. QED
  BY <1>1, <1>2, CreatorCases

\* The file Forget removes is that of a finished job.
LEMMA ForgetsFinished ==
    ASSUME SubmitInv, NEW x \in Submissions \cup QueueWorkers, pc[x] = "forget"
    PROVE  target[x] \in Requests /\ ~Unfinished(target[x])
<1>1. x \in Actors
  BY ActorFacts
<1>2. QED
  BY <1>1 DEF SubmitInv, GateInv, ActorOK, Chasing

LEMMA StoredStep ==
    ASSUME SubmitInv, [SubmitNext]_submitVars, NEW s \in Submissions, pc'[s] = "stored"
    PROVE  s \in payload'
<1>0. GateTypeOK /\ SubmissionOK(s) /\ s \in Actors
  BY ActorFacts DEF SubmitInv, GateInv
<1>1. CASE PutPayload(s)
  BY <1>0, <1>1 DEF PutPayload, Goto, GateTypeOK
<1>2. CASE pc[s] = "stored"
  <2>0. s \in payload
    BY <1>0, <1>2 DEF SubmissionOK
  <2>1. ASSUME NEW t \in Submissions, PutPayload(t) PROVE s \in payload'
    BY <2>0, <2>1 DEF PutPayload
  <2>2. ASSUME NEW t \in Submissions, Discard(t) PROVE s \in payload'
    BY <1>2, <2>0, <2>2 DEF Discard
  <2>3. ASSUME NEW x \in Submissions \cup QueueWorkers, Forget(x) PROVE s \in payload'
    <3>1. target[x] \in Requests
      BY <2>3, ForgetsFinished DEF Forget
    <3>2. CreatorOK(target[x])
      BY <3>1 DEF SubmitInv, GateInv
    <3>3. creator[target[x]] # s
      BY <1>2, <3>2, ActorFacts DEF CreatorOK
    <3>4. QED
      BY <2>0, <2>3, <3>3 DEF Forget
  <2>4. QED
    BY <2>0, <2>1, <2>2, <2>3, PayloadCases
<1>3. QED
  BY <1>1, <1>2, Path

LEMMA PayloadStep == SubmitInv /\ [SubmitNext]_submitVars => UnfinishedHasPayload'
<1> SUFFICES ASSUME SubmitInv, [SubmitNext]_submitVars, NEW q \in Requests, Unfinished(q)'
             PROVE  creator'[q] \in payload'
  BY DEF UnfinishedHasPayload
<1>0. GateTypeOK /\ CreatorOK(q)
  BY DEF SubmitInv, GateInv
<1>1. ASSUME NEW s \in Submissions, q = RequestOf[s], Creates(s) PROVE creator'[q] \in payload'
  BY <1>0, <1>1 DEF Creates, GateTypeOK, SubmitInv, GateInv, SubmissionOK
<1>2. CASE Unfinished(q)
  <2>1. creator[q] \in payload
    BY <1>2 DEF SubmitInv, GateInv, UnfinishedHasPayload
  <2>2. creator[q] \in Submissions /\ creator[q] # NoJob
    BY <1>0, <2>1, ActorFacts DEF GateTypeOK
  <2>3. creator'[q] = creator[q] \/ \E s \in Submissions : q = RequestOf[s] /\ Creates(s)
    <3>1. ASSUME NEW s \in Submissions, Creates(s), q # RequestOf[s] PROVE creator'[q] = creator[q]
      BY <1>0, <3>1 DEF Creates, GateTypeOK
    <3>2. QED
      BY <3>1, CreatorCases
  <2>4. creator[q] \in payload'
    <3>1. ASSUME NEW t \in Submissions, PutPayload(t) PROVE creator[q] \in payload'
      BY <2>1, <3>1 DEF PutPayload
    <3>2. ASSUME NEW t \in Submissions, Discard(t) PROVE creator[q] \in payload'
      BY <1>0, <2>1, <2>2, <3>2 DEF Discard, CreatorOK
    <3>3. ASSUME NEW x \in Submissions \cup QueueWorkers, Forget(x) PROVE creator[q] \in payload'
      <4>1. target[x] \in Requests /\ ~Unfinished(target[x])
        BY <3>3, ForgetsFinished DEF Forget
      <4>2. CreatorOK(target[x])
        BY <4>1 DEF SubmitInv, GateInv
      <4>3. creator[target[x]] # creator[q]
        BY <1>0, <1>2, <2>2, <4>1, <4>2 DEF CreatorOK
      <4>4. QED
        BY <2>1, <3>3, <4>3 DEF Forget
    <3>4. QED
      BY <2>1, <3>1, <3>2, <3>3, PayloadCases
  <2>5. QED
    BY <1>1, <2>3, <2>4
<1>3. QED
  BY <1>1, <1>2, NewJob

LEMMA PermitStep == SubmitInv /\ [SubmitNext]_submitVars => UnfinishedHoldsPermit'
<1> SUFFICES ASSUME SubmitInv, [SubmitNext]_submitVars PROVE UnfinishedHoldsPermit'
  OBVIOUS
<1> SUFFICES ASSUME NEW q \in Requests, creator'[q] \in counted', Unfinished(q)'
             PROVE  creator'[q] \in permits' \/ pc'[creator'[q]] = "created"
  BY DEF UnfinishedHoldsPermit
<1>0. GateTypeOK /\ CreatorOK(q)
  BY DEF SubmitInv, GateInv
<1>1. ASSUME NEW s \in Submissions, q = RequestOf[s], Creates(s) PROVE creator'[q] = s /\ pc'[s] = "created"
  BY <1>0, <1>1, ActorFacts DEF Creates, Goto, GateTypeOK
<1>2. ~Restart
  BY DEF Restart
<1>3. CASE ~\E s \in Submissions : q = RequestOf[s] /\ Creates(s)
  <2>1. Unfinished(q)
    BY <1>3, NewJob
  <2>2. creator[q] \in payload
    BY <2>1 DEF SubmitInv, GateInv, UnfinishedHasPayload
  <2>3. creator[q] \in Submissions /\ creator[q] # NoJob
    BY <1>0, <2>2, ActorFacts DEF GateTypeOK
  <2>4. creator'[q] = creator[q] /\ creator[q] \in counted
    <3>1. ASSUME NEW s \in Submissions, Creates(s), q # RequestOf[s]
          PROVE  creator'[q] = creator[q]
      BY <1>0, <3>1 DEF Creates, GateTypeOK
    <3>2. creator'[q] = creator[q]
      BY <1>3, <3>1, CreatorCases
    <3>3. ASSUME NEW s \in Submissions, Admit(s)
          PROVE  creator[q] # s /\ counted' = counted \cup {s}
      BY <1>0, <2>3, <3>3 DEF Admit, CreatorOK
    <3>4. QED
      BY <3>2, <3>3, CountedCases
  <2>5. creator[q] \in permits \/ pc[creator[q]] = "created"
    BY <2>1, <2>4 DEF SubmitInv, GateInv, UnfinishedHoldsPermit
  <2>6. ASSUME Retain(creator[q]) PROVE creator[q] \in permits'
    BY <2>6 DEF Retain
  <2>7. ASSUME NEW x \in Actors, pc[x] \in {"recheck", "release"}, ~Unfinished(target[x])
        PROVE  creator[target[x]] # creator[q]
    <3>1. target[x] \in Requests
      BY <2>7 DEF SubmitInv, GateInv, ActorOK, Chasing
    <3>2. CreatorOK(target[x])
      BY <3>1 DEF SubmitInv, GateInv
    <3>3. QED
      BY <1>0, <2>1, <2>3, <2>7, <3>2 DEF CreatorOK
  <2>8. ASSUME creator[q] \in permits PROVE creator[q] \in permits'
    <3>1. ASSUME NEW s \in Submissions, Retain(s) PROVE creator[q] \in permits'
      BY <2>8, <3>1 DEF Retain
    <3>2. ASSUME NEW x \in Submissions \cup QueueWorkers, Recheck(x) PROVE creator[q] \in permits'
      <4>1. x \in Actors /\ pc[x] = "recheck"
        BY <3>2, ActorFacts DEF Recheck
      <4>2. CASE Ended(target[x])
        <5>1. ~Unfinished(target[x])
          BY <4>2 DEF Ended, Unfinished
        <5>2. creator[target[x]] # creator[q]
          BY <2>7, <4>1, <5>1
        <5>3. QED
          BY <2>8, <3>2, <4>2, <5>2 DEF Recheck
      <4>3. CASE ~Ended(target[x])
        BY <2>8, <3>2, <4>3 DEF Recheck
      <4>4. QED
        BY <4>2, <4>3
    <3>3. ASSUME NEW x \in Actors, Release(x) PROVE creator[q] \in permits'
      <4>1. pc[x] = "release" /\ ~Unfinished(target[x])
        BY <3>3 DEF Release, SubmitInv, GateInv, ActorOK
      <4>2. creator[target[x]] # creator[q]
        BY <2>7, <4>1
      <4>3. QED
        BY <2>8, <3>3, <4>2 DEF Release
    <3>4. QED
      BY <1>2, <2>8, <3>1, <3>2, <3>3, PermitCases
  <2>9. QED
    BY <1>2, <2>3, <2>4, <2>5, <2>6, <2>8, Path
<1>4. QED
  BY <1>1, <1>3
LEMMA SubmissionStep ==
    ASSUME SubmitInv, [SubmitNext]_submitVars, NEW s \in Submissions
    PROVE  SubmissionOK(s)'
<1>0. SubmissionOK(s) /\ s \in Actors
  BY ActorFacts DEF SubmitInv, GateInv
<1>1. s \notin QueueWorkers /\ s \notin Cancellations
  BY SubmitConstants
<1>2. target'[s] = target[s]
  <2>1. UNCHANGED target \/ UNCHANGED <<pc[s], target[s], outcome[s]>>
    <3>1. SubmissionNext(s) => UNCHANGED target
      BY DEF SubmissionNext, Admit, PutPayload, Enqueue, Discard, Retain, ClaimOwn, ClaimMisses, HangUp
    <3>2. CallerNext(s) \/ Release(s) \/ Restart => UNCHANGED target
      BY DEF CallerNext, Call, Beat, gateVars, Return, RecordAcceptance, Doubt, Settle, Recheck, Forget,
         Release, Restart
    <3>3. QED
      BY <1>0, <1>1, <3>1, <3>2, Acts
  <2>2. QED
    BY <2>1
<1>3. QED
  BY <1>0, <1>2, StoredStep DEF SubmissionOK

-----------------------------------------------------------------------------
(* What an actor knows.                                                      *)

\* A job settled with anything but "unknown", or settled before, is finished.
LEMMA SettledEnds ==
    ASSUME SubmitInv, NEW r \in Requests, Claimed(r), NEW o,
           o.kind \in {"succeeded", "rejected", "canceled"}, SettleJob(r, o)
    PROVE  ~Unfinished(r)'
<1>0. JobStory(r) /\ VideoTypeOK
  BY DEF SubmitInv, QueueInv, JobAgreesWithLease
<1>1. CASE ~Open(r) /\ UNCHANGED videoVars
  <2>1. ~Unfinished(r)
    BY <1>0, <1>1 DEF JobStory, StoryOf, Open, Claimed, Unfinished
  <2>2. QED
    BY <1>1, <2>1 DEF Unfinished, videoVars, queueVars, jobVars
<1>2. ASSUME NEW l \in LeaseOutcome(r), l.request = ClosesAs[o.kind], SettleVideo(r, l, o.ref)
      PROVE  ~Unfinished(r)'
  <2>1. job'[r] = ClosesAs[o.kind]
    BY <1>0, <1>2 DEF SettleVideo, SyncJob, JobOutcome, VideoTypeOK
  <2>2. QED
    BY <2>1 DEF ClosesAs, Unfinished
<1>3. QED
  BY <1>1, <1>2 DEF SettleJob

\* A claim is of a job nobody was working on.
LEMMA FreshClaim ==
    ASSUME SubmitInv, NEW r \in Requests, NEW w, NEW a, Claim(r, w, a)
    PROVE  ~Claimed(r) /\ Claimed(r)'
<1>1. VideoTypeOK
  BY DEF SubmitInv, QueueInv
<1>2. job[r] = "queued" /\ job'[r] = "running" /\ attempt'[r] = "running"
  BY <1>1 DEF Claim, Waiting, VideoTypeOK
<1>3. QED
  BY <1>2 DEF Claimed

LEMMA Idles == ASSUME NEW x, pc'[x] \notin Chasing PROVE ActorOK(x)'
BY DEF ActorOK, Chasing

\* Nothing that happens to others invalidates what an actor knows.
LEMMA Bystander ==
    ASSUME SubmitInv, [SubmitNext]_submitVars, NEW y \in Actors,
           UNCHANGED <<pc[y], target[y], outcome[y]>>
    PROVE  ActorOK(y)'
<1>0. ActorOK(y) /\ GateTypeOK
  BY DEF SubmitInv, GateInv
<1>1. CASE pc[y] \notin Chasing
  BY <1>1, Idles
<1>2. CASE pc[y] \in Chasing
  <2>1. target[y] \in Requests /\ Claimed(target[y])
    BY <1>0, <1>2 DEF ActorOK
  <2>2. /\ Claimed(target[y])'
        /\ ~Unfinished(target[y]) => ~Unfinished(target[y])'
        /\ Refused(target[y]) => Refused(target[y])'
    <3>1. PICK q \in Requests : q = target[y]
      BY <2>1
    <3>2. /\ Claimed(q)'
          /\ ~Unfinished(q) => ~Unfinished(q)'
          /\ Refused(q) => Refused(q)'
      BY <2>1, <3>1, SubmitOnward, RefusedStays DEF Claimed
    <3>3. QED
      BY <3>1, <3>2 DEF Claimed, Unfinished, Refused
  <2>3. pc[y] \in {"load", "submitting"} => sends'[target[y]] = sends[target[y]]
    <3>1. ASSUME pc[y] \in {"load", "submitting"}, NEW x \in Submissions \cup QueueWorkers, Call(x)
          PROVE  sends'[target[y]] = sends[target[y]]
      <4>1. x \in Actors /\ pc[x] = "submitting" /\ pc'[x] = "calling"
        BY <1>0, <3>1, ActorFacts DEF Call, Goto, GateTypeOK
      <4>2. x # y
        BY <3>1, <4>1
      <4>3. target[x] # target[y]
        BY <3>1, <4>1, <4>2 DEF SubmitInv, GateInv, OneCaller
      <4>4. QED
        BY <1>0, <2>1, <3>1, <4>3 DEF Call, GateTypeOK
    <3>2. QED
      BY <3>1, UpstreamCases DEF Return, CancelAtUpstream, UpstreamAccepts
  <2>4. pc[y] = "calling" => sends'[target[y]] # 0
    <3>1. ASSUME NEW x \in Submissions \cup QueueWorkers, Call(x), sends[target[y]] # 0
          PROVE  sends'[target[y]] # 0
      BY <1>0, <2>1, <3>1 DEF Call, GateTypeOK
    <3>2. QED
      BY <1>0, <3>1, UpstreamCases DEF ActorOK, Return, CancelAtUpstream, UpstreamAccepts
  <2>5. QED
    BY <1>0, <2>1, <2>2, <2>3, <2>4 DEF ActorOK
<1>3. QED
  BY <1>1, <1>2

LEMMA SubmissionActs ==
    ASSUME SubmitInv, [SubmitNext]_submitVars, NEW s \in Submissions, SubmissionNext(s)
    PROVE  ActorOK(s)'
<1>0. s \in Actors /\ ActorOK(s) /\ GateTypeOK /\ SubmissionOK(s) /\ RequestOf[s] \in Requests
  BY ActorFacts DEF SubmitInv, GateInv
<1>1. CASE Admit(s) \/ PutPayload(s) \/ Enqueue(s) \/ Discard(s) \/ Retain(s) \/ ClaimMisses(s)
  <2>1. pc'[s] \notin Chasing
    BY <1>0, <1>1
    DEF Admit, PutPayload, Enqueue, Discard, Retain, ClaimMisses, Goto, GateTypeOK, Chasing
  <2>2. QED
    BY <2>1, Idles
<1>2. CASE ClaimOwn(s)
  <2>1. CASE pc'[s] = "done"
    BY <2>1, Idles DEF Chasing
  <2>2. CASE pc'[s] = "submitting"
    <3>1. PICK r \in Requests : r = RequestOf[s]
      BY <1>0
    <3>2. PICK a \in UpstreamAccounts : Claim(r, HttpWorker, a)
      BY <1>2, <3>1 DEF ClaimOwn, ClaimVideoJobById
    <3>3. ~Claimed(r) /\ Claimed(r)'
      BY <3>2, FreshClaim
    <3>4. sends'[r] = 0
      BY <1>2, <3>3 DEF ClaimOwn, SubmitInv, GateInv, SentOK
    <3>5. target'[s] = r
      BY <1>0, <1>2, <3>1 DEF ClaimOwn, SubmissionOK
    <3>6. Claimed(target[s])'
      BY <3>3, <3>5 DEF Claimed
    <3>7. QED
      BY <2>2, <3>4, <3>5, <3>6 DEF ActorOK
  <2>3. QED
    BY <1>0, <1>2, <2>1, <2>2 DEF ClaimOwn, Goto, GateTypeOK
<1>3. CASE HangUp(s)
  <2>1. /\ pc[s] = "calling" /\ pc'[s] = "orphaned" /\ target' = target
        /\ UNCHANGED <<job, attempt>>
    BY <1>0, <1>3 DEF HangUp, Goto, GateTypeOK, videoVars, queueVars, jobVars
  <2>2. QED
    BY <1>0, <2>1 DEF ActorOK, Chasing, Claimed
<1>4. QED
  BY <1>1, <1>2, <1>3 DEF SubmissionNext

LEMMA WorkerActs ==
    ASSUME SubmitInv, [SubmitNext]_submitVars, NEW w \in QueueWorkers, WorkerClaims(w) \/ Load(w)
    PROVE  ActorOK(w)'
<1>0. w \in Actors /\ ActorOK(w) /\ GateTypeOK
  BY ActorFacts DEF SubmitInv, GateInv
<1>1. CASE WorkerClaims(w)
  <2>1. PICK r \in Requests, a \in UpstreamAccounts : Claim(r, w, a) /\ target' = [target EXCEPT ![w] = r]
    BY <1>1 DEF WorkerClaims, Oldest, WaitingOf
  <2>2. ~Claimed(r) /\ Claimed(r)'
    BY <2>1, FreshClaim
  <2>3. sends'[r] = 0 /\ target'[w] = r
    BY <1>0, <1>1, <2>1, <2>2 DEF WorkerClaims, SubmitInv, GateInv, SentOK, GateTypeOK
  <2>4. pc'[w] \in {"load", "idle"}
    BY <1>0, <1>1 DEF WorkerClaims, Goto, GateTypeOK
  <2>5. Claimed(target[w])'
    BY <2>2, <2>3 DEF Claimed
  <2>6. QED
    BY <2>3, <2>4, <2>5 DEF ActorOK, Chasing
<1>2. CASE Load(w)
  <2>1. /\ pc[w] = "load" /\ target' = target /\ sends' = sends
        /\ UNCHANGED <<job, attempt>>
        /\ pc'[w] = "submitting" \/ (pc'[w] = "doubt" /\ outcome'[w].kind = "unknown")
    BY <1>0, <1>2 DEF Load, Goto, GateTypeOK, videoVars, queueVars, jobVars
  <2>2. QED
    BY <1>0, <2>1 DEF ActorOK, Chasing, Claimed
<1>3. QED
  BY <1>1, <1>2

LEMMA CallerActs ==
    ASSUME SubmitInv, [SubmitNext]_submitVars, NEW x \in Submissions \cup QueueWorkers, CallerNext(x)
    PROVE  ActorOK(x)'
<1>0. x \in Actors /\ ActorOK(x) /\ GateTypeOK
  BY ActorFacts DEF SubmitInv, GateInv
<1>1. ASSUME pc[x] \in Chasing
      PROVE  target[x] \in Requests /\ Claimed(target[x]) /\ job[target[x]] # "none"
  BY <1>0, <1>1 DEF ActorOK, Claimed
<1>2. ASSUME pc[x] \in Chasing, target' = target
      PROVE  target'[x] \in Requests /\ Claimed(target[x])'
  <2>1. PICK q \in Requests : q = target[x]
    BY <1>1, <1>2
  <2>2. Claimed(q)'
    BY <1>1, <1>2, <2>1, SubmitOnward
  <2>3. QED
    BY <1>2, <2>1, <2>2 DEF Claimed
<1>3. CASE Call(x)
  <2>1. pc[x] = "submitting" /\ pc'[x] = "calling" /\ target' = target
    BY <1>0, <1>3 DEF Call, Goto, GateTypeOK
  <2>2. sends'[target[x]] # 0
    <3>1. target[x] \in Requests
      BY <1>1, <2>1 DEF Chasing
    <3>2. QED
      BY <1>0, <1>3, <3>1 DEF Call, GateTypeOK
  <2>3. QED
    BY <1>2, <2>1, <2>2 DEF ActorOK, Chasing
<1>4. CASE Beat(x)
  <2>1. UNCHANGED <<pc[x], target[x], outcome[x]>>
    BY <1>4 DEF Beat, gateVars
  <2>2. QED
    BY <1>0, <2>1, Bystander
<1>5. CASE Return(x)
  <2>1. pc[x] = "calling" /\ pc'[x] = "answered" /\ target' = target
    BY <1>0, <1>5 DEF Return, Goto, GateTypeOK
  <2>2. PICK o \in Answers(target[x]) :
          /\ outcome' = [outcome EXCEPT ![x] = o]
          /\ upstream' = [upstream EXCEPT ![target[x]] =
                            IF o.kind \in {"rejected", "canceled"} THEN "refused"
                            ELSE upstream[target[x]]]
    BY <1>5 DEF Return
  <2>3. outcome'[x] = o
    BY <1>0, <2>2 DEF GateTypeOK
  <2>4. o.kind # "none" /\ (o.kind = "rejected" => ~o.ref)
    BY DEF Answers
  <2>5. target[x] \in Requests
    BY <1>1, <2>1 DEF Chasing
  <2>6. o.kind \in {"rejected", "canceled"} => upstream'[target[x]] = "refused"
    BY <1>0, <2>2, <2>5 DEF GateTypeOK
  <2>7. o.kind \in {"rejected", "canceled"} => Refused(target[x])'
    BY <2>1, <2>6 DEF Refused
  <2>8. QED
    BY <1>2, <2>1, <2>3, <2>4, <2>7 DEF ActorOK, Chasing
<1>6. CASE RecordAcceptance(x)
  <2>1. /\ pc[x] = "answered" /\ target' = target
        /\ pc'[x] = Rest(x) \/ (pc'[x] = "doubt" /\ outcome'[x].kind = "unknown")
    BY <1>0, <1>6 DEF RecordAcceptance, Goto, Finish, GateTypeOK
  <2>2. CASE pc'[x] = Rest(x)
    BY <2>2, ActorFacts, Idles DEF Chasing
  <2>3. CASE pc'[x] = "doubt" /\ outcome'[x].kind = "unknown"
    BY <1>2, <2>1, <2>3 DEF ActorOK, Chasing
  <2>4. QED
    BY <2>1, <2>2, <2>3
<1>7. CASE Doubt(x)
  <2>1. pc[x] = "doubt" /\ target' = target
    BY <1>7 DEF Doubt
  <2>2. Finish(x) \/ Goto(x, "recheck")
    BY <1>7 DEF Doubt
  <2>3. pc'[x] \in {"idle", "done", "recheck"}
    BY <1>0, <2>2, ActorFacts DEF Finish, Goto, GateTypeOK
  <2>4. QED
    BY <1>2, <2>1, <2>3 DEF ActorOK, Chasing
<1>8. CASE Settle(x)
  <2>1. pc[x] = "answered" /\ target' = target
    BY <1>8 DEF Settle
  <2>2. Finish(x) \/ Goto(x, "recheck")
        \/ (Goto(x, "forget") /\ SettleJob(target[x], outcome[x]) /\ outcome[x].kind # "unknown")
    BY <1>8 DEF Settle
  <2>3. CASE Finish(x) \/ Goto(x, "recheck")
    <3>1. pc'[x] \in {"idle", "done", "recheck"}
      BY <1>0, <2>3, ActorFacts DEF Finish, Goto, GateTypeOK
    <3>2. QED
      BY <1>2, <2>1, <3>1 DEF ActorOK, Chasing
  <2>4. CASE Goto(x, "forget") /\ SettleJob(target[x], outcome[x]) /\ outcome[x].kind # "unknown"
    <3>1. outcome[x].kind \in {"succeeded", "rejected", "canceled"}
      BY <1>0, <1>8, <2>1, <2>4 DEF Settle, ActorOK, GateTypeOK, Outcome
    <3>2. PICK q \in Requests : q = target[x]
      BY <1>1, <2>1 DEF Chasing
    <3>3. ~Unfinished(q)'
      BY <1>1, <2>1, <2>4, <3>1, <3>2, SettledEnds DEF Chasing
    <3>4. ~Unfinished(target[x])'
      BY <2>1, <3>2, <3>3 DEF Unfinished
    <3>5. pc'[x] = "forget"
      BY <1>0, <2>4 DEF Goto, GateTypeOK
    <3>6. QED
      BY <1>2, <2>1, <3>4, <3>5 DEF ActorOK, Chasing
  <2>5. QED
    BY <2>2, <2>3, <2>4
<1>9. CASE Recheck(x)
  <2>1. pc'[x] \in {"idle", "done"}
    BY <1>0, <1>9, ActorFacts DEF Recheck, Finish, Goto, GateTypeOK
  <2>2. QED
    BY <2>1, Idles DEF Chasing
<1>10. CASE Forget(x)
  <2>1. /\ pc[x] = "forget" /\ pc'[x] = "release" /\ target' = target
        /\ UNCHANGED <<job, attempt>>
    BY <1>0, <1>10 DEF Forget, Goto, GateTypeOK, videoVars, queueVars, jobVars
  <2>2. QED
    BY <1>0, <2>1 DEF ActorOK, Chasing, Claimed, Unfinished
<1>11. QED
  BY <1>3, <1>4, <1>5, <1>6, <1>7, <1>8, <1>9, <1>10 DEF CallerNext

LEMMA CancellationActs ==
    ASSUME SubmitInv, [SubmitNext]_submitVars, NEW c \in Cancellations, CancellationNext(c)
    PROVE  ActorOK(c)'
<1>0. c \in Actors /\ ActorOK(c) /\ GateTypeOK /\ VideoTypeOK
  BY ActorFacts DEF SubmitInv, GateInv, QueueInv
<1>1. ASSUME NEW r \in Requests, AskCancel(c, r) PROVE ActorOK(c)'
  <2>0. JobStory(r)
    BY DEF SubmitInv, QueueInv, JobAgreesWithLease
  <2>1. target'[c] = r /\ pc'[c] = IF Ended(r)' THEN "done" ELSE "asking"
    BY <1>0, <1>1 DEF AskCancel, Goto, GateTypeOK
  <2>2. CASE Ended(r)'
    <3>1. pc'[c] \notin Chasing
      BY <2>1, <2>2 DEF Chasing
    <3>2. QED
      BY <3>1, Idles
  <2>3. CASE ~Ended(r)'
    <3>1. Claimed(r)'
      <4>1. CASE job[r] = "cancel_requested" /\ UNCHANGED videoVars
        BY <2>0, <4>1 DEF JobStory, StoryOf, Claimed, videoVars, queueVars, jobVars
      <4>2. CASE RequestVideoCancel(r) /\ CancelAttempted(r)
        BY <1>0, <4>2 DEF CancelAttempted, Claimed, VideoTypeOK
      <4>3. CASE RequestVideoCancel(r) /\ CancelQueued(r)
        BY <1>0, <2>3, <4>3 DEF CancelQueued, Ended, VideoTypeOK
      <4>4. QED
        BY <1>1, <4>1, <4>2, <4>3 DEF AskCancel, RequestVideoCancel
    <3>2. Claimed(target[c])'
      BY <2>1, <3>1 DEF Claimed
    <3>3. QED
      BY <2>1, <2>3, <3>2 DEF ActorOK, Chasing
  <2>4. QED
    BY <2>2, <2>3
<1>2. CASE CancelAtUpstream(c)
  <2>1. /\ pc[c] = "asking" /\ pc'[c] = "confirm" /\ target' = target
        /\ UNCHANGED <<job, attempt>>
    BY <1>0, <1>2 DEF CancelAtUpstream, Goto, GateTypeOK, videoVars, queueVars, jobVars
  <2>2. target[c] \in Requests /\ Claimed(target[c])'
    BY <1>0, <2>1 DEF ActorOK, Chasing, Claimed
  <2>3. \/ outcome'[c].kind = "canceled" /\ upstream'[target[c]] = "canceled"
        \/ outcome'[c].kind = "unknown"
    BY <1>0, <1>2, <2>2 DEF CancelAtUpstream, GateTypeOK
  <2>4. outcome'[c].kind = "canceled" => Refused(target[c])'
    BY <2>1, <2>3 DEF Refused
  <2>5. QED
    BY <2>1, <2>2, <2>3, <2>4 DEF ActorOK, Chasing
<1>3. CASE SettleCancel(c)
  <2>1. pc[c] = "confirm" /\ target' = target
    BY <1>3 DEF SettleCancel
  <2>2. Finish(c)
        \/ (Goto(c, "release") /\ SettleJob(target[c], outcome[c]) /\ outcome[c].kind = "canceled")
    BY <1>3 DEF SettleCancel
  <2>3. CASE Finish(c)
    <3>1. pc'[c] \in {"idle", "done"}
      BY <1>0, <2>3, ActorFacts DEF Finish, Goto, GateTypeOK
    <3>2. QED
      BY <3>1, Idles DEF Chasing
  <2>4. CASE Goto(c, "release") /\ SettleJob(target[c], outcome[c]) /\ outcome[c].kind = "canceled"
    <3>1. PICK q \in Requests : q = target[c] /\ Claimed(q)
      BY <1>0, <2>1 DEF ActorOK, Chasing
    <3>2. ~Unfinished(q)'
      BY <2>4, <3>1, SettledEnds
    <3>3. Claimed(q)'
      BY <3>1, SubmitOnward
    <3>4. ~Unfinished(target[c])' /\ Claimed(target[c])'
      BY <2>1, <3>1, <3>2, <3>3 DEF Unfinished, Claimed
    <3>5. pc'[c] = "release"
      BY <1>0, <2>4 DEF Goto, GateTypeOK
    <3>6. QED
      BY <2>1, <3>1, <3>4, <3>5 DEF ActorOK, Chasing
  <2>5. QED
    BY <2>2, <2>3, <2>4
<1>4. QED
  BY <1>1, <1>2, <1>3 DEF CancellationNext

LEMMA ActorStep ==
    ASSUME SubmitInv, [SubmitNext]_submitVars, NEW y \in Actors
    PROVE  ActorOK(y)'
<1>0. GateTypeOK
  BY DEF SubmitInv, GateInv
<1>1. ASSUME Release(y) \/ Restart PROVE ActorOK(y)'
  <2>1. pc'[y] \in {"idle", "done"}
    BY <1>0, <1>1, ActorFacts DEF Release, Restart, Finish, Goto, GateTypeOK
  <2>2. QED
    BY <2>1, Idles DEF Chasing
<1>2. QED
  BY <1>1, Acts, Bystander, SubmissionActs, WorkerActs, CallerActs, CancellationActs

-----------------------------------------------------------------------------
(* One caller.                                                               *)

\* Whoever is about to send a job was so before, or has claimed it just now.
LEMMA CallerStep ==
    ASSUME SubmitInv, [SubmitNext]_submitVars, NEW y \in Actors, pc'[y] \in {"load", "submitting"}
    PROVE  \/ pc[y] \in {"load", "submitting"} /\ target'[y] = target[y]
           \/ /\ target'[y] \in Requests /\ ~Claimed(target'[y])
              /\ \A z \in Actors \ {y} : pc'[z] = pc[z] /\ target'[z] = target[z]
<1>0. GateTypeOK
  BY DEF SubmitInv, GateInv
<1>1. CASE y \in Submissions /\ SubmissionNext(y)
  <2>1. ClaimOwn(y)
    BY <1>0, <1>1
    DEF SubmissionNext, Admit, PutPayload, Enqueue, Discard, Retain, ClaimMisses, HangUp, Goto, GateTypeOK
  <2>2. PICK r \in Requests : r = RequestOf[y]
    BY <1>1, ActorFacts
  <2>3. target'[y] = r
    BY <1>1, <2>1, <2>2 DEF ClaimOwn, SubmitInv, GateInv, SubmissionOK
  <2>4. ~Claimed(r)
    BY <2>1, <2>2, FreshClaim DEF ClaimOwn, ClaimVideoJobById
  <2>5. QED
    BY <1>0, <2>1, <2>3, <2>4 DEF ClaimOwn, Goto, GateTypeOK
<1>2. CASE y \in QueueWorkers /\ WorkerClaims(y)
  <2>1. PICK r \in Requests, a \in UpstreamAccounts : Claim(r, y, a) /\ target' = [target EXCEPT ![y] = r]
    BY <1>2 DEF WorkerClaims, Oldest, WaitingOf
  <2>2. ~Claimed(r)
    BY <2>1, FreshClaim
  <2>3. QED
    BY <1>0, <1>2, <2>1, <2>2 DEF WorkerClaims, Goto, GateTypeOK
<1>3. CASE y \in QueueWorkers /\ Load(y)
  BY <1>3 DEF Load
<1>4. CASE y \in Submissions \cup QueueWorkers /\ CallerNext(y)
  <2>1. CASE Beat(y)
    BY <2>1 DEF Beat, gateVars
  <2>2. CASE Call(y) \/ Return(y) \/ Recheck(y) \/ Forget(y) \/ RecordAcceptance(y)
    BY <1>0, <2>2, ActorFacts DEF Call, Return, Recheck, Forget, RecordAcceptance, Finish, Goto, GateTypeOK
  <2>3. CASE Doubt(y)
    <3>1. Finish(y) \/ Goto(y, "recheck")
      BY <2>3 DEF Doubt
    <3>2. QED
      BY <1>0, <3>1, ActorFacts DEF Finish, Goto, GateTypeOK
  <2>4. CASE Settle(y)
    <3>1. Finish(y) \/ Goto(y, "forget") \/ Goto(y, "recheck")
      BY <2>4 DEF Settle
    <3>2. QED
      BY <1>0, <3>1, ActorFacts DEF Finish, Goto, GateTypeOK
  <2>5. QED
    BY <1>4, <2>1, <2>2, <2>3, <2>4 DEF CallerNext
<1>5. CASE y \in Cancellations /\ CancellationNext(y)
  <2>1. ASSUME NEW r \in Requests, AskCancel(y, r) PROVE pc'[y] \in {"done", "asking"}
    BY <1>0, <2>1 DEF AskCancel, Goto, GateTypeOK
  <2>2. ASSUME CancelAtUpstream(y) PROVE pc'[y] = "confirm"
    BY <1>0, <2>2 DEF CancelAtUpstream, Goto, GateTypeOK
  <2>3. ASSUME SettleCancel(y) PROVE pc'[y] \in {"idle", "done", "release"}
    <3>1. Finish(y) \/ Goto(y, "release")
      BY <2>3 DEF SettleCancel
    <3>2. QED
      BY <1>0, <3>1, ActorFacts DEF Finish, Goto, GateTypeOK
  <2>4. QED
    BY <1>5, <2>1, <2>2, <2>3 DEF CancellationNext
<1>6. CASE Release(y) \/ Restart
  BY <1>0, <1>6, ActorFacts DEF Release, Restart, Finish, Goto, GateTypeOK
<1>7. CASE UNCHANGED <<pc[y], target[y], outcome[y]>>
  BY <1>7
<1>8. QED
  BY <1>1, <1>2, <1>3, <1>4, <1>5, <1>6, <1>7, Acts

LEMMA OneCallerStep == SubmitInv /\ [SubmitNext]_submitVars => OneCaller'
<1> SUFFICES ASSUME SubmitInv, [SubmitNext]_submitVars, NEW x \in Actors, NEW y \in Actors,
                    pc'[x] \in {"load", "submitting"}, pc'[y] \in {"load", "submitting"},
                    target'[x] = target'[y], x # y
             PROVE  FALSE
  BY DEF OneCaller
<1>1. ASSUME NEW u \in Actors, NEW v \in Actors, u # v,
             pc'[v] \in {"load", "submitting"}, target'[u] = target'[v],
             ~Claimed(target'[u]),
             \A z \in Actors \ {u} : pc'[z] = pc[z] /\ target'[z] = target[z]
      PROVE  FALSE
  <2>1. pc[v] \in {"load", "submitting"} /\ target[v] = target'[u]
    BY <1>1
  <2>2. Claimed(target[v])
    BY <2>1 DEF SubmitInv, GateInv, ActorOK, Chasing
  <2>3. QED
    BY <1>1, <2>1, <2>2
<1>2. CASE /\ pc[x] \in {"load", "submitting"} /\ target'[x] = target[x]
           /\ pc[y] \in {"load", "submitting"} /\ target'[y] = target[y]
  BY <1>2 DEF SubmitInv, GateInv, OneCaller
<1>3. QED
  BY <1>1, <1>2, CallerStep

-----------------------------------------------------------------------------
(* The gateway's theorems.                                                   *)

LEMMA SubmitStart == SubmitInit => SubmitInv
<1> SUFFICES ASSUME SubmitInit PROVE SubmitInv
  OBVIOUS
<1>1. QueueInv
  BY QueueInit DEF SubmitInit
<1>2. GateTypeOK
  BY SubmitConstants DEF SubmitInit, GateTypeOK, Steps, Outcome, NoOutcome, Actors
<1>3. \A r \in Requests : SentOK(r) /\ CreatorOK(r) /\ ~Unfinished(r)
  BY DEF SubmitInit, VideoInit, SentOK, CreatorOK, Claimed, Unfinished
<1>4. \A s \in Submissions : SubmissionOK(s)
  BY ActorFacts DEF SubmitInit, SubmissionOK
<1>5. \A x \in Actors : pc[x] = "idle"
  BY DEF SubmitInit
<1>6. \A x \in Actors : ActorOK(x)
  BY <1>5 DEF ActorOK, Chasing
<1>7. OneCaller
  BY <1>5 DEF OneCaller
<1>8. UnfinishedHasPayload /\ UnfinishedHoldsPermit
  BY <1>3 DEF SubmitInit, UnfinishedHasPayload, UnfinishedHoldsPermit
<1>9. QED
  BY <1>1, <1>2, <1>3, <1>4, <1>6, <1>7, <1>8 DEF SubmitInv, GateInv

LEMMA SubmitStep == SubmitInv /\ [SubmitNext]_submitVars => SubmitInv'
<1> SUFFICES ASSUME SubmitInv, [SubmitNext]_submitVars PROVE SubmitInv'
  OBVIOUS
<1>1. QueueInv'
  BY SubmitIsQueue, QueueStep DEF SubmitInv
<1>2. \A r \in Requests : SentOK(r)' /\ CreatorOK(r)'
  BY SentStep, CreatorStep
<1>3. \A s \in Submissions : SubmissionOK(s)'
  BY SubmissionStep
<1>4. \A x \in Actors : ActorOK(x)'
  BY ActorStep
<1>5. QED
  BY <1>1, <1>2, <1>3, <1>4, GateTypeStep, OneCallerStep, PayloadStep, PermitStep
  DEF SubmitInv, GateInv

LEMMA AlwaysSubmitInv == SubmitSpec => []SubmitInv
BY SubmitStart, SubmitStep, PTL DEF SubmitSpec

\* Every variable of the gateway keeps its type.
THEOREM SubmitTypeCorrect == SubmitSpec => []SubmitTypeOK
<1>1. SubmitInv => SubmitTypeOK
  BY DEF SubmitInv, QueueInv, GateInv, GateTypeOK, SubmitTypeOK
<1>2. QED
  BY <1>1, AlwaysSubmitInv, PTL

\* The handlers, the worker and the restarts only ever do to the queue what
\* its specification allows, so that all that is proved of it holds here too.
THEOREM SubmitImplementsQueue == SubmitSpec => VideoSpec
<1>1. SubmitInit => VideoInit
  BY DEF SubmitInit
<1>2. QED
  BY <1>1, AlwaysSubmitInv, SubmitIsQueue, PTL DEF SubmitSpec, VideoSpec

\* The input of an unfinished job is on disk, whoever crashed in between.
THEOREM SubmitKeepsPayload == SubmitSpec => []UnfinishedHasPayload
BY AlwaysSubmitInv, PTL DEF SubmitInv, GateInv

\* A job the present gateway has admitted counts until it is finished or unknown.
THEOREM SubmitKeepsPermit == SubmitSpec => []UnfinishedHoldsPermit
BY AlwaysSubmitInv, PTL DEF SubmitInv, GateInv

\* No video is submitted twice, however many repeat the request or compete
\* for its job.
THEOREM SubmitSendsOnce == SubmitSpec => []VideoSentOnce
<1>1. SubmitInv => VideoSentOnce
  BY DEF SubmitInv, GateInv, SentOK, VideoSentOnce
<1>2. QED
  BY <1>1, AlwaysSubmitInv, PTL

\* A video the upstream has accepted and not cancelled is never refunded.
THEOREM SubmitNoRefund == SubmitSpec => []NoRefundForAcceptedVideo
<1>1. SubmitInv => NoRefundForAcceptedVideo
  <2> SUFFICES ASSUME SubmitInv, NEW r \in Requests, upstream[r] = "accepted"
               PROVE  reservation[r] # "released"
    BY DEF NoRefundForAcceptedVideo
  <2>1. SentOK(r)
    BY DEF SubmitInv, GateInv
  <2>2. Claimed(r)
    BY <2>1 DEF SentOK
  <2>3. QED
    BY <2>1, <2>2 DEF SentOK, Refused
<1>2. QED
  BY <1>1, AlwaysSubmitInv, PTL
=============================================================================
