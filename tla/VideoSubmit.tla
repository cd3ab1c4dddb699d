----------------------------- MODULE VideoSubmit -----------------------------
(***************************************************************************)
(* The gateway around the durable video queue: the HTTP handlers that submit *)
(* and cancel jobs, the queue worker, the files with the jobs' inputs and    *)
(* the permits of the in-process limiter. The queue's transactions are those *)
(* of VideoQueue; between any two of them the other actors go on, the process *)
(* dies and forgets its permits, or the gateway starts anew with a limiter   *)
(* that has counted none of them.                                            *)
(*                                                                         *)
(* A submission stands for one HTTP request and for the job id it makes up;  *)
(* submissions of the same request repeat its idempotency key. The upstream  *)
(* and its adapter are external. The store may refuse any transaction, so    *)
(* what happens to keys and users in the meantime adds no behaviour.         *)
(***************************************************************************)
EXTENDS VideoQueue

CONSTANTS
    Submissions,
    RequestOf,      \* [Submissions -> Requests]
    Cancellations,
    QueueWorkers,   \* VideoQueueWorker; only tests construct one
    HttpWorker,     \* the worker id all submissions claim with
    MaxVideoJobs,
    MaxRestarts

Actors == Submissions \cup Cancellations \cup QueueWorkers

NoRequest == "no request"
NoJob == "no job"

ASSUME SubmitConstants ==
    /\ RequestOf \in [Submissions -> Requests]
    /\ Workers = QueueWorkers \cup {HttpWorker}
    /\ HttpWorker \notin QueueWorkers
    /\ Submissions \cap Cancellations = {}
    /\ (Submissions \cup Cancellations) \cap QueueWorkers = {}
    /\ NoRequest \notin Requests
    /\ NoJob \notin Submissions
    /\ MaxVideoJobs \in Nat \ {0}
    /\ MaxRestarts \in Nat

VARIABLES
    pc,         \* where each actor is
    target,     \* the request whose job it works on
    outcome,    \* the VideoAdapterOutcome it settles with, and whether it names the upstream's call
    creator,    \* jobs.id: the submission that enqueued the request's job
    payload,    \* the ids that have a file in video_payloads
    permits,    \* the ids in JOB_PERMITS
    counted,    \* the submissions whose permit the present RateLimiter has counted
    upstream,   \* what becomes of the request's video at the upstream
    sends,      \* calls of submit_video for it
    restarts    \* of the process or of the gateway in it

gateVars == <<pc, target, outcome, creator, payload, permits, counted, upstream, sends, restarts>>
submitVars == <<videoVars, gateVars>>

Outcome == {"accepted", "succeeded", "canceled", "rejected", "unknown"}

NoOutcome == [kind |-> "none", ref |-> FALSE]

Steps == {"idle", "admitted", "stored", "refused", "replayed", "created", "retained", "load",
          "submitting", "calling", "orphaned", "answered", "doubt", "forget", "release", "recheck",
          "asking", "confirm", "done"}

\* A queue worker goes on to the next job.
Rest(x) == IF x \in QueueWorkers THEN "idle" ELSE "done"

Goto(x, step) == pc' = [pc EXCEPT ![x] = step]

\* The permit is still the handler's own, and dropped when it returns.
Owning == {"admitted", "stored", "refused", "created"}

PermitsOf(k) == {s \in counted : KeyOf[RequestOf[s]] = k /\ (s \in permits \/ pc[s] \in Owning)}

Unfinished(r) == job[r] \in {"queued", "running", "cancel_requested"}

Ended(r) == job[r] \in {"succeeded", "failed", "canceled"}

WorkerId(x) == IF x \in QueueWorkers THEN x ELSE HttpWorker

SubmitInit ==
    /\ VideoInit
    /\ pc = [x \in Actors |-> "idle"]
    /\ target = [x \in Actors |-> IF x \in Submissions THEN RequestOf[x] ELSE NoRequest]
    /\ outcome = [x \in Actors |-> NoOutcome]
    /\ creator = [r \in Requests |-> NoJob]
    /\ payload = {}
    /\ permits = {}
    /\ counted = {}
    /\ upstream = [r \in Requests |-> "none"]
    /\ sends = [r \in Requests |-> 0]
    /\ restarts = 0

-----------------------------------------------------------------------------
(* Submitting: permit, payload, job, in this order.                        *)

\* acquire_video_job
Admit(s) ==
    /\ pc[s] = "idle"
    /\ Cardinality(PermitsOf(KeyOf[RequestOf[s]])) < MaxVideoJobs
    /\ counted' = counted \cup {s}
    /\ Goto(s, "admitted")
    /\ UNCHANGED <<videoVars, target, outcome, creator, payload, permits, upstream, sends, restarts>>

\* VideoPayloadStore::put renames a complete file into place, or fails.
PutPayload(s) ==
    /\ pc[s] = "admitted"
    /\ \/ payload' = payload \cup {s} /\ Goto(s, "stored")
       \/ Goto(s, "done") /\ UNCHANGED payload
    /\ UNCHANGED <<videoVars, target, outcome, creator, permits, counted, upstream, sends, restarts>>

\* CoreBridge::enqueue_video_job: Created, Replay or an error. A replay drops
\* its permit at once, a refused submission when it returns.
Enqueue(s) ==
    LET r == RequestOf[s]
    IN  /\ pc[s] = "stored"
        /\ \/ /\ EnqueueVideoJob(r)
              /\ creator' = [creator EXCEPT ![r] = s]
              /\ Goto(s, "created")
           \/ /\ creator[r] # NoJob
              /\ Goto(s, "replayed")
              /\ UNCHANGED <<videoVars, creator>>
           \/ /\ Goto(s, "refused")
              /\ UNCHANGED <<videoVars, creator>>
        /\ UNCHANGED <<target, outcome, payload, permits, counted, upstream, sends, restarts>>

\* The file of a submission that made no job.
Discard(s) ==
    /\ pc[s] \in {"replayed", "refused"}
    /\ payload' = payload \ {s}
    /\ Goto(s, "done")
    /\ UNCHANGED <<videoVars, target, outcome, creator, permits, counted, upstream, sends, restarts>>

\* retain_job_permit
Retain(s) ==
    /\ pc[s] = "created"
    /\ permits' = permits \cup {s}
    /\ Goto(s, "retained")
    /\ UNCHANGED <<videoVars, target, outcome, creator, payload, counted, upstream, sends, restarts>>

-----------------------------------------------------------------------------
(* Faulty variants of the steps below.                                     *)

\* A submission whose job cannot be claimed cleans up behind itself.
FaultyClaimMisses(s) ==
    /\ pc[s] = "retained"
    /\ payload' = payload \ {s}
    /\ Goto(s, "done")
    /\ UNCHANGED <<videoVars, target, outcome, creator, permits, counted, upstream, sends, restarts>>

\* After an error the permit is given back without looking at the job.
FaultyRecheck(x) ==
    /\ pc[x] = "recheck"
    /\ permits' = permits \ {creator[target[x]]}
    /\ outcome' = [outcome EXCEPT ![x] = NoOutcome]
    /\ Goto(x, Rest(x))
    /\ UNCHANGED <<videoVars, target, creator, payload, counted, upstream, sends, restarts>>

\* An upstream that cannot cancel is taken to have cancelled.
FaultyCancelAtUpstream(c) ==
    /\ pc[c] = "asking"
    /\ outcome' = [outcome EXCEPT ![c] = [kind |-> "canceled", ref |-> FALSE]]
    /\ Goto(c, "confirm")
    /\ UNCHANGED <<videoVars, target, creator, payload, permits, counted, upstream, sends, restarts>>

-----------------------------------------------------------------------------
(* Claiming and calling the upstream.                                      *)

\* claim_video_job_for_worker. The claim is committed before the account's
\* binding is looked up; without one the handler returns an error and the job
\* is left running.
ClaimOwn(s) ==
    /\ pc[s] = "retained"
    /\ ClaimVideoJobById(RequestOf[s], HttpWorker)
    /\ Goto(s, "submitting") \/ Goto(s, "done")
    /\ UNCHANGED <<target, outcome, creator, payload, permits, counted, upstream, sends, restarts>>

\* No claim: the job is not waiting any more, no account is free, or an error.
ClaimMisses(s) ==
    /\ pc[s] = "retained"
    /\ Goto(s, "done")
    /\ UNCHANGED <<videoVars, target, outcome, creator, payload, permits, counted, upstream, sends, restarts>>

\* VideoQueueWorker::run_once: the claim, with the same gap behind it.
WorkerClaims(w) ==
    /\ pc[w] = "idle"
    /\ \E u \in NextUsers : \E r \in Oldest(WaitingOf(u)), a \in UpstreamAccounts :
          /\ Claim(r, w, a)
          /\ target' = [target EXCEPT ![w] = r]
    /\ Goto(w, "load") \/ Goto(w, "idle")
    /\ UNCHANGED <<outcome, creator, payload, permits, counted, upstream, sends, restarts>>

\* VideoPayloadStore::get. A file that is missing or cannot be read makes the
\* job unknown, and an error of that settlement is returned.
Load(w) ==
    /\ pc[w] = "load"
    /\ \/ creator[target[w]] \in payload /\ Goto(w, "submitting") /\ UNCHANGED outcome
       \/ /\ outcome' = [outcome EXCEPT ![w] = [kind |-> "unknown", ref |-> FALSE]]
          /\ Goto(w, "doubt")
    /\ UNCHANGED <<videoVars, target, creator, payload, permits, counted, upstream, sends, restarts>>

\* submit_video is called ...
Call(x) ==
    /\ pc[x] = "submitting"
    /\ sends' = [sends EXCEPT ![target[x]] = @ + 1]
    /\ Goto(x, "calling")
    /\ UNCHANGED <<videoVars, target, outcome, creator, payload, permits, counted, upstream, restarts>>

\* ... the heartbeat task extends the claim meanwhile, and goes on if the client
\* hangs up: the handler is dropped where it waits for the adapter, which nobody
\* listens to any more ...
Beat(x) ==
    /\ pc[x] \in {"submitting", "calling", "orphaned"}
    /\ HeartbeatVideoJob(WorkerId(x), target[x])
    /\ UNCHANGED gateVars

HangUp(s) ==
    /\ pc[s] = "calling"
    /\ Goto(s, "orphaned")
    /\ UNCHANGED <<videoVars, target, outcome, creator, payload, permits, counted, upstream, sends, restarts>>

\* ... and the adapter answers truthfully: with a rejection or a cancellation
\* of its own only for a video that will never be made. Unknown is also the
\* outcome of a panic, a failed heartbeat and a rejection after acceptance.
Answers(r) ==
    [kind : {"unknown"}, ref : BOOLEAN]
    \cup (IF upstream[r] = "none" THEN [kind : {"rejected", "canceled"}, ref : {FALSE}]
          ELSE [kind : {"accepted"}, ref : {TRUE}])
    \cup (IF upstream[r] = "accepted" THEN [kind : {"succeeded"}, ref : BOOLEAN] ELSE {})

Return(x) ==
    LET r == target[x]
    IN  /\ pc[x] = "calling"
        /\ \E o \in Answers(r) :
              /\ outcome' = [outcome EXCEPT ![x] = o]
              /\ upstream' = [upstream EXCEPT ![r] =
                                IF o.kind \in {"rejected", "canceled"} THEN "refused" ELSE @]
        /\ Goto(x, "answered")
        /\ UNCHANGED <<videoVars, target, creator, payload, permits, counted, sends, restarts>>

-----------------------------------------------------------------------------
(* Recording the outcome.                                                  *)

\* VideoAdapterOutcome::lease_outcome
ClosesAs == [succeeded |-> "succeeded", rejected |-> "failed",
             canceled |-> "canceled", unknown |-> "unknown"]

\* CoreBridge::settle_video_job: a lease that is closed already, as unknown too,
\* is reported like a settlement that was applied.
SettleJob(r, o) ==
    \/ \E l \in {l \in LeaseOutcome(r) : l.request = ClosesAs[o.kind]} : SettleVideo(r, l, o.ref)
    \/ ~Open(r) /\ UNCHANGED videoVars

Finish(x) ==
    /\ outcome' = [outcome EXCEPT ![x] = NoOutcome]
    /\ Goto(x, Rest(x))

\* An accepted job stays running, with its permit and its file.
RecordAcceptance(x) ==
    /\ pc[x] = "answered" /\ outcome[x].kind = "accepted"
    /\ \/ RecordVideoJobAcceptance(target[x]) /\ Finish(x)
       \/ /\ outcome' = [outcome EXCEPT ![x] = [kind |-> "unknown", ref |-> TRUE]]
          /\ Goto(x, "doubt")
          /\ UNCHANGED videoVars
    /\ UNCHANGED <<target, creator, payload, permits, counted, upstream, sends, restarts>>

\* The settlement as unknown after an error, whose own error is ignored.
Doubt(x) ==
    /\ pc[x] = "doubt"
    /\ SettleJob(target[x], outcome[x]) \/ UNCHANGED videoVars
    /\ IF outcome[x].ref THEN Goto(x, "recheck") /\ UNCHANGED outcome ELSE Finish(x)
    /\ UNCHANGED <<target, creator, payload, permits, counted, upstream, sends, restarts>>

\* The other outcomes are settled; the references of a success are written in a
\* second transaction, which may fail on its own.
Settle(x) ==
    /\ pc[x] = "answered" /\ outcome[x].kind # "accepted"
    /\ \/ /\ SettleJob(target[x], outcome[x])
          /\ IF outcome[x].kind = "unknown" THEN Finish(x)
             ELSE /\ Goto(x, "forget") \/ (outcome[x].kind = "succeeded" /\ Goto(x, "recheck"))
                  /\ UNCHANGED outcome
       \/ Goto(x, "recheck") /\ UNCHANGED <<videoVars, outcome>>
    /\ UNCHANGED <<target, creator, payload, permits, counted, upstream, sends, restarts>>

\* release_core_video_permit_if_terminal
Recheck(x) ==
    /\ pc[x] = "recheck"
    /\ permits' = IF Ended(target[x]) THEN permits \ {creator[target[x]]} ELSE permits
    /\ Finish(x)
    /\ UNCHANGED <<videoVars, target, creator, payload, counted, upstream, sends, restarts>>

\* video_outcome_releases_payload: first the file ...
Forget(x) ==
    /\ pc[x] = "forget"
    /\ payload' = payload \ {creator[target[x]]}
    /\ Goto(x, "release")
    /\ UNCHANGED <<videoVars, target, outcome, creator, permits, counted, upstream, sends, restarts>>

\* ... then release_job_permit.
Release(x) ==
    /\ pc[x] = "release"
    /\ permits' = permits \ {creator[target[x]]}
    /\ Finish(x)
    /\ UNCHANGED <<videoVars, target, creator, payload, counted, upstream, sends, restarts>>

-----------------------------------------------------------------------------
(* Cancelling.                                                             *)

\* request_video_cancel, on a job whose cancellation was asked for before too.
\* A job no account was asked for ends here, and the handler returns.
AskCancel(c, r) ==
    /\ pc[c] = "idle"
    /\ \/ RequestVideoCancel(r)
       \/ Principal(r) /\ job[r] = "cancel_requested" /\ UNCHANGED videoVars
    /\ target' = [target EXCEPT ![c] = r]
    /\ Goto(c, IF Ended(r)' THEN "done" ELSE "asking")
    /\ UNCHANGED <<outcome, creator, payload, permits, counted, upstream, sends, restarts>>

\* cancel_video: confirmed, or unsupported, unknown, without a binding or a panic.
CancelAtUpstream(c) ==
    LET r == target[c]
    IN  /\ pc[c] = "asking"
        /\ \/ /\ upstream[r] = "accepted"
              /\ upstream' = [upstream EXCEPT ![r] = "canceled"]
              /\ \E ref \in BOOLEAN : outcome' = [outcome EXCEPT ![c] = [kind |-> "canceled", ref |-> ref]]
           \/ /\ \E ref \in BOOLEAN : outcome' = [outcome EXCEPT ![c] = [kind |-> "unknown", ref |-> ref]]
              /\ UNCHANGED upstream
        /\ Goto(c, "confirm")
        /\ UNCHANGED <<videoVars, target, creator, payload, permits, counted, sends, restarts>>

\* The settlement of a cancellation; a confirmed one releases the permit. It may
\* fail, or never be tried because the client has hung up.
SettleCancel(c) ==
    /\ pc[c] = "confirm"
    /\ \/ /\ SettleJob(target[c], outcome[c])
          /\ IF outcome[c].kind = "canceled" THEN Goto(c, "release") /\ UNCHANGED outcome ELSE Finish(c)
       \/ Finish(c) /\ UNCHANGED videoVars
    /\ UNCHANGED <<target, creator, payload, permits, counted, upstream, sends, restarts>>

-----------------------------------------------------------------------------
(* The process and its surroundings.                                       *)

\* The process dies at any point and starts again: expired leases are
\* recovered, permits of the durable queue are not restored. The startup check
\* of event groups can only make later reservations fail.
Restart ==
    /\ restarts < MaxRestarts
    /\ restarts' = restarts + 1
    /\ IF Expired = {} THEN UNCHANGED videoVars ELSE RecoverVideo
    /\ pc' = [x \in Actors |-> IF pc[x] = "idle" THEN "idle" ELSE Rest(x)]
    /\ outcome' = [x \in Actors |-> NoOutcome]
    /\ permits' = {}
    /\ counted' = {}
    /\ UNCHANGED <<target, creator, payload, upstream, sends>>

\* The gateway is stopped and started in one process: the new RateLimiter has
\* counted nothing, and JOB_PERMITS keeps the permits of the old one. What is
\* under way goes on, with the state it was started with.
Reopen ==
    /\ restarts < MaxRestarts
    /\ restarts' = restarts + 1
    /\ IF Expired = {} THEN UNCHANGED videoVars ELSE RecoverVideo
    /\ counted' = {}
    /\ UNCHANGED <<pc, target, outcome, creator, payload, permits, upstream, sends>>

\* The upstream takes on a video it was sent, as soon or as late as it likes.
UpstreamAccepts(r) ==
    /\ sends[r] > 0 /\ upstream[r] = "none"
    /\ upstream' = [upstream EXCEPT ![r] = "accepted"]
    /\ UNCHANGED <<videoVars, pc, target, outcome, creator, payload, permits, counted, sends, restarts>>

SurroundingsStep ==
    /\ \/ (\E k \in Keys, n \in Grants : GrantKey(k, n)) /\ UNCHANGED <<leaseVars, queueVars>>
       \/ Tick /\ UNCHANGED queueVars
    /\ UNCHANGED gateVars

SubmissionNext(s) ==
    \/ Admit(s) \/ PutPayload(s) \/ Enqueue(s) \/ Discard(s) \/ Retain(s)
    \/ ClaimOwn(s) \/ ClaimMisses(s) \/ HangUp(s)

CallerNext(x) ==
    \/ Call(x) \/ Beat(x) \/ Return(x)
    \/ RecordAcceptance(x) \/ Doubt(x) \/ Settle(x) \/ Recheck(x) \/ Forget(x)

CancellationNext(c) ==
    \/ \E r \in Requests : AskCancel(c, r)
    \/ CancelAtUpstream(c) \/ SettleCancel(c)

SubmitNext ==
    \/ \E s \in Submissions : SubmissionNext(s)
    \/ \E w \in QueueWorkers : WorkerClaims(w) \/ Load(w)
    \/ \E x \in Submissions \cup QueueWorkers : CallerNext(x)
    \/ \E c \in Cancellations : CancellationNext(c)
    \/ \E x \in Actors : Release(x)
    \/ \E r \in Requests : UpstreamAccepts(r)
    \/ Restart
    \/ Reopen
    \/ SurroundingsStep

SubmitSpec == SubmitInit /\ [][SubmitNext]_submitVars

-----------------------------------------------------------------------------
(* Properties.                                                             *)

\* Every variable has its type.
SubmitTypeOK ==
    /\ VideoTypeOK
    /\ pc \in [Actors -> Steps]
    /\ target \in [Actors -> Requests \cup {NoRequest}]
    /\ outcome \in [Actors -> [kind : Outcome \cup {"none"}, ref : BOOLEAN]]
    /\ creator \in [Requests -> Submissions \cup {NoJob}]
    /\ payload \subseteq Submissions
    /\ permits \subseteq Submissions
    /\ counted \subseteq Submissions
    /\ upstream \in [Requests -> {"none", "refused", "accepted", "canceled"}]
    /\ sends \in [Requests -> Nat]
    /\ restarts \in 0..MaxRestarts

\* The input of a job that is not finished is on disk, also after a crash
\* between any two steps, and whichever of submission, retry, worker and
\* cancellation is first to end it ("a crash between persistence and enqueue
\* cannot leave a runnable Core job without the adapter input it needs").
UnfinishedHasPayload == \A r \in Requests : Unfinished(r) => creator[r] \in payload

\* A job admitted since the gateway's last start counts against its key's video
\* jobs until it is finished or unknown: after errors of its settlement, after a
\* retry's clean-up, and whatever the permits of earlier gateways do. (A job
\* admitted before is not counted any more.)
UnfinishedHoldsPermit ==
    \A r \in Requests :
        Unfinished(r) /\ creator[r] \in counted =>
            creator[r] \in permits \/ pc[creator[r]] = "created"

\* A video is submitted to the upstream at most once, although the client
\* repeats its request, submission and worker compete for the claim, and
\* either may die before or after the call.
VideoSentOnce == \A r \in Requests : sends[r] <= 1

\* Money is never given back for a video the upstream has accepted and not
\* cancelled, whoever settles first and with whatever it read before.
NoRefundForAcceptedVideo ==
    \A r \in Requests : upstream[r] = "accepted" => reservation[r] # "released"
=============================================================================
