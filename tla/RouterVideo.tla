------------------------------ MODULE RouterVideo ------------------------------
(***************************************************************************)
(* The router ("starlink"), a second process in front of the gateway: it   *)
(* reserves the price of a chat or a video on the ledger of CoreQuota,     *)
(* forwards the request to the gateway's bridge, and keeps the videos it   *)
(* has submitted in a table in memory that it writes to one JSON file      *)
(* after every change. Users' status queries and a reconciler that visits  *)
(* all open videos every 15 seconds ask the bridge for the task and mark   *)
(* the jobs that have to be reconciled by hand.                            *)
(*                                                                         *)
(* The table is a map from ids: a job is found under the id the bridge has *)
(* answered, which is the task's, or that of the chat completion the       *)
(* gateway wraps a task in, or under one made of the request's own id.     *)
(* The router sends the client's Idempotency-Key on, and the gateway, to   *)
(* which all requests come from one bridge key, answers a key it has seen  *)
(* with the task it has for it: two requests may be given one task, and    *)
(* the second job then replaces the first.                                 *)
(*                                                                         *)
(* Every access to the table and to the ledger is one step, since each     *)
(* takes its lock for itself; the file is written without a lock, from a   *)
(* snapshot. A video's amount is what its handler reserves (1 credit).     *)
(* The admission gate, scopes and assets only decide whether a handler     *)
(* gets as far as Admit or Forward: a refusal leaves the state as it is.   *)
(*                                                                         *)
(* The billing the gateway shows of a task is absent or "unverified": no   *)
(* part of it writes another status into a VideoTask. The branch of        *)
(* settle_video_job for a verified receipt is therefore not here, and no   *)
(* job's billing_state leaves "held" but for "reconcile_required".         *)
(***************************************************************************)
EXTENDS CoreQuota

CONSTANTS
    Pollers,      \* the status queries at work at one time, and the reconciler
    Reconciler,   \* video_reconciler::run
    ClientKey,    \* [Requests -> the Idempotency-Key each request sends on]
    Kinds,        \* bound: [Requests -> what each request may be]
    MaxCrashes    \* bound: how often the process dies

NoRequest == "no request"

ASSUME RouterConstants ==
    /\ Pollers \cap Requests = {}
    /\ Reconciler \in Pollers
    /\ NoRequest \notin Requests
    /\ DOMAIN ClientKey = Requests
    /\ Kinds \in [Requests -> SUBSET {"chat", "video", "video chat"}]
    /\ MaxCrashes \in Nat

VARIABLES
    kind,       \* what each request is; "video chat" is a chat with a video model
    jobs,       \* the table: StarlinkRouterState.jobs
    file,       \* video_jobs.json, and whether it can be parsed
    pc,         \* where a request's handler or a poller is
    snapshot,   \* what persist_jobs of a handler or poller is going to write
    target,     \* the id of the job a poller asks about
    task,       \* the tasks at the gateway, each named by the request that made it
    got,        \* the task the gateway has for a request
    submitted,  \* how often a request was forwarded
    crashes

tableVars  == <<jobs, file, snapshot>>
bridgeVars == <<task, got, submitted>>
routerVars == <<kind, tableVars, pc, target, bridgeVars, crashes>>
allVars    == <<quotaVars, routerVars>>

Actors == Requests \cup Pollers

\* A task that has ended has succeeded or failed: both are treated alike.
TaskState == {"none", "running", "ended"}

RequestKind == {"chat", "video", "video chat"}

IsVideo(r) == kind[r] # "chat"

\* The keys of the table: upstream ids of a task, in the two forms the gateway
\* gives them, and "task-{request_id}" where no upstream id is known.
JobId == [form : {"task", "envelope", "unknown"}, of : Requests]

NoJobId == [form |-> "none", of |-> NoRequest]

\* UserVideoJob: whose it is, and reconcile_required, set with billing_state. Its
\* upstream_id is the id it is found under, or none in an "unknown" one.
Job == [request : Requests, reconcile : BOOLEAN]

NoJob == [request |-> NoRequest, reconcile |-> FALSE]

NoTable == [id \in JobId |-> NoJob]

Handling ==
    {"idle", "reserved", "release", "charge", "doubt", "accepted", "unclear", "done"}

Polling == {"mark", "hold"}

Persisting == {"persist", "writing", "mixing"}

Rest(x) == IF x \in Requests THEN "done" ELSE "idle"

Goto(x, step) == pc' = [pc EXCEPT ![x] = step]

RouterInit ==
    /\ Init
    /\ kind \in {f \in [Requests -> RequestKind] : \A r \in Requests : f[r] \in Kinds[r]}
    /\ jobs = NoTable
    /\ file = [jobs |-> NoTable, torn |-> FALSE]
    /\ pc = [x \in Actors |-> "idle"]
    /\ snapshot = [x \in Actors |-> NoTable]
    /\ target = [p \in Pollers |-> NoJobId]
    /\ task = [r \in Requests |-> "none"]
    /\ got = [r \in Requests |-> NoRequest]
    /\ submitted = [r \in Requests |-> 0]
    /\ crashes = 0

-----------------------------------------------------------------------------
(* The handlers of chats and videos.                                       *)

\* A retry of a request whose job is not known is treated as a new one.
FaultyAdmit(r) ==
    /\ pc[r] \in {"idle", "done"}
    /\ \/ PreflightReserve(r)
       \/ /\ reservation[r] # "none"
          /\ \A id \in JobId : jobs[id].request # r
          /\ submitted[r] < 2
          /\ UNCHANGED quotaVars
    /\ Goto(r, "reserved")
    /\ UNCHANGED <<kind, tableVars, target, bridgeVars, crashes>>

\* preflight: a request that exists is answered from the table, or refused.
Admit(r) ==
    /\ pc[r] = "idle"
    /\ PreflightReserve(r)
    /\ Goto(r, "reserved")
    /\ UNCHANGED <<kind, tableVars, target, bridgeVars, crashes>>

\* Assets that cannot be uploaded, or an input that is refused.
RefuseInput(r) ==
    /\ pc[r] = "reserved"
    /\ Goto(r, "release")
    /\ UNCHANGED <<quotaVars, kind, tableVars, target, bridgeVars, crashes>>

Forwarded(r) ==
    /\ submitted' = [submitted EXCEPT ![r] = @ + 1]
    /\ UNCHANGED <<quotaVars, kind, tableVars, target, crashes>>

\* The gateway makes a task, or finds one that was made for the same key. (It
\* keeps 1024 keys, and tasks for some time: what it has forgotten is made again.)
Given(r) ==
    \E t \in {r} \cup {q \in Requests : task[q] # "none" /\ ClientKey[q] = ClientKey[r]} :
        /\ got' = [got EXCEPT ![r] = t]
        /\ task' = IF t = r THEN [task EXCEPT ![r] = "running"] ELSE task

\* A call that was lost is taken for a refusal.
FaultyForwardVideo(r) ==
    /\ pc[r] = "reserved" /\ IsVideo(r)
    /\ Forwarded(r)
    /\ \/ Goto(r, "release")  /\ (UNCHANGED <<task, got>> \/ Given(r))
       \/ Goto(r, "accepted") /\ Given(r)

\* POST /v1/videos/generations: refused, accepted, or accepted without an id or
\* lost on the way, when the gateway may or may not have a task. The gateway
\* creates the task last before it answers 202, so a refusal left none.
ForwardVideo(r) ==
    /\ pc[r] = "reserved" /\ IsVideo(r)
    /\ Forwarded(r)
    /\ \/ Goto(r, "release")  /\ UNCHANGED <<task, got>>
       \/ Goto(r, "accepted") /\ Given(r)
       \/ Goto(r, "unclear")  /\ (UNCHANGED <<task, got>> \/ Given(r))

ForwardChat(r) ==
    /\ pc[r] = "reserved" /\ ~IsVideo(r)
    /\ Forwarded(r)
    /\ \E step \in {"charge", "release", "doubt"} : Goto(r, step)
    /\ UNCHANGED <<task, got>>

\* The handler's settlement. Its error is ignored: the hold then stays.
HandlerSettles(r) ==
    /\ \/ pc[r] = "release" /\ SettleRequest(r, [kind |-> "release", units |-> 0], "failed")
       \/ pc[r] = "charge"  /\ SettleRequest(r, [kind |-> "commit", units |-> Amount[r]], "succeeded")
       \/ pc[r] = "doubt"   /\ SettleRequest(r, [kind |-> "unknown", units |-> 0], "unknown")
       \/ pc[r] \in {"release", "charge", "doubt"} /\ UNCHANGED quotaVars
    /\ Goto(r, "done")
    /\ UNCHANGED <<kind, tableVars, target, bridgeVars, crashes>>

\* The id the bridge has answered, or task-{request_id}.
IdFor(r) ==
    IF pc[r] = "unclear" THEN [form |-> "unknown", of |-> r]
    ELSE [form |-> IF kind[r] = "video" THEN "task" ELSE "envelope", of |-> got[r]]

\* A video whose outcome is unknown is settled as a chat's is, too.
FaultyInsertJob(r) ==
    /\ pc[r] \in {"accepted", "unclear"}
    /\ jobs' = [jobs EXCEPT ![IdFor(r)] = [request |-> r, reconcile |-> pc[r] = "unclear"]]
    /\ \/ pc[r] = "accepted" /\ UNCHANGED quotaVars
       \/ pc[r] = "unclear" /\ SettleRequest(r, [kind |-> "unknown", units |-> 0], "unknown")
    /\ Goto(r, "persist")
    /\ UNCHANGED <<kind, file, snapshot, target, bridgeVars, crashes>>

\* accepted_video_job, unknown_video_job. A job already there is replaced.
InsertJob(r) ==
    /\ pc[r] \in {"accepted", "unclear"}
    /\ jobs' = [jobs EXCEPT ![IdFor(r)] = [request |-> r, reconcile |-> pc[r] = "unclear"]]
    /\ Goto(r, "persist")
    /\ UNCHANGED <<quotaVars, kind, file, snapshot, target, bridgeVars, crashes>>

-----------------------------------------------------------------------------
(* Status queries and the reconciler.                                      *)

\* Without an upstream id there is nothing to ask; the gateway knows no task by
\* the id of a chat completion; a call may also fail or be answered with an error.
PollFails(p, id) ==
    /\ pc[p] = "idle"
    /\ jobs[id] # NoJob
    /\ target' = [target EXCEPT ![p] = id]
    /\ Goto(p, "mark")
    /\ UNCHANGED <<quotaVars, kind, tableVars, bridgeVars, crashes>>

\* A task that has ended without a receipt is taken for one that still runs.
FaultyVerdict(state) == "hold"

\* settle_video_job without a verified receipt: a task that runs keeps its hold,
\* one that has ended is for reconciliation.
Verdict(state) == IF state = "ended" THEN "mark" ELSE "hold"

PollAnswers(p, id) ==
    /\ pc[p] = "idle"
    /\ jobs[id] # NoJob /\ id.form = "task"
    /\ target' = [target EXCEPT ![p] = id]
    /\ Goto(p, Verdict(task[id.of]))
    /\ UNCHANGED <<quotaVars, kind, tableVars, bridgeVars, crashes>>

Changed(p) ==
    /\ target' = [target EXCEPT ![p] = NoJobId]
    /\ Goto(p, "persist")
    /\ UNCHANGED <<quotaVars, kind, file, snapshot, bridgeVars, crashes>>

\* mark_video_reconcile
Mark(p) ==
    /\ pc[p] = "mark"
    /\ jobs' = [jobs EXCEPT ![target[p]].reconcile = TRUE]
    /\ Changed(p)

\* The whole job is written again as the poller has read it, still held.
FaultyHold(p) ==
    /\ pc[p] = "hold"
    /\ jobs' = [jobs EXCEPT ![target[p]].reconcile = FALSE]
    /\ Changed(p)

\* update_video_job of a task that still ran when the bridge was asked: its
\* status is noted, in whatever job there is now, and the table is written.
Hold(p) ==
    /\ pc[p] = "hold"
    /\ UNCHANGED jobs
    /\ Changed(p)

-----------------------------------------------------------------------------
(* persist_jobs, by whoever changed the table; and a start.                *)

\* The snapshot is taken and fs::write truncates the file; a snapshot that waits
\* to be written is a write that has not got far. Who writes at the same time as
\* another may leave a mixture of both.
BeginWrite(x) ==
    /\ pc[x] = "persist"
    /\ snapshot' = [snapshot EXCEPT ![x] = jobs]
    /\ LET others == {y \in Actors : pc[y] \in {"writing", "mixing"}}
       IN  pc' = [y \in Actors |->
                    IF y \in others THEN "mixing"
                    ELSE IF y = x THEN IF others = {} THEN "writing" ELSE "mixing"
                    ELSE pc[y]]
    /\ file' = [file EXCEPT !.torn = TRUE]
    /\ UNCHANGED <<quotaVars, kind, jobs, target, bridgeVars, crashes>>

EndWrite(x) ==
    /\ pc[x] \in {"writing", "mixing"}
    /\ \/ file' = [jobs |-> snapshot[x], torn |-> FALSE]
       \/ pc[x] = "mixing" /\ file' = [file EXCEPT !.torn = TRUE]
    /\ snapshot' = [snapshot EXCEPT ![x] = NoTable]
    /\ Goto(x, Rest(x))
    /\ UNCHANGED <<quotaVars, kind, jobs, target, bridgeVars, crashes>>

\* A file that cannot be opened is left as it was; nobody is told.
SkipWrite(x) ==
    /\ pc[x] = "persist"
    /\ Goto(x, Rest(x))
    /\ UNCHANGED <<quotaVars, kind, tableVars, target, bridgeVars, crashes>>

\* load_jobs: a file that cannot be parsed is an empty table.
Restart ==
    /\ crashes < MaxCrashes
    /\ crashes' = crashes + 1
    /\ pc' = [x \in Actors |-> IF pc[x] = "idle" THEN "idle" ELSE Rest(x)]
    /\ jobs' = IF file.torn THEN NoTable ELSE file.jobs
    /\ snapshot' = [x \in Actors |-> NoTable]
    /\ target' = [p \in Pollers |-> NoJobId]
    /\ UNCHANGED <<quotaVars, kind, file, bridgeVars>>

-----------------------------------------------------------------------------
(* The gateway behind the bridge, and the administrators.                  *)

TaskEnds(t) ==
    /\ task[t] = "running"
    /\ task' = [task EXCEPT ![t] = "ended"]
    /\ UNCHANGED <<quotaVars, kind, tableVars, pc, target, got, submitted, crashes>>

\* Disabling a key only refuses requests, as an Admit that is not taken does.
RouterAdmin ==
    /\ \/ \E u \in Users, n \in Grants : GrantPool(u, n)
       \/ \E k \in Keys, n \in Grants : AllocateFromPool(k, n)
    /\ UNCHANGED routerVars

HandlerNext ==
    \E r \in Requests :
        \/ Admit(r)
        \/ RefuseInput(r)
        \/ ForwardVideo(r)
        \/ ForwardChat(r)
        \/ HandlerSettles(r)
        \/ InsertJob(r)

PollerNext ==
    \E p \in Pollers :
        \/ \E id \in JobId : PollFails(p, id) \/ PollAnswers(p, id)
        \/ Mark(p)
        \/ Hold(p)

PersistNext ==
    \E x \in Actors : BeginWrite(x) \/ EndWrite(x) \/ SkipWrite(x)

RouterNext ==
    \/ HandlerNext
    \/ PollerNext
    \/ PersistNext
    \/ Restart
    \/ \E t \in Requests : TaskEnds(t)
    \/ RouterAdmin

RouterSpec == RouterInit /\ [][RouterNext]_allVars

\* A job that no later answer can help: its task has ended without a receipt that
\* proves a charge, or the gateway has no task under its id.
Hopeless(id) == jobs[id] # NoJob /\ (id.form = "task" => task[id.of] = "ended")

\* The reconciler visits every open job in turn, and every call to the bridge
\* ends, with an answer or by its timeout. Nobody need ask for a status. (Each of
\* the reconciler's steps changes where it is: pc is all the subscript needs.)
ReconcilerStep ==
    \/ Mark(Reconciler) \/ Hold(Reconciler)
    \/ BeginWrite(Reconciler) \/ EndWrite(Reconciler)

ReconcilerVisit ==
    \E id \in JobId :
        /\ Hopeless(id) /\ ~jobs[id].reconcile
        /\ PollFails(Reconciler, id) \/ PollAnswers(Reconciler, id)

FairRouterSpec ==
    /\ RouterSpec
    /\ WF_pc(ReconcilerStep)
    /\ SF_pc(ReconcilerVisit)

-----------------------------------------------------------------------------
(* Properties.                                                             *)

Table == [JobId -> Job \cup {NoJob}]

\* Every variable has its type.
RouterTypeOK ==
    /\ TypeOK
    /\ kind \in [Requests -> RequestKind]
    /\ jobs \in Table
    /\ file \in [jobs : Table, torn : BOOLEAN]
    /\ pc \in [Actors -> Handling \cup Polling \cup Persisting]
    /\ snapshot \in [Actors -> Table]
    /\ target \in [Pollers -> JobId \cup {NoJobId}]
    /\ task \in [Requests -> TaskState]
    /\ got \in [Requests -> Requests \cup {NoRequest}]
    /\ submitted \in [Requests -> Nat]
    /\ crashes \in Nat

\* What the table says is so, in memory, in the file and in every snapshot on
\* its way there, however old, and whichever of two requests was answered with
\* one task: the request of a job still holds its money, and if the job has an
\* upstream id, that is the id of the task the gateway has for this request.
Backed(table) ==
    \A id \in {j \in JobId : table[j] # NoJob} :
        LET r == table[id].request
        IN  /\ r \in Requests /\ IsVideo(r) /\ reservation[r] = "held"
            /\ IF id.form = "unknown" THEN id.of = r /\ table[id].reconcile
               ELSE got[r] = id.of /\ task[id.of] # "none"

JobsAreBacked ==
    /\ Backed(jobs)
    /\ Backed(file.jobs)
    /\ \A x \in Actors : Backed(snapshot[x])

\* The money of a video is never given back once the gateway has a task for
\* it, whether the router has been told of the task or not.
NoRefundForTask ==
    \A r \in {q \in Requests : IsVideo(q)} : reservation[r] = "released" => got[r] = NoRequest

\* No request is forwarded twice, whatever was lost: a retry with the same
\* idempotency key is not sent on, also when the router has died in between.
SubmittedOnce ==
    \A r \in Requests :
        /\ submitted[r] <= 1
        /\ submitted[r] = 1 => reservation[r] # "none"

\* A job marked for reconciliation stays marked, although answers to older polls
\* that saw the task run come later: only another request that is given the
\* same task, or a start from the file, puts an unmarked job in its place
\* (mark_video_reconcile, update_video_job).
MarksStay ==
    [][crashes' = crashes =>
         \A id \in JobId :
            jobs[id].reconcile =>
               jobs'[id].reconcile \/ jobs'[id].request # jobs[id].request]_allVars

\* Again and again every job that no answer can help any more is marked for
\* reconciliation, although polls fail, answers come late and the file may bring
\* an unmarked job back (video_reconciler.rs).
HopelessAreMarked == []<>(\A id \in JobId : Hopeless(id) => jobs[id].reconcile)

\* A video the gateway has a task for holds its money: nothing releases it, and,
\* without a verified receipt, nothing charges it, whatever was lost or shared.
VideosStayHeld ==
    \A r \in {q \in Requests : IsVideo(q)} :
        /\ got[r] # NoRequest => reservation[r] = "held"
        /\ reservation[r] # "committed"

\* The router does to the ledger what its own specification allows: all that is
\* proved of CoreQuota holds of the router.
ImplementsQuota == Spec
===============================================================================
