---------------------------- MODULE IngestionJobs ----------------------------
(***************************************************************************)
(* The life of the ingestion jobs of one knowledge base, across the API    *)
(* processes, PostgreSQL, RabbitMQ and the sync workers.                   *)
(*                                                                         *)
(* The API runs as eight processes (api/Dockerfile:51), so any two         *)
(* handlers interleave.  One step of a handler is what it does up to its   *)
(* next commit or its next await on the broker; what it read before that   *)
(* point it keeps, however stale, in its request record.                   *)
(*                                                                         *)
(* Time is abstract: the pending sweep may find any job too old, older     *)
(* rows first, except one whose request is still being served (a request   *)
(* lasts seconds, JOB_PENDING_TIMEOUT_MINUTES is two hours).               *)
(*                                                                         *)
(* No code path calls JobRepository.start_job, so no job is ever running:  *)
(* a job stays pending from its creation to its outcome.                   *)
(***************************************************************************)
EXTENDS Naturals, SequencesExt

CONSTANTS
    MaxJobs,     \* bound: ingestion jobs ever created for the KB
    MaxFaults,   \* bound: crashes, broker failures and redeliveries
    Requests,    \* concurrent API request handlers of the KB
    Workers      \* sync workers

ASSUME BoundsAssumption == MaxJobs \in Nat /\ MaxFaults \in Nat

Jobs == 1 .. MaxJobs     \* in creation order (Job.created_at)
NoJob == 0

ASSUME WorkersAssumption == Workers # {}

VARIABLES
    status,      \* Job.status, per row
    kb,          \* KnowledgeBase.status and last_sync_error
    parked,      \* jobs whose payload waits in input_params.deferred_ingestion
    queue,       \* RabbitMQ queue ingestion_jobs
    worker,      \* the job a worker is ingesting, or NoJob
    cancelSeen,  \* per worker, the cancellations it has been sent
    outcomes,    \* messages in ingestion_jobs_completed and _failed
    applying,    \* outcomes whose job row is committed, KB row not yet
    request,     \* per handler: where it is, the job it read, the job it made
    faults,      \* faults so far
    strandedBy   \* history: events after which nobody resets the KB

apiVars == <<status, kb, parked, request>>
brokerVars == <<queue, outcomes, applying>>
workerVars == <<worker, cancelSeen>>
vars == <<apiVars, brokerVars, workerVars, faults, strandedBy>>

Statuses == {"absent", "pending", "running", "completed", "failed",
             "cancelled", "stalled"}
ActiveStatuses == {"pending", "running"}
KbStatuses == {"ready", "processing", "error"}
SyncErrors == {"none", "stalled", "cancelled", "failed", "partial_failure"}

\* What the worker reports: every file ingested or skipped, some files
\* failed, or the job failed.
Verdicts == {"full", "partial", "failed"}
Outcomes == [job : Jobs, verdict : Verdicts]

\* Where a handler stands.  "cancelOld" to "resetKb" are trigger_reindex,
\* "broadcastCancel" and "setCancelled" are cancel_chatbot_indexing.
Stages == {"idle", "cancelOld", "reset", "create", "prepare", "publish",
           "fail", "resetKb", "broadcastCancel", "setCancelled"}
StrandCauses == {"adminCancel", "cancelNotBroadcast", "requestDied",
                 "endedBeforePrepare", "deferredPublish"}

RequestStates == [stage : Stages, old : Jobs \cup {NoJob}, job : Jobs \cup {NoJob}]
Idle == [stage |-> "idle", old |-> NoJob, job |-> NoJob]

\* The stages that hold a job to cancel, and those that hold a new job.
CancelStages == {"cancelOld", "broadcastCancel"}
JobStages == {"prepare", "publish", "fail", "resetKb"}

HandlersHoldJobs ==
    \A r \in Requests :
       /\ request[r].stage \in CancelStages => request[r].old \in Jobs
       /\ request[r].stage \in JobStages => request[r].job \in Jobs

TypeOK ==
    /\ status \in [Jobs -> Statuses]
    /\ kb \in [status : KbStatuses, error : SyncErrors]
    /\ parked \subseteq Jobs
    /\ queue \in Seq(Jobs)
    /\ worker \in [Workers -> Jobs \cup {NoJob}]
    /\ cancelSeen \in [Workers -> SUBSET Jobs]
    /\ outcomes \subseteq Outcomes
    /\ applying \subseteq Outcomes
    /\ request \in [Requests -> RequestStates]
    /\ HandlersHoldJobs
    /\ faults \in 0 .. MaxFaults
    /\ strandedBy \subseteq StrandCauses

Init ==
    /\ status = [j \in Jobs |-> "absent"]
    /\ kb = [status |-> "ready", error |-> "none"]
    /\ parked = {}
    /\ queue = <<>>
    /\ worker = [w \in Workers |-> NoJob]
    /\ cancelSeen = [w \in Workers |-> {}]
    /\ outcomes = {}
    /\ applying = {}
    /\ request = [r \in Requests |-> Idle]
    /\ faults = 0
    /\ strandedBy = {}

-----------------------------------------------------------------------------
(* Rows and messages.                                                      *)

Absent == {j \in Jobs : status[j] = "absent"}
Active == {j \in Jobs : status[j] \in ActiveStatuses}
Pending == {j \in Jobs : status[j] = "pending"}

Fault == faults < MaxFaults /\ faults' = faults + 1

\* fail_job and complete_job: a missing or a cancelled row is left alone.
Resolved(j, verdict) ==
    IF status[j] \in {"absent", "cancelled"} THEN status
    ELSE [status EXCEPT ![j] = verdict]

Stalled(S) == [j \in Jobs |-> IF j \in S THEN "stalled" ELSE status[j]]

\* The KB row after some write that only touches a KB in processing.
KbUnlessIdle(st, err) ==
    IF kb.status = "processing" THEN [status |-> st, error |-> err] ELSE kb

\* Mutants of KbAfterStall: the job's status written to the KB; no reset.
KbAfterStallWrongEnum(S) == IF S = {} THEN kb ELSE KbUnlessIdle("stalled", "stalled")
KbAfterStallNoReset(S) == kb

\* _mark_stalled resets the KB of each job it gives up on.
KbAfterStall(S) == IF S = {} THEN kb ELSE KbUnlessIdle("error", "stalled")

\* The fanout exchange copies a cancellation to every connected worker.  A
\* copy that is lost in a reconnect is a cancellation the worker does not
\* act upon, which WorkerFinish allows of every cancellation.
Broadcast(S) == cancelSeen' = [w \in Workers |-> cancelSeen[w] \cup S]

Goto(r, stage) == request' = [request EXCEPT ![r].stage = stage]
Done(r) == request' = [request EXCEPT ![r] = Idle]
HoldOld(r, stage, j) ==
    request' = [request EXCEPT ![r] = [stage |-> stage, old |-> j, job |-> NoJob]]
HoldNew(r, stage, j) ==
    request' = [request EXCEPT ![r] = [stage |-> stage, old |-> NoJob, job |-> j]]

Creating == {r \in Requests : request[r].stage \in {"cancelOld", "reset", "create"}}

\* Jobs that a trigger_reindex still has in hand.
InHand(j) ==
    \E r \in Requests : /\ request[r].job = j
                        /\ request[r].stage \in {"prepare", "publish", "fail"}

\* What becomes of the KB if a job ends while its own trigger_reindex has yet
\* to take the KB: the handler does not look at the row again, puts the KB in
\* processing and publishes a job whose outcome will be skipped.
EndedBeforePrepare(S) ==
    {c \in {"endedBeforePrepare"} :
        \E r \in Requests : request[r].stage = "prepare" /\ request[r].job \in S}

-----------------------------------------------------------------------------
(* trigger_reindex.                                                        *)

\* It reads the active job of the KB; there is no ORDER BY on .first().
\* Bound: no more requests than rows that can still be created.
ReindexRead(r) ==
    /\ request[r].stage = "idle"
    /\ Cardinality(Creating) < Cardinality(Absent)
    /\ \/ \E j \in Active : HoldOld(r, "cancelOld", j)
       \/ Active = {} /\ Goto(r, "reset")
    /\ UNCHANGED <<status, kb, parked, brokerVars, workerVars, faults, strandedBy>>

\* The broadcast precedes the commit of the cancellation.  If it raises, the
\* request ends with nothing written.
ReindexCancelOld(r) ==
    /\ request[r].stage = "cancelOld"
    /\ \/ Broadcast({request[r].old}) /\ Goto(r, "reset") /\ UNCHANGED faults
       \/ Fault /\ Done(r) /\ UNCHANGED cancelSeen
    /\ UNCHANGED <<status, kb, parked, brokerVars, worker, strandedBy>>

\* One commit: the job read before the broadcast is cancelled, whatever
\* became of it since, and a processing KB goes back to ready.
ReindexReset(r) ==
    /\ request[r].stage = "reset"
    /\ status' = IF request[r].old = NoJob THEN status
                 ELSE [status EXCEPT ![request[r].old] = "cancelled"]
    /\ kb' = [kb EXCEPT !.status = IF @ = "processing" THEN "ready" ELSE @]
    /\ Goto(r, "create")
    /\ strandedBy' = strandedBy \cup EndedBeforePrepare({request[r].old})
    /\ UNCHANGED <<parked, brokerVars, workerVars, faults>>

ReindexCreate(r) ==
    /\ request[r].stage = "create"
    /\ \E j \in Absent :
          /\ \A k \in Absent : j <= k
          /\ status' = [status EXCEPT ![j] = "pending"]
          /\ HoldNew(r, "prepare", j)
    /\ UNCHANGED <<kb, parked, brokerVars, workerVars, faults, strandedBy>>

\* prepare_haystack_sync takes the KB, unless another sync has it (409) or
\* nothing is selected in it (400).
ReindexPrepare(r) ==
    /\ request[r].stage = "prepare"
    /\ \/ /\ kb.status # "processing"
          /\ kb' = [kb EXCEPT !.status = "processing"]
          /\ Goto(r, "publish")
       \/ Goto(r, "fail") /\ UNCHANGED kb
    /\ UNCHANGED <<status, parked, brokerVars, workerVars, faults, strandedBy>>

\* Without Moodle datasources the payload is published; otherwise it is
\* parked on the job row.  A publish that raises may have reached the broker.
ReindexPublish(r) ==
    LET j == request[r].job IN
    /\ request[r].stage = "publish"
    /\ \/ queue' = Append(queue, j) /\ Done(r) /\ UNCHANGED <<parked, faults>>
       \/ parked' = parked \cup {j} /\ Done(r) /\ UNCHANGED <<queue, faults>>
       \/ /\ Fault
          /\ queue' \in {queue, Append(queue, j)}
          /\ Goto(r, "fail")
          /\ UNCHANGED parked
    /\ UNCHANGED <<status, kb, outcomes, applying, workerVars, strandedBy>>

\* The except branch: fail the job, then give the KB up, in two commits.
ReindexFail(r) ==
    /\ request[r].stage = "fail"
    /\ status' = Resolved(request[r].job, "failed")
    /\ Goto(r, "resetKb")
    /\ UNCHANGED <<kb, parked, brokerVars, workerVars, faults, strandedBy>>

\* Mutant of ReindexResetKb: the handler ends without giving the KB up.
ReindexResetKbDropped(r) ==
    /\ request[r].stage = "resetKb"
    /\ Done(r)
    /\ UNCHANGED <<status, kb, parked, brokerVars, workerVars, faults, strandedBy>>

ReindexResetKb(r) ==
    /\ request[r].stage = "resetKb"
    /\ kb' = KbUnlessIdle("error", "failed")
    /\ Done(r)
    /\ UNCHANGED <<status, parked, brokerVars, workerVars, faults, strandedBy>>

-----------------------------------------------------------------------------
(* cancel_chatbot_indexing and IndexingService.cancel_job.                 *)

CancelRequested(r) ==
    /\ request[r].stage = "idle"
    /\ kb.status = "processing"
    /\ \/ \E j \in Active :
            /\ status' = [status EXCEPT ![j] = "cancelled"]
            /\ HoldOld(r, "broadcastCancel", j)
            /\ strandedBy' = strandedBy \cup EndedBeforePrepare({j})
       \/ Active = {} /\ Goto(r, "setCancelled") /\ UNCHANGED <<status, strandedBy>>
    /\ UNCHANGED <<kb, parked, brokerVars, workerVars, faults>>

\* If the broadcast raises the request ends before it gives the KB up.
CancelBroadcast(r) ==
    /\ request[r].stage = "broadcastCancel"
    /\ \/ /\ Broadcast({request[r].old})
          /\ Goto(r, "setCancelled")
          /\ UNCHANGED <<faults, strandedBy>>
       \/ /\ Fault
          /\ Done(r)
          /\ strandedBy' = strandedBy \cup {"cancelNotBroadcast"}
          /\ UNCHANGED cancelSeen
    /\ UNCHANGED <<status, kb, parked, brokerVars, worker>>

CancelSetKb(r) ==
    /\ request[r].stage = "setCancelled"
    /\ kb' = [status |-> "error", error |-> "cancelled"]
    /\ Done(r)
    /\ UNCHANGED <<status, parked, brokerVars, workerVars, faults, strandedBy>>

-----------------------------------------------------------------------------
(* The metadata phase, as one transaction (DeferredIngestion has it step by *)
(* step): a parked payload is fired once, if its job is still pending, and a *)
(* publish that raises fails the job only.                                  *)

\* Mutant of FireDeferred: the payload is published without being popped.
FireDeferredNotPopped(j) ==
    /\ j \in parked
    /\ status[j] = "pending"
    /\ queue' = Append(queue, j)
    /\ UNCHANGED <<apiVars, outcomes, applying, workerVars, faults, strandedBy>>

FireDeferred(j) ==
    /\ j \in parked
    /\ status[j] = "pending"
    /\ parked' = parked \ {j}
    /\ \/ queue' = Append(queue, j) /\ UNCHANGED <<status, faults, strandedBy>>
       \/ /\ Fault
          /\ queue' \in {queue, Append(queue, j)}
          /\ status' = Resolved(j, "failed")
          /\ strandedBy' = strandedBy \cup {"deferredPublish"}
    /\ UNCHANGED <<kb, request, outcomes, applying, workerVars>>

-----------------------------------------------------------------------------
(* The sync worker.                                                        *)

\* Mutant of WorkerClaim: the message stays in the queue while it is processed.
WorkerClaimUnacked(w) ==
    /\ worker[w] = NoJob
    /\ queue # <<>>
    /\ worker' = [worker EXCEPT ![w] = Head(queue)]
    /\ UNCHANGED <<apiVars, brokerVars, cancelSeen, faults, strandedBy>>

\* Acknowledged when claimed: the message is gone from the broker.  The
\* worker does not look at the job's row.
WorkerClaim(w) ==
    /\ worker[w] = NoJob
    /\ queue # <<>>
    /\ worker' = [worker EXCEPT ![w] = Head(queue)]
    /\ queue' = Tail(queue)
    /\ UNCHANGED <<apiVars, outcomes, applying, cancelSeen, faults, strandedBy>>

\* It looks for a cancellation before each file and while it polls for one,
\* so a late cancellation, or one of a job with nothing to ingest, goes
\* unnoticed and the outcome is published as usual.
WorkerFinish(w) ==
    /\ worker[w] # NoJob
    /\ \E v \in Verdicts :
          outcomes' = outcomes \cup {[job |-> worker[w], verdict |-> v]}
    /\ worker' = [worker EXCEPT ![w] = NoJob]
    /\ UNCHANGED <<apiVars, queue, applying, cancelSeen, faults, strandedBy>>

\* JobCancelledException: no outcome is published.
WorkerStop(w) ==
    /\ worker[w] # NoJob
    /\ worker[w] \in cancelSeen[w]
    /\ worker' = [worker EXCEPT ![w] = NoJob]
    /\ UNCHANGED <<apiVars, brokerVars, cancelSeen, faults, strandedBy>>

\* The exclusive cancel queue and the set drained from it die with it.
WorkerCrash(w) ==
    /\ Fault
    /\ worker' = [worker EXCEPT ![w] = NoJob]
    /\ cancelSeen' = [cancelSeen EXCEPT ![w] = {}]
    /\ UNCHANGED <<apiVars, brokerVars, strandedBy>>

-----------------------------------------------------------------------------
(* The outcome subscribers, kb_sync_complete and kb_sync_failed.           *)

JobVerdict(o) == IF o.verdict = "failed" THEN "failed" ELSE "completed"

\* First commit: the job row.  A cancelled job ends the handler here.
ResolveJob(o) ==
    /\ o \in outcomes
    /\ outcomes' = outcomes \ {o}
    /\ status' = Resolved(o.job, JobVerdict(o))
    /\ applying' = IF status[o.job] \in {"absent", "cancelled"} THEN applying
                   ELSE applying \cup {o}
    /\ UNCHANGED <<kb, parked, request, queue, workerVars, faults, strandedBy>>

\* The KB row after an outcome: update_knowledge_base skips an argument that
\* is None, so a full success writes no last_sync_error.
KbAfter(o) ==
    CASE o.verdict = "full"    -> [kb EXCEPT !.status = "ready"]
      [] o.verdict = "partial" -> [status |-> "ready", error |-> "partial_failure"]
      [] o.verdict = "failed"  -> [status |-> "error", error |-> "failed"]

\* Second commit: the KB row.  A message not acknowledged by then (the
\* process dies, or the worker published it twice) is delivered again.
ApplyOutcome(o) ==
    /\ o \in applying
    /\ kb' = KbAfter(o)
    /\ applying' = applying \ {o}
    /\ \/ UNCHANGED <<outcomes, faults>>
       \/ Fault /\ outcomes' = outcomes \cup {o}
    /\ UNCHANGED <<status, parked, request, queue, workerVars, strandedBy>>

\* The process dies between the two commits.
AbortOutcome(o) ==
    /\ o \in applying
    /\ Fault
    /\ applying' = applying \ {o}
    /\ outcomes' = outcomes \cup {o}
    /\ UNCHANGED <<apiVars, queue, workerVars, strandedBy>>

-----------------------------------------------------------------------------
(* The scheduler's sweep, the start-up hook and the administrator.         *)

\* Mutant of Sweepable: only started jobs are swept, as if start_job were called.
SweepableIfRunning(c) == {j \in Jobs : status[j] = "running" /\ j <= c}

\* What mark_stalled_jobs selects: every pending job created before an instant.
Sweepable(c) == {j \in Pending : j <= c}

\* It gives up on all of them, then its caller broadcasts the cancellations.
SweepPending ==
    \E c \in Jobs :
       LET S == Sweepable(c) IN
       /\ S # {}
       /\ \A j \in S : ~InHand(j)
       /\ status' = Stalled(S)
       /\ kb' = KbAfterStall(S)
       /\ Broadcast(S)
       /\ UNCHANGED <<parked, request, brokerVars, worker, faults, strandedBy>>

\* An API process dies with the requests it served and its replacement runs
\* the start-up hook, which gives up on every active job, including those of
\* the processes that live on.
RestartApi ==
    /\ Fault
    /\ \E dead \in SUBSET Requests :
          /\ request' = [r \in Requests |-> IF r \in dead THEN Idle ELSE request[r]]
          /\ strandedBy' = strandedBy \cup EndedBeforePrepare(Active)
               \cup {c \in {"requestDied"} : \E r \in dead :
                       request[r].stage \in {"fail", "resetKb", "broadcastCancel", "setCancelled"}}
    /\ status' = Stalled(Active)
    /\ kb' = KbAfterStall(Active)
    /\ Broadcast(Active)
    /\ UNCHANGED <<parked, brokerVars, worker>>

\* monitoring.cancel_job fails the job, overwrites that with cancelled, and
\* touches neither the KB nor the worker.
AdminCancel(j) ==
    /\ status[j] \in ActiveStatuses
    /\ status' = [status EXCEPT ![j] = "cancelled"]
    /\ strandedBy' = strandedBy \cup {"adminCancel"}
    /\ UNCHANGED <<kb, parked, request, brokerVars, workerVars, faults>>

\* Mutant of AdminRetry: any job that has ended can be retried.
AdminRetryAnyEnded(j) ==
    /\ status[j] \notin ActiveStatuses \cup {"absent"}
    /\ status' = [status EXCEPT ![j] = "pending"]
    /\ UNCHANGED <<kb, parked, request, brokerVars, workerVars, faults, strandedBy>>

\* monitoring.retry_job publishes nothing.
AdminRetry(j) ==
    /\ status[j] = "failed"
    /\ status' = [status EXCEPT ![j] = "pending"]
    /\ UNCHANGED <<kb, parked, request, brokerVars, workerVars, faults, strandedBy>>

-----------------------------------------------------------------------------

\* What a handler does once started, up to its response.
Continue(r) ==
    \/ ReindexCancelOld(r) \/ ReindexReset(r) \/ ReindexCreate(r)
    \/ ReindexPrepare(r) \/ ReindexPublish(r) \/ ReindexFail(r)
    \/ ReindexResetKb(r) \/ CancelBroadcast(r) \/ CancelSetKb(r)

WorkerStep(w) == WorkerClaim(w) \/ WorkerFinish(w) \/ WorkerStop(w)

Next ==
    \/ \E r \in Requests : ReindexRead(r) \/ CancelRequested(r) \/ Continue(r)
    \/ \E w \in Workers : WorkerStep(w) \/ WorkerCrash(w)
    \/ \E o \in Outcomes : ResolveJob(o) \/ ApplyOutcome(o) \/ AbortOutcome(o)
    \/ \E j \in Jobs : FireDeferred(j) \/ AdminCancel(j) \/ AdminRetry(j)
    \/ SweepPending
    \/ RestartApi

Spec == Init /\ [][Next]_vars

\* A request that was accepted runs on, a worker pulls and ends its jobs (the
\* absolute timeout of the polling bounds each file), outcomes are consumed
\* and the sweep keeps running.  Nobody has to press a button, and nothing
\* guarantees that a parked payload is ever fired.
Fairness ==
    /\ \A r \in Requests : WF_vars(Continue(r))
    /\ \A w \in Workers : WF_vars(WorkerStep(w))
    /\ WF_vars(\E o \in Outcomes : ResolveJob(o))
    /\ WF_vars(\E o \in Outcomes : ApplyOutcome(o))
    /\ WF_vars(SweepPending)

FairSpec == Spec /\ Fairness

-----------------------------------------------------------------------------
(* Properties.                                                             *)

Reported(j) == \E o \in outcomes \cup applying : o.job = j

\* Nothing of the job is on its way: not queued, not with a worker, no outcome.
Unsent(j) ==
    /\ ~Contains(queue, j)
    /\ \A w \in Workers : worker[w] # j
    /\ ~Reported(j)

\* A job's payload is in one place at a time: once in the queue, or with one
\* worker, or reported (rabbitmq.py acknowledges at the claim, "at-most-once
\* delivery"; _maybe_fire_deferred_ingestion pops before it publishes).  So no
\* two workers ever ingest for the same job.
SingleCustody ==
    /\ IsInjective(queue)
    /\ \A w \in Workers : worker[w] # NoJob =>
          /\ ~Contains(queue, worker[w])
          /\ ~Reported(worker[w])
          /\ \A v \in Workers : worker[v] = worker[w] => v = w
    /\ \A j \in Jobs : Contains(queue, j) => ~Reported(j)

\* A completed job has nothing left to run: neither its payload in the queue
\* or on its row, nor a worker that would ingest for it after the KB was
\* declared ready.
CompletedHasRun ==
    \A j \in Jobs : status[j] = "completed" =>
        /\ ~Contains(queue, j)
        /\ j \notin parked
        /\ \A w \in Workers : worker[w] # j

\* A KB in processing is somebody's to reset: an active job (its outcome, a
\* cancellation or a sweep will), an outcome of a job that is not cancelled, or
\* a handler about to.  The only exceptions are the five events of strandedBy.
\* trigger_reindex says of the alternative "spinner forever"
\* (indexing_service.py:197).
ProcessingIsAccountedFor ==
    kb.status = "processing" /\ strandedBy = {} =>
        \/ Active # {}
        \/ \E o \in outcomes \cup applying : status[o.job] # "cancelled"
        \/ \E r \in Requests :
              request[r].stage \in {"resetKb", "broadcastCancel", "setCancelled"}

\* Every writer of a job row respects the life cycle the others rely on.
Lifecycle == INSTANCE JobLifecycle WITH Jobs <- Jobs, status <- status
ImplementsLifecycle == Lifecycle!Spec

\* Every job ends, even one whose payload a worker lost or nobody ever fired.
EveryJobEnds == \A j \in Jobs : status[j] \in ActiveStatuses ~> status[j] \notin ActiveStatuses

\* No spinner forever, but for the five events of strandedBy.
ProcessingEnds ==
    kb.status = "processing" ~> (kb.status # "processing" \/ strandedBy # {})

=============================================================================
