------------------------- MODULE IngestionJobsProofs -------------------------
(***************************************************************************)
(* Proofs about IngestionJobs, for any number of jobs, faults, handlers    *)
(* and workers.                                                            *)
(***************************************************************************)
EXTENDS IngestionJobs, TLAPS

-----------------------------------------------------------------------------
(* The inductive invariant.                                                *)

\* Handlers hold rows that exist, and no two hold the same new row.
HandlersHoldRows ==
    /\ \A r \in Requests : request[r].old # NoJob => status[request[r].old] # "absent"
    /\ \A r \in Requests : request[r].stage \in JobStages =>
          status[request[r].job] # "absent"
    /\ \A r, q \in Requests :
          /\ request[r].stage \in JobStages
          /\ request[q].stage \in JobStages
          /\ request[r].job = request[q].job
          => r = q

\* What has not been published is nowhere: a row not yet inserted, a payload a
\* handler is about to publish, a parked payload.
UnpublishedIsNowhere ==
    /\ \A j \in Jobs : status[j] = "absent" => Unsent(j) /\ j \notin parked
    /\ \A r \in Requests : request[r].stage \in {"prepare", "publish"} =>
          /\ Unsent(request[r].job)
          /\ request[r].job \notin parked
          /\ status[request[r].job] # "completed"
    /\ \A j \in parked : Unsent(j)

\* Until a trigger takes the KB its job is active, or the job was ended under it.
PrepareHasActiveJob ==
    \A r \in Requests : request[r].stage = "prepare" /\ strandedBy = {} =>
        status[request[r].job] \in ActiveStatuses

CustodyInv ==
    /\ TypeOK
    /\ HandlersHoldRows
    /\ UnpublishedIsNowhere
    /\ SingleCustody
    /\ CompletedHasRun

KbInv ==
    /\ CustodyInv
    /\ PrepareHasActiveJob
    /\ ProcessingIsAccountedFor

-----------------------------------------------------------------------------
(* Types.                                                                  *)

\* The ways a handler moves on keep the type of request, if what it holds is a
\* job when its new stage needs one.
LEMMA RequestType ==
    ASSUME request \in [Requests -> RequestStates], HandlersHoldJobs, NEW r \in Requests
    PROVE  /\ \A stage \in Stages :
                 /\ stage \in CancelStages => request[r].old \in Jobs
                 /\ stage \in JobStages => request[r].job \in Jobs
                 /\ Goto(r, stage)
                 => request' \in [Requests -> RequestStates] /\ HandlersHoldJobs'
           /\ Done(r) => request' \in [Requests -> RequestStates] /\ HandlersHoldJobs'
           /\ \A j \in Jobs :
                 /\ \A stage \in CancelStages : HoldOld(r, stage, j)
                       => request' \in [Requests -> RequestStates] /\ HandlersHoldJobs'
                 /\ \A stage \in JobStages : HoldNew(r, stage, j)
                       => request' \in [Requests -> RequestStates] /\ HandlersHoldJobs'
<1> USE DEF RequestStates, HandlersHoldJobs, Stages, CancelStages, JobStages
<1>1. ASSUME NEW stage \in Stages, Goto(r, stage),
             stage \in CancelStages => request[r].old \in Jobs,
             stage \in JobStages => request[r].job \in Jobs
      PROVE  request' \in [Requests -> RequestStates] /\ HandlersHoldJobs'
  BY <1>1 DEF Goto
<1>2. ASSUME Done(r)
      PROVE  request' \in [Requests -> RequestStates] /\ HandlersHoldJobs'
  BY <1>2 DEF Done, Idle
<1>3. ASSUME NEW j \in Jobs, NEW stage \in CancelStages, HoldOld(r, stage, j)
      PROVE  request' \in [Requests -> RequestStates] /\ HandlersHoldJobs'
  BY <1>3 DEF HoldOld
<1>4. ASSUME NEW j \in Jobs, NEW stage \in JobStages, HoldNew(r, stage, j)
      PROVE  request' \in [Requests -> RequestStates] /\ HandlersHoldJobs'
  BY <1>4 DEF HoldNew
<1> QED
  BY <1>1, <1>2, <1>3, <1>4

\* A broadcast adds jobs to what every worker has been sent.
LEMMA BroadcastType ==
    ASSUME cancelSeen \in [Workers -> SUBSET Jobs], NEW S \in SUBSET Jobs, Broadcast(S)
    PROVE  cancelSeen' \in [Workers -> SUBSET Jobs]
  BY DEF Broadcast

\* No step of any process takes a variable out of its type.
LEMMA TypeStep == TypeOK /\ [Next]_vars => TypeOK'
<1> SUFFICES ASSUME TypeOK, [Next]_vars PROVE TypeOK'
  OBVIOUS
<1> USE BoundsAssumption DEF TypeOK, NoJob, apiVars, brokerVars, workerVars, Fault,
           KbStatuses, SyncErrors, StrandCauses, Statuses, Stages, CancelStages, JobStages
<1>1. ASSUME NEW r \in Requests, ReindexRead(r) PROVE TypeOK'
  BY <1>1, RequestType DEF ReindexRead, Active
<1>2. ASSUME NEW r \in Requests, CancelRequested(r) PROVE TypeOK'
  BY <1>2, RequestType DEF CancelRequested, Active, EndedBeforePrepare
<1>3. ASSUME NEW r \in Requests, ReindexCancelOld(r) PROVE TypeOK'
  BY <1>3, RequestType, BroadcastType DEF ReindexCancelOld, HandlersHoldJobs
<1>4. ASSUME NEW r \in Requests, ReindexReset(r) PROVE TypeOK'
  BY <1>4, RequestType DEF ReindexReset, EndedBeforePrepare
<1>5. ASSUME NEW r \in Requests, ReindexCreate(r) PROVE TypeOK'
  BY <1>5, RequestType DEF ReindexCreate, Absent
<1>6. ASSUME NEW r \in Requests, ReindexPrepare(r) PROVE TypeOK'
  BY <1>6, RequestType DEF ReindexPrepare, HandlersHoldJobs
<1>7. ASSUME NEW r \in Requests, ReindexPublish(r) PROVE TypeOK'
  <2>1. request[r].job \in Jobs
    BY <1>7 DEF ReindexPublish, HandlersHoldJobs
  <2>2. queue' \in Seq(Jobs) /\ parked' \subseteq Jobs /\ faults' \in 0 .. MaxFaults
    <3>1. Append(queue, request[r].job) \in Seq(Jobs)
      BY <2>1
    <3>2. queue' \in {queue, Append(queue, request[r].job)}
      BY <1>7 DEF ReindexPublish
    <3>3. parked' \subseteq parked \cup {request[r].job}
      BY <1>7 DEF ReindexPublish
    <3>4. faults' \in 0 .. MaxFaults
      BY <1>7 DEF ReindexPublish
    <3> QED
      BY <2>1, <3>1, <3>2, <3>3, <3>4
  <2>3. request' \in [Requests -> RequestStates] /\ HandlersHoldJobs'
    BY <1>7, <2>1, RequestType DEF ReindexPublish
  <2>4. UNCHANGED <<status, kb, outcomes, applying, worker, cancelSeen, strandedBy>>
    BY <1>7 DEF ReindexPublish
  <2> QED
    BY <2>2, <2>3, <2>4
<1>8. ASSUME NEW r \in Requests, ReindexFail(r) PROVE TypeOK'
  BY <1>8, RequestType DEF ReindexFail, Resolved, HandlersHoldJobs
<1>9. ASSUME NEW r \in Requests, ReindexResetKb(r) PROVE TypeOK'
  BY <1>9, RequestType DEF ReindexResetKb, KbUnlessIdle
<1>10. ASSUME NEW r \in Requests, CancelBroadcast(r) PROVE TypeOK'
  <2>1. request[r].old \in Jobs
    BY <1>10 DEF CancelBroadcast, HandlersHoldJobs
  <2>2. cancelSeen' \in [Workers -> SUBSET Jobs]
    BY <1>10, <2>1, BroadcastType DEF CancelBroadcast
  <2>3. request' \in [Requests -> RequestStates] /\ HandlersHoldJobs'
    BY <1>10, <2>1, RequestType DEF CancelBroadcast
  <2>4. faults' \in 0 .. MaxFaults /\ strandedBy' \subseteq StrandCauses
    <3>1. \/ UNCHANGED <<faults, strandedBy>>
          \/ Fault /\ strandedBy' = strandedBy \cup {"cancelNotBroadcast"}
      BY <1>10 DEF CancelBroadcast
    <3>2. faults' \in 0 .. MaxFaults
      BY <3>1
    <3>3. strandedBy' \subseteq StrandCauses
      BY <3>1
    <3> QED
      BY <3>2, <3>3
  <2>5. UNCHANGED <<status, kb, parked, queue, outcomes, applying, worker>>
    BY <1>10 DEF CancelBroadcast
  <2> QED
    BY <2>2, <2>3, <2>4, <2>5
<1>11. ASSUME NEW r \in Requests, CancelSetKb(r) PROVE TypeOK'
  BY <1>11, RequestType DEF CancelSetKb
<1>12. ASSUME NEW w \in Workers, WorkerClaim(w) PROVE TypeOK'
  BY <1>12 DEF WorkerClaim, HandlersHoldJobs
<1>13. ASSUME NEW w \in Workers, WorkerFinish(w) PROVE TypeOK'
  BY <1>13 DEF WorkerFinish, Outcomes, Verdicts, HandlersHoldJobs
<1>14. ASSUME NEW w \in Workers, WorkerStop(w) PROVE TypeOK'
  BY <1>14 DEF WorkerStop, HandlersHoldJobs
<1>15. ASSUME NEW w \in Workers, WorkerCrash(w) PROVE TypeOK'
  BY <1>15 DEF WorkerCrash, HandlersHoldJobs
<1>16. ASSUME NEW o \in Outcomes, ResolveJob(o) PROVE TypeOK'
  BY <1>16 DEF ResolveJob, Resolved, JobVerdict, Outcomes, HandlersHoldJobs
<1>17. ASSUME NEW o \in Outcomes, ApplyOutcome(o) PROVE TypeOK'
  BY <1>17 DEF ApplyOutcome, KbAfter, Outcomes, Verdicts, HandlersHoldJobs
<1>18. ASSUME NEW o \in Outcomes, AbortOutcome(o) PROVE TypeOK'
  BY <1>18 DEF AbortOutcome, HandlersHoldJobs
<1>19. ASSUME NEW j \in Jobs, FireDeferred(j) PROVE TypeOK'
  <2>1. queue' \in Seq(Jobs) /\ parked' \subseteq Jobs /\ faults' \in 0 .. MaxFaults
    <3>1. Append(queue, j) \in Seq(Jobs)
      OBVIOUS
    <3>2. queue' \in {queue, Append(queue, j)} /\ parked' \subseteq parked
      BY <1>19 DEF FireDeferred
    <3>3. faults' \in 0 .. MaxFaults
      BY <1>19 DEF FireDeferred
    <3> QED
      BY <3>1, <3>2, <3>3
  <2>2. status' \in [Jobs -> Statuses]
    BY <1>19 DEF FireDeferred, Resolved
  <2>3. strandedBy' \subseteq StrandCauses
    BY <1>19 DEF FireDeferred
  <2>4. UNCHANGED <<kb, request, outcomes, applying, worker, cancelSeen>>
    BY <1>19 DEF FireDeferred
  <2> QED
    BY <2>1, <2>2, <2>3, <2>4 DEF HandlersHoldJobs
<1>20. ASSUME NEW j \in Jobs, AdminCancel(j) PROVE TypeOK'
  BY <1>20 DEF AdminCancel, HandlersHoldJobs
<1>21. ASSUME NEW j \in Jobs, AdminRetry(j) PROVE TypeOK'
  BY <1>21 DEF AdminRetry, HandlersHoldJobs
<1>22. CASE SweepPending
  BY <1>22, BroadcastType DEF HandlersHoldJobs, SweepPending, Sweepable, Pending, Stalled, KbAfterStall, KbUnlessIdle
<1>23. CASE RestartApi
  <2>1. PICK dead \in SUBSET Requests :
           request' = [r \in Requests |-> IF r \in dead THEN Idle ELSE request[r]]
    BY <1>23 DEF RestartApi
  <2>2. request' \in [Requests -> RequestStates] /\ HandlersHoldJobs'
    BY <2>1 DEF RequestStates, Idle, HandlersHoldJobs
  <2>3. status' \in [Jobs -> Statuses]
    BY <1>23 DEF RestartApi, Stalled
  <2>4. kb' \in [status : KbStatuses, error : SyncErrors]
    BY <1>23 DEF RestartApi, KbAfterStall, KbUnlessIdle
  <2>5. cancelSeen' \in [Workers -> SUBSET Jobs]
    BY <1>23, BroadcastType DEF RestartApi, Active
  <2>6. strandedBy' \subseteq StrandCauses
    BY <1>23 DEF RestartApi, EndedBeforePrepare
  <2>7. faults' \in 0 .. MaxFaults /\ UNCHANGED <<parked, queue, outcomes, applying, worker>>
    BY <1>23 DEF RestartApi
  <2> QED
    BY <2>2, <2>3, <2>4, <2>5, <2>6, <2>7
<1>24. CASE UNCHANGED vars
  BY <1>24 DEF vars, HandlersHoldJobs
<1> QED
  BY <1>1, <1>2, <1>3, <1>4, <1>5, <1>6, <1>7, <1>8, <1>9, <1>10, <1>11, <1>12, <1>13, <1>14, <1>15, <1>16, <1>17, <1>18, <1>19, <1>20, <1>21, <1>22, <1>23, <1>24 DEF Next, Continue, WorkerStep

\* Every variable keeps its type, over every step of every process.
THEOREM TypeCorrect == Spec => []TypeOK
<1>1. Init => TypeOK
  BY BoundsAssumption DEF Init, TypeOK, Jobs, NoJob, Idle, RequestStates, HandlersHoldJobs, CancelStages, JobStages, Stages, KbStatuses, SyncErrors, Statuses
<1> QED
  BY <1>1, TypeStep, PTL DEF Spec

\* An idle worker holds no job.
LEMMA NoJobIsNotAJob == NoJob \notin Jobs
  BY DEF NoJob, Jobs

-----------------------------------------------------------------------------
(* The ingestion queue.                                                    *)

\* Publishing a job that is not queued keeps every job queued once.
LEMMA PublishJob ==
    ASSUME NEW q \in Seq(Jobs), NEW j \in Jobs, NEW p,
           IsInjective(q), ~Contains(q, j), p = q \/ p = Append(q, j)
    PROVE  /\ IsInjective(p)
           /\ \A k : Contains(p, k) => Contains(q, k) \/ k = j
  BY DEF Contains, IsInjective

\* Claiming the head leaves the rest queued once, without the claimed job.
LEMMA ClaimJob ==
    ASSUME NEW q \in Seq(Jobs), q # <<>>
    PROVE  /\ Head(q) \in Jobs
           /\ Contains(q, Head(q))
           /\ \A k : Contains(Tail(q), k) => Contains(q, k)
           /\ IsInjective(q) => ~Contains(Tail(q), Head(q)) /\ IsInjective(Tail(q))
  BY DEF Contains, IsInjective

-----------------------------------------------------------------------------
(* Custody of the payload.                                                 *)

\* A handler that moves on within its stages, ends, or takes hold of a row that
\* exists still holds rows that exist, its new one alone.
LEMMA HoldRowsStep ==
    ASSUME TypeOK, HandlersHoldRows, NEW r \in Requests,
           status' \in [Jobs -> Statuses],
           \A j \in Jobs : status[j] # "absent" => status'[j] # "absent",
           \/ \E stage \in Stages :
                 /\ Goto(r, stage)
                 /\ stage \in JobStages => request[r].stage \in JobStages
           \/ Done(r)
           \/ \E stage \in CancelStages, j \in Active : HoldOld(r, stage, j)
    PROVE  HandlersHoldRows'
<1> USE DEF TypeOK, RequestStates, HandlersHoldJobs, HandlersHoldRows, JobStages, CancelStages
<1>1. ASSUME NEW stage \in Stages, Goto(r, stage),
             stage \in JobStages => request[r].stage \in JobStages
      PROVE  HandlersHoldRows'
  BY <1>1, NoJobIsNotAJob DEF Goto
<1>2. CASE Done(r)
  BY <1>2, NoJobIsNotAJob DEF Done, Idle
<1>3. ASSUME NEW stage \in CancelStages, NEW j \in Active, HoldOld(r, stage, j)
      PROVE  HandlersHoldRows'
  BY <1>3, NoJobIsNotAJob DEF HoldOld, Active, ActiveStatuses
<1> QED
  BY <1>1, <1>2, <1>3

\* Each step moves a payload from one place to the next, never copies it.
LEMMA CustodyStep == CustodyInv /\ [Next]_vars => CustodyInv'
<1> SUFFICES ASSUME CustodyInv, [Next]_vars
             PROVE  (HandlersHoldRows /\ UnpublishedIsNowhere /\ SingleCustody /\ CompletedHasRun)'
  BY TypeStep DEF CustodyInv
<1> DEFINE I == HandlersHoldRows /\ UnpublishedIsNowhere /\ SingleCustody /\ CompletedHasRun
<1> USE NoJobIsNotAJob DEF CustodyInv, TypeOK, HandlersHoldJobs, RequestStates, HandlersHoldRows,
            UnpublishedIsNowhere, SingleCustody, CompletedHasRun, Unsent, Reported,
            apiVars, brokerVars, workerVars, Goto, Done, Idle, JobStages, ActiveStatuses
<1>1. ASSUME NEW r \in Requests, ReindexRead(r) PROVE I'
  <2>1. HandlersHoldRows'
    BY <1>1, TypeStep, HoldRowsStep DEF ReindexRead, Stages, CancelStages
  <2>2. UnpublishedIsNowhere'
    BY <1>1 DEF ReindexRead, Active, HoldOld
  <2>3. SingleCustody'
    BY <1>1 DEF ReindexRead, Active, HoldOld
  <2>4. CompletedHasRun'
    BY <1>1 DEF ReindexRead, Active, HoldOld
  <2> QED
    BY <2>1, <2>2, <2>3, <2>4
<1>2. ASSUME NEW r \in Requests, CancelRequested(r) PROVE I'
  <2>1. HandlersHoldRows'
    BY <1>2, TypeStep, HoldRowsStep DEF CancelRequested, Stages, CancelStages, Active
  <2>2. UnpublishedIsNowhere'
    <3>1. /\ UNCHANGED <<queue, worker, outcomes, applying, parked>>
          /\ \A j \in Jobs : status'[j] \in {status[j], "cancelled"}
      BY <1>2 DEF CancelRequested, Active
    <3>2. \A q \in Requests : request'[q].stage \in {"prepare", "publish"} =>
              request'[q] = request[q]
      <4>1. CASE \E j \in Active : HoldOld(r, "broadcastCancel", j)
        BY <4>1 DEF HoldOld
      <4>2. CASE Goto(r, "setCancelled")
        BY <4>2
      <4> QED
        BY <1>2, <4>1, <4>2 DEF CancelRequested
    <3> QED
      BY <3>1, <3>2
  <2>3. SingleCustody'
    BY <1>2 DEF CancelRequested, Active, HoldOld
  <2>4. CompletedHasRun'
    BY <1>2 DEF CancelRequested, Active, HoldOld
  <2> QED
    BY <2>1, <2>2, <2>3, <2>4
<1>3. ASSUME NEW r \in Requests, ReindexCancelOld(r) PROVE I'
  <2>1. HandlersHoldRows'
    BY <1>3, TypeStep, HoldRowsStep DEF ReindexCancelOld, Stages
  <2>2. UnpublishedIsNowhere'
    BY <1>3 DEF ReindexCancelOld
  <2>3. SingleCustody'
    BY <1>3 DEF ReindexCancelOld
  <2>4. CompletedHasRun'
    BY <1>3 DEF ReindexCancelOld
  <2> QED
    BY <2>1, <2>2, <2>3, <2>4
<1>4. ASSUME NEW r \in Requests, ReindexReset(r) PROVE I'
  <2>1. HandlersHoldRows'
    BY <1>4 DEF ReindexReset
  <2>2. UnpublishedIsNowhere'
    BY <1>4 DEF ReindexReset
  <2>3. SingleCustody'
    BY <1>4 DEF ReindexReset
  <2>4. CompletedHasRun'
    BY <1>4 DEF ReindexReset
  <2> QED
    BY <2>1, <2>2, <2>3, <2>4
<1>5. ASSUME NEW r \in Requests, ReindexCreate(r) PROVE I'
  <2>1. HandlersHoldRows'
    BY <1>5 DEF ReindexCreate, Absent, HoldNew
  <2>2. UnpublishedIsNowhere'
    BY <1>5 DEF ReindexCreate, Absent, HoldNew
  <2>3. SingleCustody'
    BY <1>5 DEF ReindexCreate, Absent, HoldNew
  <2>4. CompletedHasRun'
    BY <1>5 DEF ReindexCreate, Absent, HoldNew
  <2> QED
    BY <2>1, <2>2, <2>3, <2>4
<1>6. ASSUME NEW r \in Requests, ReindexPrepare(r) PROVE I'
  <2>1. HandlersHoldRows'
    BY <1>6, TypeStep, HoldRowsStep DEF ReindexPrepare, Stages
  <2>2. UnpublishedIsNowhere'
    BY <1>6 DEF ReindexPrepare
  <2>3. SingleCustody'
    BY <1>6 DEF ReindexPrepare
  <2>4. CompletedHasRun'
    BY <1>6 DEF ReindexPrepare
  <2> QED
    BY <2>1, <2>2, <2>3, <2>4
<1>7. ASSUME NEW r \in Requests, ReindexPublish(r) PROVE I'
  <2> DEFINE j == request[r].job
  <2>1. j \in Jobs /\ Unsent(j) /\ j \notin parked /\ status[j] \notin {"absent", "completed"}
    BY <1>7 DEF ReindexPublish
  <2>2. /\ UNCHANGED <<status, worker, outcomes, applying>>
        /\ \/ queue' = Append(queue, j) /\ parked' = parked
           \/ queue' = queue /\ parked' \in {parked, parked \cup {j}}
    BY <1>7 DEF ReindexPublish
  <2>3. \A q \in Requests : request'[q].stage \in {"prepare", "publish"} =>
          request'[q] = request[q] /\ request[q].job # j
    BY <1>7 DEF ReindexPublish
  <2>4. IsInjective(queue') /\ \A k : Contains(queue', k) => Contains(queue, k) \/ k = j
    <3>1. IsInjective(queue) /\ ~Contains(queue, j) /\ queue \in Seq(Jobs)
      BY <2>1
    <3>2. queue' = queue \/ queue' = Append(queue, j)
      BY <2>2
    <3> HIDE DEF CustodyInv, j
    <3> QED
      BY <2>1, <3>1, <3>2, PublishJob
  <2> HIDE DEF j
  <2>5. HandlersHoldRows'
    BY <1>7, HoldRowsStep DEF ReindexPublish, Stages
  <2>6. UnpublishedIsNowhere'
    BY <2>1, <2>2, <2>3, <2>4, NoJobIsNotAJob
  <2>7. SingleCustody'
    BY <2>1, <2>2, <2>4
  <2>8. CompletedHasRun'
    BY <2>1, <2>2, <2>4
  <2> QED
    BY <2>5, <2>6, <2>7, <2>8
<1>8. ASSUME NEW r \in Requests, ReindexFail(r) PROVE I'
  <2>1. HandlersHoldRows'
    BY <1>8 DEF ReindexFail, Resolved
  <2>2. UnpublishedIsNowhere'
    BY <1>8 DEF ReindexFail, Resolved
  <2>3. SingleCustody'
    BY <1>8 DEF ReindexFail, Resolved
  <2>4. CompletedHasRun'
    BY <1>8 DEF ReindexFail, Resolved
  <2> QED
    BY <2>1, <2>2, <2>3, <2>4
<1>9. ASSUME NEW r \in Requests, ReindexResetKb(r) PROVE I'
  <2>1. HandlersHoldRows'
    BY <1>9 DEF ReindexResetKb
  <2>2. UnpublishedIsNowhere'
    BY <1>9 DEF ReindexResetKb
  <2>3. SingleCustody'
    BY <1>9 DEF ReindexResetKb
  <2>4. CompletedHasRun'
    BY <1>9 DEF ReindexResetKb
  <2> QED
    BY <2>1, <2>2, <2>3, <2>4
<1>10. ASSUME NEW r \in Requests, CancelBroadcast(r) PROVE I'
  <2>1. HandlersHoldRows'
    BY <1>10, TypeStep, HoldRowsStep DEF CancelBroadcast, Stages
  <2>2. UnpublishedIsNowhere'
    BY <1>10 DEF CancelBroadcast
  <2>3. SingleCustody'
    BY <1>10 DEF CancelBroadcast
  <2>4. CompletedHasRun'
    BY <1>10 DEF CancelBroadcast
  <2> QED
    BY <2>1, <2>2, <2>3, <2>4
<1>11. ASSUME NEW r \in Requests, CancelSetKb(r) PROVE I'
  <2>1. HandlersHoldRows'
    BY <1>11 DEF CancelSetKb
  <2>2. UnpublishedIsNowhere'
    BY <1>11 DEF CancelSetKb
  <2>3. SingleCustody'
    BY <1>11 DEF CancelSetKb
  <2>4. CompletedHasRun'
    BY <1>11 DEF CancelSetKb
  <2> QED
    BY <2>1, <2>2, <2>3, <2>4
<1>12. ASSUME NEW w \in Workers, WorkerClaim(w) PROVE I'
  <2>1. HandlersHoldRows'
    BY <1>12, ClaimJob DEF WorkerClaim
  <2>2. UnpublishedIsNowhere'
    BY <1>12, ClaimJob DEF WorkerClaim
  <2>3. SingleCustody'
    BY <1>12, ClaimJob DEF WorkerClaim
  <2>4. CompletedHasRun'
    BY <1>12, ClaimJob DEF WorkerClaim
  <2> QED
    BY <2>1, <2>2, <2>3, <2>4
<1>13. ASSUME NEW w \in Workers, WorkerFinish(w) PROVE I'
  <2>1. HandlersHoldRows'
    BY <1>13 DEF WorkerFinish, Outcomes
  <2>2. UnpublishedIsNowhere'
    BY <1>13 DEF WorkerFinish, Outcomes
  <2>3. SingleCustody'
    BY <1>13 DEF WorkerFinish, Outcomes
  <2>4. CompletedHasRun'
    BY <1>13 DEF WorkerFinish, Outcomes
  <2> QED
    BY <2>1, <2>2, <2>3, <2>4
<1>14. ASSUME NEW w \in Workers, WorkerStop(w) PROVE I'
  <2>1. HandlersHoldRows'
    BY <1>14 DEF WorkerStop
  <2>2. UnpublishedIsNowhere'
    BY <1>14 DEF WorkerStop
  <2>3. SingleCustody'
    BY <1>14 DEF WorkerStop
  <2>4. CompletedHasRun'
    BY <1>14 DEF WorkerStop
  <2> QED
    BY <2>1, <2>2, <2>3, <2>4
<1>15. ASSUME NEW w \in Workers, WorkerCrash(w) PROVE I'
  <2>1. HandlersHoldRows'
    BY <1>15 DEF WorkerCrash
  <2>2. UnpublishedIsNowhere'
    BY <1>15 DEF WorkerCrash
  <2>3. SingleCustody'
    BY <1>15 DEF WorkerCrash
  <2>4. CompletedHasRun'
    BY <1>15 DEF WorkerCrash
  <2> QED
    BY <2>1, <2>2, <2>3, <2>4
<1>16. ASSUME NEW o \in Outcomes, ResolveJob(o) PROVE I'
  <2>1. HandlersHoldRows'
    BY <1>16 DEF ResolveJob, Resolved, JobVerdict, Outcomes
  <2>2. UnpublishedIsNowhere'
    BY <1>16 DEF ResolveJob, Resolved, JobVerdict, Outcomes
  <2>3. SingleCustody'
    BY <1>16 DEF ResolveJob, Resolved, JobVerdict, Outcomes
  <2>4. CompletedHasRun'
    BY <1>16 DEF ResolveJob, Resolved, JobVerdict, Outcomes
  <2> QED
    BY <2>1, <2>2, <2>3, <2>4
<1>17. ASSUME NEW o \in Outcomes, ApplyOutcome(o) PROVE I'
  <2>1. HandlersHoldRows'
    BY <1>17 DEF ApplyOutcome, Outcomes
  <2>2. UnpublishedIsNowhere'
    BY <1>17 DEF ApplyOutcome, Outcomes
  <2>3. SingleCustody'
    BY <1>17 DEF ApplyOutcome, Outcomes
  <2>4. CompletedHasRun'
    BY <1>17 DEF ApplyOutcome, Outcomes
  <2> QED
    BY <2>1, <2>2, <2>3, <2>4
<1>18. ASSUME NEW o \in Outcomes, AbortOutcome(o) PROVE I'
  <2>1. HandlersHoldRows'
    BY <1>18 DEF AbortOutcome
  <2>2. UnpublishedIsNowhere'
    BY <1>18 DEF AbortOutcome
  <2>3. SingleCustody'
    BY <1>18 DEF AbortOutcome
  <2>4. CompletedHasRun'
    BY <1>18 DEF AbortOutcome
  <2> QED
    BY <2>1, <2>2, <2>3, <2>4
<1>19. ASSUME NEW j \in Jobs, FireDeferred(j) PROVE I'
  <2>1. Unsent(j) /\ status[j] = "pending" /\ j \in parked
    BY <1>19 DEF FireDeferred
  <2>2. /\ UNCHANGED <<request, worker, outcomes, applying>>
        /\ parked' = parked \ {j}
        /\ queue' \in {queue, Append(queue, j)}
        /\ status' \in {status, [status EXCEPT ![j] = "failed"]}
    BY <1>19 DEF FireDeferred, Resolved
  <2>3. IsInjective(queue') /\ \A k : Contains(queue', k) => Contains(queue, k) \/ k = j
    <3>1. IsInjective(queue) /\ ~Contains(queue, j) /\ queue \in Seq(Jobs)
      BY <2>1
    <3>2. queue' = queue \/ queue' = Append(queue, j)
      BY <2>2
    <3> HIDE DEF CustodyInv
    <3> QED
      BY <2>1, <3>1, <3>2, PublishJob
  <2>4. HandlersHoldRows'
    BY <2>1, <2>2
  <2>5. UnpublishedIsNowhere'
    BY <2>1, <2>2, <2>3
  <2>6. SingleCustody'
    BY <2>1, <2>2, <2>3
  <2>7. CompletedHasRun'
    BY <2>1, <2>2, <2>3
  <2> QED
    BY <2>4, <2>5, <2>6, <2>7
<1>20. ASSUME NEW j \in Jobs, AdminCancel(j) PROVE I'
  <2>1. HandlersHoldRows'
    BY <1>20 DEF AdminCancel
  <2>2. UnpublishedIsNowhere'
    BY <1>20 DEF AdminCancel
  <2>3. SingleCustody'
    BY <1>20 DEF AdminCancel
  <2>4. CompletedHasRun'
    BY <1>20 DEF AdminCancel
  <2> QED
    BY <2>1, <2>2, <2>3, <2>4
<1>21. ASSUME NEW j \in Jobs, AdminRetry(j) PROVE I'
  <2>1. HandlersHoldRows'
    BY <1>21 DEF AdminRetry
  <2>2. UnpublishedIsNowhere'
    BY <1>21 DEF AdminRetry
  <2>3. SingleCustody'
    BY <1>21 DEF AdminRetry
  <2>4. CompletedHasRun'
    BY <1>21 DEF AdminRetry
  <2> QED
    BY <2>1, <2>2, <2>3, <2>4
<1>22. CASE SweepPending
  <2>1. HandlersHoldRows'
    BY <1>22 DEF SweepPending, Sweepable, Pending, Stalled, InHand
  <2>2. UnpublishedIsNowhere'
    BY <1>22 DEF SweepPending, Sweepable, Pending, Stalled, InHand
  <2>3. SingleCustody'
    BY <1>22 DEF SweepPending, Sweepable, Pending, Stalled, InHand
  <2>4. CompletedHasRun'
    BY <1>22 DEF SweepPending, Sweepable, Pending, Stalled, InHand
  <2> QED
    BY <2>1, <2>2, <2>3, <2>4
<1>23. CASE RestartApi
  <2>1. HandlersHoldRows'
    BY <1>23 DEF RestartApi, Active, Stalled
  <2>2. UnpublishedIsNowhere'
    BY <1>23 DEF RestartApi, Active, Stalled
  <2>3. SingleCustody'
    BY <1>23 DEF RestartApi, Active, Stalled
  <2>4. CompletedHasRun'
    BY <1>23 DEF RestartApi, Active, Stalled
  <2> QED
    BY <2>1, <2>2, <2>3, <2>4
<1>24. CASE UNCHANGED vars
  <2>1. HandlersHoldRows'
    BY <1>24 DEF vars
  <2>2. UnpublishedIsNowhere'
    BY <1>24 DEF vars
  <2>3. SingleCustody'
    BY <1>24 DEF vars
  <2>4. CompletedHasRun'
    BY <1>24 DEF vars
  <2> QED
    BY <2>1, <2>2, <2>3, <2>4
<1> QED
  BY <1>1, <1>2, <1>3, <1>4, <1>5, <1>6, <1>7, <1>8, <1>9, <1>10, <1>11, <1>12, <1>13, <1>14, <1>15, <1>16, <1>17, <1>18, <1>19, <1>20, <1>21, <1>22, <1>23, <1>24 DEF Next, Continue, WorkerStep

LEMMA CustodyInit == Init => CustodyInv
<1> SUFFICES ASSUME Init PROVE CustodyInv
  OBVIOUS
<1> USE NoJobIsNotAJob DEF Init
<1>1. TypeOK
  BY BoundsAssumption DEF TypeOK, Jobs, NoJob, Idle, RequestStates, HandlersHoldJobs, CancelStages, JobStages, Stages, KbStatuses, SyncErrors, Statuses
<1>2. HandlersHoldRows
  BY DEF HandlersHoldRows, JobStages, Idle
<1>3. UnpublishedIsNowhere
  BY DEF UnpublishedIsNowhere, Unsent, Reported, Contains, Idle
<1>4. SingleCustody
  BY DEF SingleCustody, Reported, Contains, IsInjective
<1>5. CompletedHasRun
  BY DEF CompletedHasRun
<1> QED
  BY <1>1, <1>2, <1>3, <1>4, <1>5 DEF CustodyInv

\* A job's payload is in one place at a time, and a completed job's is nowhere.
THEOREM CustodyCorrect == Spec => [](SingleCustody /\ CompletedHasRun)
<1>1. CustodyInv => SingleCustody /\ CompletedHasRun
  BY DEF CustodyInv
<1> QED
  BY <1>1, CustodyInit, CustodyStep, PTL DEF Spec

\* Whatever is redelivered, cancelled or swept, nothing is left to run of a
\* completed job: no copy of its payload, and no worker that ingests for it.
THEOREM CompletedCorrect == Spec => []CompletedHasRun
<1>1. SingleCustody /\ CompletedHasRun => CompletedHasRun
  OBVIOUS
<1> QED
  BY <1>1, CustodyCorrect, PTL

-----------------------------------------------------------------------------
(* The KB is accounted for.                                                *)


\* Unless strandedBy records it, no job that ends is one a trigger has yet to
\* prepare.
LEMMA EndedBeforePrepareStep ==
    ASSUME NEW S, strandedBy' = strandedBy \cup EndedBeforePrepare(S), strandedBy' = {}
    PROVE  /\ strandedBy = {}
           /\ \A r \in Requests : request[r].stage = "prepare" => request[r].job \notin S
  BY DEF EndedBeforePrepare

\* No step leaves a processing KB without an owner, unless strandedBy says how.
LEMMA KbStep == KbInv /\ [Next]_vars => KbInv'
<1> SUFFICES ASSUME KbInv, [Next]_vars
             PROVE  PrepareHasActiveJob' /\ ProcessingIsAccountedFor'
  BY CustodyStep DEF KbInv
<1> DEFINE I == PrepareHasActiveJob /\ ProcessingIsAccountedFor
<1>a. /\ TypeOK /\ HandlersHoldRows /\ UnpublishedIsNowhere
      /\ PrepareHasActiveJob /\ ProcessingIsAccountedFor
  BY DEF KbInv, CustodyInv
<1> USE <1>a, NoJobIsNotAJob DEF TypeOK, HandlersHoldJobs, RequestStates, PrepareHasActiveJob,
            ProcessingIsAccountedFor, Active, apiVars, brokerVars, workerVars, Goto, Done, Idle
<1>1. ASSUME NEW r \in Requests, ReindexRead(r) PROVE I'
  <2>1. /\ UNCHANGED <<status, kb, outcomes, applying, strandedBy>>
        /\ request[r].stage = "idle"
    BY <1>1 DEF ReindexRead
  <2>2. /\ request' \in [Requests -> RequestStates]
        /\ \A q \in Requests \ {r} : request'[q] = request[q]
        /\ request'[r].stage # "prepare"
    BY <1>1, TypeStep DEF ReindexRead, HoldOld
  <2> QED
    BY <2>1, <2>2
<1>2. ASSUME NEW r \in Requests, CancelRequested(r) PROVE I'
  <2>1. /\ request'[r].stage \in {"broadcastCancel", "setCancelled"}
        /\ \A q \in Requests \ {r} : request'[q] = request[q]
    <3>1. CASE \E j \in Active : HoldOld(r, "broadcastCancel", j)
      BY <3>1 DEF HoldOld
    <3>2. CASE Goto(r, "setCancelled")
      BY <3>2
    <3> QED
      BY <1>2, <3>1, <3>2 DEF CancelRequested
  <2>2. \/ UNCHANGED <<status, strandedBy>>
        \/ \E j \in Jobs : /\ status' = [status EXCEPT ![j] = "cancelled"]
                           /\ strandedBy' = strandedBy \cup EndedBeforePrepare({j})
    BY <1>2 DEF CancelRequested
  <2>3. PrepareHasActiveJob'
    <3> SUFFICES ASSUME NEW q \in Requests, request'[q].stage = "prepare", strandedBy' = {}
                 PROVE  status'[request'[q].job] \in ActiveStatuses
      OBVIOUS
    <3>1. q # r /\ request'[q] = request[q] /\ request[q].job \in Jobs
      BY <2>1 DEF JobStages
    <3>2. CASE UNCHANGED <<status, strandedBy>>
      BY <3>1, <3>2
    <3>3. ASSUME NEW j \in Jobs, status' = [status EXCEPT ![j] = "cancelled"],
                 strandedBy' = strandedBy \cup EndedBeforePrepare({j})
          PROVE  status'[request'[q].job] \in ActiveStatuses
      <4>1. strandedBy = {} /\ request[q].job # j
        BY <3>1, <3>3, EndedBeforePrepareStep
      <4> QED
        BY <3>1, <3>3, <4>1
    <3> QED
      BY <2>2, <3>2, <3>3
  <2>4. ProcessingIsAccountedFor'
    BY <2>1
  <2> QED
    BY <2>3, <2>4
<1>3. ASSUME NEW r \in Requests, ReindexCancelOld(r) PROVE I'
  <2>1. /\ UNCHANGED <<status, kb, outcomes, applying, strandedBy>>
        /\ request[r].stage = "cancelOld"
    BY <1>3 DEF ReindexCancelOld
  <2>2. /\ \A q \in Requests \ {r} : request'[q] = request[q]
        /\ request'[r].stage # "prepare"
    BY <1>3 DEF ReindexCancelOld
  <2> QED
    BY <2>1, <2>2
<1>4. ASSUME NEW r \in Requests, ReindexReset(r) PROVE I'
  <2>1. /\ kb'.status # "processing"
        /\ \A q \in Requests \ {r} : request'[q] = request[q]
        /\ request'[r].stage = "create"
    BY <1>4 DEF ReindexReset
  <2>2. /\ \/ status' = status
           \/ status' = [status EXCEPT ![request[r].old] = "cancelled"]
        /\ strandedBy' = strandedBy \cup EndedBeforePrepare({request[r].old})
    BY <1>4 DEF ReindexReset
  <2>3. PrepareHasActiveJob'
    <3> SUFFICES ASSUME NEW q \in Requests, request'[q].stage = "prepare", strandedBy' = {}
                 PROVE  status'[request'[q].job] \in ActiveStatuses
      OBVIOUS
    <3>1. q # r /\ request'[q] = request[q] /\ request[q].job \in Jobs
      BY <2>1 DEF JobStages
    <3>2. strandedBy = {} /\ request[q].job # request[r].old
      BY <2>2, <3>1, EndedBeforePrepareStep
    <3> QED
      BY <2>2, <3>1, <3>2
  <2> QED
    BY <2>1, <2>3
<1>5. ASSUME NEW r \in Requests, ReindexCreate(r) PROVE I'
  BY <1>5 DEF ReindexCreate, Absent, HoldNew, ActiveStatuses, Outcomes
<1>6. ASSUME NEW r \in Requests, ReindexPrepare(r) PROVE I'
  BY <1>6 DEF ReindexPrepare, JobStages
<1>7. ASSUME NEW r \in Requests, ReindexPublish(r) PROVE I'
  BY <1>7 DEF ReindexPublish
<1>8. ASSUME NEW r \in Requests, ReindexFail(r) PROVE I'
  BY <1>8 DEF ReindexFail, Resolved, HandlersHoldRows, JobStages
<1>9. ASSUME NEW r \in Requests, ReindexResetKb(r) PROVE I'
  BY <1>9 DEF ReindexResetKb, KbUnlessIdle
<1>10. ASSUME NEW r \in Requests, CancelBroadcast(r) PROVE I'
  <2>1. /\ UNCHANGED <<status, kb, outcomes, applying>>
        /\ \A q \in Requests \ {r} : request'[q] = request[q]
    BY <1>10 DEF CancelBroadcast
  <2>2. \/ request'[r].stage = "setCancelled" /\ strandedBy' = strandedBy
        \/ request'[r].stage = "idle" /\ strandedBy' # {}
    <3>1. CASE Goto(r, "setCancelled") /\ UNCHANGED strandedBy
      BY <3>1
    <3>2. CASE Done(r) /\ strandedBy' = strandedBy \cup {"cancelNotBroadcast"}
      BY <3>2
    <3> QED
      BY <1>10, <3>1, <3>2 DEF CancelBroadcast
  <2> QED
    BY <2>1, <2>2
<1>11. ASSUME NEW r \in Requests, CancelSetKb(r) PROVE I'
  BY <1>11 DEF CancelSetKb
<1>12. ASSUME NEW w \in Workers, WorkerClaim(w) PROVE I'
  BY <1>12 DEF WorkerClaim
<1>13. ASSUME NEW w \in Workers, WorkerFinish(w) PROVE I'
  BY <1>13 DEF WorkerFinish
<1>14. ASSUME NEW w \in Workers, WorkerStop(w) PROVE I'
  BY <1>14 DEF WorkerStop
<1>15. ASSUME NEW w \in Workers, WorkerCrash(w) PROVE I'
  BY <1>15 DEF WorkerCrash
<1>16. ASSUME NEW o \in Outcomes, ResolveJob(o) PROVE I'
  <2>1. o \in outcomes /\ status[o.job] # "absent"
    BY <1>16 DEF ResolveJob, UnpublishedIsNowhere, Unsent, Reported, Outcomes
  <2>2. \A r \in Requests : request[r].stage = "prepare" => request[r].job # o.job
    BY <2>1 DEF UnpublishedIsNowhere, Unsent, Reported
  <2>3. /\ UNCHANGED <<kb, request, strandedBy>>
        /\ \A j \in Jobs \ {o.job} : status'[j] = status[j]
    BY <1>16 DEF ResolveJob, Resolved
  <2>4. PrepareHasActiveJob'
    BY <2>2, <2>3 DEF JobStages
  <2>5. ProcessingIsAccountedFor'
    <3>1. CASE status[o.job] = "cancelled"
      BY <1>16, <3>1 DEF ResolveJob, Resolved
    <3>2. CASE status[o.job] # "cancelled"
      BY <1>16, <2>1, <3>2 DEF ResolveJob, Resolved, JobVerdict, Outcomes
    <3> QED
      BY <3>1, <3>2
  <2> QED
    BY <2>4, <2>5
<1>17. ASSUME NEW o \in Outcomes, ApplyOutcome(o) PROVE I'
  BY <1>17 DEF ApplyOutcome, KbAfter, Outcomes, Verdicts
<1>18. ASSUME NEW o \in Outcomes, AbortOutcome(o) PROVE I'
  BY <1>18 DEF AbortOutcome
<1>19. ASSUME NEW j \in Jobs, FireDeferred(j) PROVE I'
  <2>1. UNCHANGED <<kb, request, outcomes, applying>>
    BY <1>19 DEF FireDeferred
  <2>2. UNCHANGED <<status, strandedBy>> \/ strandedBy' # {}
    BY <1>19 DEF FireDeferred
  <2> QED
    BY <2>1, <2>2
<1>20. ASSUME NEW j \in Jobs, AdminCancel(j) PROVE I'
  BY <1>20 DEF AdminCancel
<1>21. ASSUME NEW j \in Jobs, AdminRetry(j) PROVE I'
  BY <1>21 DEF AdminRetry, ActiveStatuses, Outcomes
<1>22. CASE SweepPending
  <2>1. PICK c \in Jobs : /\ Sweepable(c) # {}
                          /\ \A j \in Sweepable(c) : ~InHand(j)
                          /\ status' = Stalled(Sweepable(c))
                          /\ kb' = KbAfterStall(Sweepable(c))
    BY <1>22 DEF SweepPending
  <2>2. UNCHANGED <<request, strandedBy>>
    BY <1>22 DEF SweepPending
  <2>3. kb'.status # "processing"
    BY <2>1 DEF KbAfterStall, KbUnlessIdle
  <2>4. PrepareHasActiveJob'
    BY <2>1, <2>2 DEF Stalled, InHand, JobStages
  <2> QED
    BY <2>3, <2>4
<1>23. CASE RestartApi
  <2>1. PICK dead \in SUBSET Requests :
          /\ request' = [r \in Requests |-> IF r \in dead THEN Idle ELSE request[r]]
          /\ strandedBy' = strandedBy \cup EndedBeforePrepare(Active)
               \cup {c \in {"requestDied"} : \E r \in dead :
                       request[r].stage \in {"fail", "resetKb", "broadcastCancel", "setCancelled"}}
    BY <1>23 DEF RestartApi
  <2>2. /\ status' = Stalled(Active) /\ kb' = KbAfterStall(Active)
        /\ UNCHANGED <<outcomes, applying>>
    BY <1>23 DEF RestartApi
  <2>3. PrepareHasActiveJob'
    BY <2>1, <2>2 DEF Stalled, EndedBeforePrepare, JobStages
  <2>4. ProcessingIsAccountedFor'
    <3>1. CASE Active = {}
      BY <2>1, <2>2, <3>1 DEF Stalled, KbAfterStall, Outcomes
    <3>2. CASE Active # {}
      BY <2>2, <3>2 DEF KbAfterStall, KbUnlessIdle
    <3> QED
      BY <3>1, <3>2
  <2> QED
    BY <2>3, <2>4
<1>24. CASE UNCHANGED vars
  BY <1>24 DEF vars
<1> QED
  BY <1>1, <1>2, <1>3, <1>4, <1>5, <1>6, <1>7, <1>8, <1>9, <1>10, <1>11, <1>12, <1>13, <1>14, <1>15, <1>16, <1>17, <1>18, <1>19, <1>20, <1>21, <1>22, <1>23, <1>24 DEF Next, Continue, WorkerStep

\* A KB in processing has an owner that will reset it, for any number of
\* handlers, workers, jobs and faults, but for the events of strandedBy.
THEOREM ProcessingAccounted == Spec => []ProcessingIsAccountedFor
<1>1. Init => KbInv
  BY CustodyInit DEF Init, KbInv, PrepareHasActiveJob, ProcessingIsAccountedFor, Idle
<1>2. KbInv => ProcessingIsAccountedFor
  BY DEF KbInv
<1> QED
  BY <1>1, <1>2, KbStep, PTL DEF Spec

-----------------------------------------------------------------------------
(* The abstract life cycle.                                                *)

\* Every step that writes a job row is a step of the life cycle.
LEMMA LifecycleStep == CustodyInv /\ [Next]_vars => [Lifecycle!Next]_status
<1> SUFFICES ASSUME CustodyInv, [Next]_vars
             PROVE  Lifecycle!Next \/ UNCHANGED status
  OBVIOUS
<1> DEFINE L == Lifecycle!Next \/ UNCHANGED status
<1>a. TypeOK /\ HandlersHoldRows /\ UnpublishedIsNowhere
  BY DEF CustodyInv
<1>b. ASSUME NEW j \in Jobs, NEW v \in {"completed", "failed"}, status' = Resolved(j, v)
      PROVE  L
  BY <1>b DEF Resolved, Lifecycle!Next, Lifecycle!Resolve
<1>c. ASSUME NEW j \in Jobs, status[j] # "absent", status' = [status EXCEPT ![j] = "cancelled"]
      PROVE  L
  BY <1>c DEF Lifecycle!Next, Lifecycle!Cancel
<1>d. ASSUME NEW S \in SUBSET Active, status' = Stalled(S)
      PROVE  L
  BY <1>d DEF Active, Stalled, ActiveStatuses, Lifecycle!Next, Lifecycle!Stall, Lifecycle!ActiveStatuses
<1> USE DEF apiVars
<1>1. ASSUME NEW r \in Requests, ReindexRead(r) PROVE L
  BY <1>1 DEF ReindexRead
<1>2. ASSUME NEW r \in Requests, CancelRequested(r) PROVE L
  BY <1>2, <1>c DEF CancelRequested, Active, ActiveStatuses
<1>3. ASSUME NEW r \in Requests, ReindexReset(r) PROVE L
  BY <1>a, <1>3, <1>c DEF ReindexReset, HandlersHoldRows, TypeOK, RequestStates
<1>4. ASSUME NEW r \in Requests, ReindexCreate(r) PROVE L
  BY <1>4 DEF ReindexCreate, Absent, Lifecycle!Next, Lifecycle!Create
<1>5. ASSUME NEW r \in Requests, ReindexFail(r) PROVE L
  BY <1>a, <1>5, <1>b DEF ReindexFail, TypeOK, HandlersHoldJobs, JobStages
<1>6. ASSUME NEW r \in Requests,
             \/ ReindexCancelOld(r) \/ ReindexPrepare(r) \/ ReindexPublish(r)
             \/ ReindexResetKb(r) \/ CancelBroadcast(r) \/ CancelSetKb(r)
      PROVE  L
  BY <1>6 DEF ReindexCancelOld, ReindexPrepare, ReindexPublish, ReindexResetKb, CancelBroadcast, CancelSetKb
<1>7. ASSUME NEW w \in Workers, WorkerStep(w) \/ WorkerCrash(w) PROVE L
  BY <1>7 DEF WorkerStep, WorkerClaim, WorkerFinish, WorkerStop, WorkerCrash
<1>8. ASSUME NEW o \in Outcomes, ResolveJob(o) PROVE L
  BY <1>8, <1>b DEF ResolveJob, JobVerdict, Outcomes
<1>9. ASSUME NEW o \in Outcomes, ApplyOutcome(o) \/ AbortOutcome(o) PROVE L
  BY <1>9 DEF ApplyOutcome, AbortOutcome
<1>10. ASSUME NEW j \in Jobs, FireDeferred(j) PROVE L
  BY <1>10, <1>b DEF FireDeferred
<1>11. ASSUME NEW j \in Jobs, AdminCancel(j) PROVE L
  BY <1>11, <1>c DEF AdminCancel, ActiveStatuses
<1>12. ASSUME NEW j \in Jobs, AdminRetry(j) PROVE L
  BY <1>12 DEF AdminRetry, Lifecycle!Next, Lifecycle!Retry
<1>13. CASE SweepPending
  BY <1>13, <1>d DEF SweepPending, Sweepable, Pending, Active, ActiveStatuses
<1>14. CASE RestartApi
  BY <1>14, <1>d DEF RestartApi
<1>15. CASE UNCHANGED vars
  BY <1>15 DEF vars
<1> QED
  BY <1>1, <1>2, <1>3, <1>4, <1>5, <1>6, <1>7, <1>8, <1>9, <1>10, <1>11, <1>12, <1>13, <1>14, <1>15 DEF Next, Continue

\* Handlers, subscribers, sweep, start-up hook and administrator together keep
\* to the life cycle of a job row.
THEOREM LifecycleImplemented == Spec => ImplementsLifecycle
<1>1. Init => Lifecycle!Init
  BY DEF Init, Lifecycle!Init
<1> QED
  BY <1>1, CustodyInit, CustodyStep, LifecycleStep, PTL DEF Spec, ImplementsLifecycle, Lifecycle!Spec
=============================================================================
