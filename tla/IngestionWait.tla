---------------------------- MODULE IngestionWait ----------------------------
(***************************************************************************)
(* One file handed to the rag-pipeline: the worker submits it, a thread of *)
(* the pipeline ingests it and keeps its progress in a Redis key that      *)
(* expires, and the worker polls that key with an absolute timeout, a      *)
(* staleness timeout and a limit on failed polls.                          *)
(*                                                                         *)
(* Time passes while the worker sleeps between polls and is counted in     *)
(* poll intervals.  The thread takes its steps whenever it likes, or dies  *)
(* with its process.                                                       *)
(***************************************************************************)
EXTENDS Naturals

CONSTANTS
    StaleTimeout,     \* intervals without a change of the snapshot
    AbsoluteTimeout,  \* intervals of a whole wait
    JobTtl,           \* intervals after which an untouched key expires
    MaxPollFailures,  \* consecutive failed polls that end the wait
    MaxStage          \* bound: the snapshots a running job goes through

ResultAttempts == 3

\* What the worker has not seen for a while may be older by a series of failed
\* polls, before and after, so the time to live leaves room for two of them.
ASSUME WaitAssumption ==
    /\ StaleTimeout \in Nat
    /\ AbsoluteTimeout \in Nat
    /\ JobTtl \in Nat
    /\ MaxPollFailures \in Nat /\ MaxPollFailures >= ResultAttempts - 1
    /\ MaxStage \in Nat
    /\ JobTtl > StaleTimeout + 2 * MaxPollFailures

VARIABLES
    thread,    \* the background thread of the pipeline
    key,       \* the job's key in Redis: {} or {its record}
    keyAge,    \* intervals since the key was last written
    phase,     \* where the worker is
    seen,      \* its last snapshot: {} or {<<status, stage>>}
    unchanged, \* intervals since the snapshot changed
    elapsed,   \* intervals since the submission
    failures,  \* consecutive failed polls, or failed fetches of the result
    outcome,   \* how the wait ended
    cancelled, \* the worker was sent a cancellation
    keyLost    \* history: Redis lost the key before its time

remote == <<thread, key, keyAge>>
local == <<phase, seen, unchanged, elapsed, failures, outcome>>
vars == <<remote, local, cancelled, keyLost>>

Threads == {"none", "working", "failing", "succeeded", "failed"}
Phases == {"queued", "submitted", "check", "poll", "result", "ended"}
Failures == {"raised", "cancelled", "timeout", "stale", "lost connection",
             "not found", "failed", "unfetched"}
Statuses == {"pending", "running", "completed", "failed"}
Keys == [status : Statuses, stage : 0 .. MaxStage, result : {"none", "success", "all failed"}]

TypeOK ==
    /\ thread \in Threads
    /\ key \in SUBSET Keys /\ \A a, b \in key : a = b
    /\ keyAge \in 0 .. JobTtl - 1
    /\ phase \in Phases
    /\ seen \subseteq ({"missing"} \cup Statuses) \X (0 .. MaxStage)
    /\ unchanged \in Nat
    /\ elapsed \in 0 .. AbsoluteTimeout + 1
    /\ failures \in Nat
    /\ phase \in {"check", "poll"} => failures < MaxPollFailures
    /\ outcome \in {"none", "success"} \cup Failures
    /\ (outcome = "none") <=> (phase # "ended")
    /\ cancelled \in BOOLEAN
    /\ keyLost \in BOOLEAN

Init ==
    /\ thread = "none" /\ key = {} /\ keyAge = 0
    /\ phase = "queued" /\ seen = {} /\ unchanged = 0 /\ elapsed = 0
    /\ failures = 0 /\ outcome = "none"
    /\ cancelled = FALSE /\ keyLost = FALSE

-----------------------------------------------------------------------------
(* The pipeline: a thread per submission.                                  *)

Write(record) == key' = {record} /\ keyAge' = 0

\* update_job does nothing to a key that is gone.
Progress ==
    /\ thread = "working"
    /\ \/ key = {} /\ UNCHANGED <<key, keyAge>>
       \/ \E k \in key, more \in {0, 1} :
             /\ k.stage + more <= MaxStage
             /\ Write([k EXCEPT !.status = "running", !.stage = @ + more])
    /\ UNCHANGED <<thread, local, cancelled, keyLost>>

\* set_result and set_failed write a key that is gone anew, without its stage.
Last == IF key = {} THEN [status |-> "pending", stage |-> 0, result |-> "none"]
        ELSE CHOOSE k \in key : TRUE

\* The file was converted and written; or it was not, which stores the result
\* as completed first.
SetResult ==
    /\ thread = "working"
    /\ \/ /\ thread' = "succeeded"
          /\ Write([Last EXCEPT !.status = "completed", !.result = "success"])
       \/ /\ thread' = "failing"
          /\ Write([Last EXCEPT !.status = "completed", !.result = "all failed"])
    /\ UNCHANGED <<local, cancelled, keyLost>>

\* After that, or after an exception in the pipeline.
SetFailed ==
    /\ thread \in {"working", "failing"}
    /\ thread' = "failed"
    /\ Write([Last EXCEPT !.status = "failed"])
    /\ UNCHANGED <<local, cancelled, keyLost>>

\* The process dies, or Redis refuses the last write.
ThreadDies ==
    /\ thread \in {"working", "failing"}
    /\ thread' = "failed"
    /\ UNCHANGED <<key, keyAge, local, cancelled, keyLost>>

\* Redis restarts without the key, or evicts it.
LoseKey ==
    /\ key # {}
    /\ key' = {}
    /\ keyLost' = TRUE
    /\ UNCHANGED <<thread, keyAge, local, cancelled>>

-----------------------------------------------------------------------------
(* The worker: submission and polling.                                     *)

End(how) == phase' = "ended" /\ outcome' = how

\* An interval passes for the key, which expires when untouched for too long.
Age ==
    IF key = {} \/ keyAge + 1 >= JobTtl
    THEN key' = {} /\ keyAge' = 0
    ELSE keyAge' = keyAge + 1 /\ UNCHANGED key

CancelJob ==
    /\ ~cancelled
    /\ cancelled' = TRUE
    /\ UNCHANGED <<remote, local, keyLost>>

\* The request may reach the pipeline or not; its answer comes later.
SubmitIngestion ==
    /\ phase = "queued"
    /\ IF cancelled THEN End("cancelled") /\ UNCHANGED remote
       ELSE \/ /\ phase' = "submitted"
               /\ thread' = "working"
               /\ Write([status |-> "pending", stage |-> 0, result |-> "none"])
               /\ UNCHANGED outcome
            \/ End("raised") /\ UNCHANGED remote
    /\ UNCHANGED <<seen, unchanged, elapsed, failures, cancelled, keyLost>>

\* Without an answer in time the worker gives up on a job it has no id of.
SubmitAnswered ==
    /\ phase = "submitted"
    /\ \/ phase' = "check" /\ UNCHANGED outcome
       \/ End("raised")
    /\ UNCHANGED <<remote, seen, unchanged, elapsed, failures, cancelled, keyLost>>

CheckAndSleep ==
    /\ phase = "check"
    /\ IF elapsed > AbsoluteTimeout
       THEN End("timeout") /\ UNCHANGED <<key, keyAge, elapsed, unchanged>>
       ELSE IF cancelled
       THEN End("cancelled") /\ UNCHANGED <<key, keyAge, elapsed, unchanged>>
       ELSE /\ phase' = "poll" /\ UNCHANGED outcome
            /\ Age
            /\ elapsed' = elapsed + 1
            /\ unchanged' = unchanged + 1
    /\ UNCHANGED <<thread, seen, failures, cancelled, keyLost>>

\* Mutant of PollFails: one failure more is tolerated.
PollFailsOnceMore ==
    /\ phase = "poll"
    /\ \/ /\ failures + 1 > MaxPollFailures
          /\ End("lost connection") /\ UNCHANGED failures
       \/ /\ failures + 1 <= MaxPollFailures
          /\ failures' = failures + 1
          /\ phase' = "check" /\ UNCHANGED outcome
    /\ UNCHANGED <<remote, seen, unchanged, elapsed, cancelled, keyLost>>

\* A failed poll goes round the loop without a look at the staleness.
PollFails ==
    /\ phase = "poll"
    /\ \/ /\ failures + 1 >= MaxPollFailures
          /\ End("lost connection") /\ UNCHANGED failures
       \/ /\ failures + 1 < MaxPollFailures
          /\ failures' = failures + 1
          /\ phase' = "check" /\ UNCHANGED outcome
    /\ UNCHANGED <<remote, seen, unchanged, elapsed, cancelled, keyLost>>

Snapshot == IF key = {} THEN {<<"missing", 0>>} ELSE {<<k.status, k.stage>> : k \in key}

\* Mutant of Unchanged: every answer counts as a sign of life.
UnchangedSincePoll == 0

\* The intervals without a change, once this poll is counted.
Unchanged == IF Snapshot = seen THEN unchanged ELSE 0

PollJob ==
    /\ phase = "poll"
    /\ failures' = 0
    /\ seen' = Snapshot
    /\ unchanged' = Unchanged
    /\ IF Unchanged > StaleTimeout THEN End("stale")
       ELSE IF key = {} THEN End("not found")
       ELSE \E k \in key :
               \/ k.status = "failed" /\ End("failed")
               \/ k.status = "completed" /\ phase' = "result" /\ UNCHANGED outcome
               \/ k.status \in {"pending", "running"} /\ phase' = "check" /\ UNCHANGED outcome
    /\ UNCHANGED <<remote, elapsed, cancelled, keyLost>>

\* Mutant of FetchResult: a completed job is taken for a success.
FetchResultTrusted ==
    /\ phase = "result"
    /\ \/ \E k \in key : End(IF k.status = "completed" THEN "success" ELSE "failed")
       \/ key = {} /\ End("not found")
    /\ UNCHANGED <<remote, seen, unchanged, elapsed, failures, cancelled, keyLost>>

\* The result decides; a key that goes between the two reads of the endpoint
\* leaves None where a result should be, which raises.
FetchResult ==
    /\ phase = "result"
    /\ \/ \E k \in key : End(IF k.result = "success" THEN "success" ELSE "failed")
       \/ key = {} /\ \E how \in {"not found", "raised"} : End(how)
    /\ UNCHANGED <<remote, seen, unchanged, elapsed, failures, cancelled, keyLost>>

\* Mutant of FetchFails: the attempts start over after the last.
FetchFailsForever ==
    /\ phase = "result"
    /\ failures' = (failures + 1) % ResultAttempts
    /\ Age
    /\ UNCHANGED <<thread, phase, seen, unchanged, elapsed, outcome, cancelled, keyLost>>

FetchFails ==
    /\ phase = "result"
    /\ \/ /\ failures + 1 = ResultAttempts
          /\ End("unfetched")
          /\ UNCHANGED <<key, keyAge, failures>>
       \/ /\ failures + 1 < ResultAttempts
          /\ failures' = failures + 1
          /\ Age
          /\ UNCHANGED <<phase, outcome>>
    /\ UNCHANGED <<thread, seen, unchanged, elapsed, cancelled, keyLost>>

-----------------------------------------------------------------------------

Worker ==
    \/ SubmitIngestion \/ SubmitAnswered \/ CheckAndSleep
    \/ PollJob \/ PollFails \/ FetchResult \/ FetchFails

Environment == CancelJob \/ LoseKey \/ ThreadDies

Next == Worker \/ Progress \/ SetResult \/ SetFailed \/ Environment

\* The worker's loop runs on.  Nothing is asked of the thread, which may hang
\* in a conversion, nor of the network.
Fairness == WF_vars(Worker)

Spec == Init /\ [][Next]_vars /\ Fairness

-----------------------------------------------------------------------------
(* Properties.                                                             *)

\* A job whose key Redis kept is never reported as not found: the staleness
\* timeout ends the wait before the key of a silent job expires, however the
\* failed polls fall.
NeverMissed == outcome = "not found" => keyLost

\* The mapping: a thread that is busy runs, and the wait reports as it ends.
Pipeline == IF thread \in {"working", "failing"} THEN "running" ELSE thread
Reported == IF phase # "ended" THEN "none"
            ELSE IF outcome = "success" THEN "success" ELSE "failure"

\* The wait keeps the promise of ingest_files: it reports once, and a success
\* only of a pipeline that succeeded.
Promise == INSTANCE IngestionPromise WITH pipeline <- Pipeline, reported <- Reported
KeepsPromise == Promise!Spec

\* Whatever hangs, dies or disappears, every wait ends.
WaitEnds == Promise!Ends

=============================================================================
