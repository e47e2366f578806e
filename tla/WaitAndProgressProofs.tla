------------------------- MODULE WaitAndProgressProofs -------------------------
(***************************************************************************)
(* Proofs about what the worker learns of a job and what it tells.         *)
(*                                                                         *)
(* The wait for an ingestion (IngestionWait): it is well typed, a key that *)
(* Redis keeps is never missed, and the wait implements IngestionPromise,  *)
(* for any timeouts that leave the room WaitAssumption asks for.           *)
(*                                                                         *)
(* The progress of a job (JobProgress): its counters agree with its rows   *)
(* and never exceed all files, for any files, subscribers and faults.      *)
(***************************************************************************)
EXTENDS IngestionWait, JobProgress, FiniteSetTheorems, WellFoundedInduction, TLAPS

-----------------------------------------------------------------------------
(* The wait for an ingestion.                                              *)

\* 1 between the sleep and the poll it ends in.
Slept == IF phase = "poll" THEN 1 ELSE 0

\* While the worker polls, it has looked at a live key recently enough: what it
\* has seen is not stale but for the failed polls since, a key it has not seen
\* is younger than those polls, and one it has seen is not much older than the
\* time the worker counts.
Fresh ==
    phase \in {"check", "poll"} =>
        /\ unchanged <= StaleTimeout + failures + Slept
        /\ key # {} /\ Snapshot # seen => keyAge <= failures + Slept
        /\ key # {} /\ Snapshot = seen => keyAge <= unchanged + MaxPollFailures

\* Between the end of the job and its result, only the attempts age the key.
FreshResult ==
    phase = "result" =>
        /\ failures < ResultAttempts
        /\ key # {} => keyAge <= StaleTimeout + MaxPollFailures + failures

Begun ==
    /\ phase = "queued" => thread = "none" /\ key = {}
    /\ phase \in {"queued", "submitted"} =>
          /\ unchanged = 0 /\ failures = 0 /\ elapsed = 0 /\ keyAge = 0
    /\ phase # "ended" /\ phase # "queued" /\ key = {} => keyLost

Inv == TypeOK /\ Fresh /\ FreshResult /\ Begun /\ NeverMissed

LEMMA InitInv == Init => Inv
  <1> SUFFICES ASSUME Init PROVE Inv
    OBVIOUS
  <1>1. keyAge \in 0 .. JobTtl - 1 /\ elapsed \in 0 .. AbsoluteTimeout + 1
    BY WaitAssumption DEF Init
  <1>2. TypeOK
    BY <1>1 DEF Init, TypeOK, Threads, Phases
  <1>3. Fresh /\ FreshResult /\ Begun /\ NeverMissed
    BY DEF Init, Fresh, FreshResult, Begun, NeverMissed
  <1> QED
    BY <1>2, <1>3 DEF Inv

\* Every key has one of the snapshots it is compared by.
LEMMA SnapshotOfKey ==
    ASSUME TypeOK, NEW k \in key
    PROVE  /\ key = {k}
           /\ Snapshot = {<<k.status, k.stage>>}
           /\ k \in Keys
  <1>1. key = {k} /\ k \in Keys
    BY DEF TypeOK
  <1> QED
    BY <1>1 DEF Snapshot

LEMMA SnapshotType ==
    ASSUME TypeOK
    PROVE  Snapshot \subseteq ({"missing"} \cup Statuses) \X (0 .. MaxStage)
  <1>1. CASE key = {}
    BY <1>1, WaitAssumption DEF Snapshot
  <1>2. ASSUME NEW k \in key
        PROVE  Snapshot \subseteq ({"missing"} \cup Statuses) \X (0 .. MaxStage)
    <2>1. k.status \in Statuses /\ k.stage \in 0 .. MaxStage
      BY <1>2, SnapshotOfKey DEF Keys
    <2> QED
      BY <1>2, <2>1, SnapshotOfKey
  <1> QED
    BY <1>1, <1>2

\* Ageing leaves alone a key that is young enough.
LEMMA AgeOfYoung ==
    ASSUME TypeOK, Age, key # {} => keyAge + 1 < JobTtl
    PROVE  /\ UNCHANGED key
           /\ key # {} => keyAge' = keyAge + 1
           /\ keyAge' \in 0 .. JobTtl - 1
  <1>1. keyAge \in 0 .. JobTtl - 1
    BY DEF TypeOK
  <1>2. CASE key = {}
    BY <1>1, <1>2, WaitAssumption DEF Age
  <1>3. CASE key # {}
    BY <1>1, <1>3, WaitAssumption DEF Age
  <1> QED
    BY <1>2, <1>3

LEMMA LastIsARecord ==
    ASSUME TypeOK
    PROVE  Last \in Keys /\ (key # {} => Last \in key)
  <1>1. CASE key = {}
    BY <1>1, WaitAssumption DEF Last, Keys, Statuses
  <1>2. CASE key # {}
    BY <1>2 DEF Last, TypeOK
  <1> QED
    BY <1>1, <1>2

\* Writing the key makes it as young as can be.
LEMMA WriteInv ==
    ASSUME Inv, NEW record \in Keys, Write(record),
           thread' \in Threads, thread # "none",
           UNCHANGED <<local, cancelled, keyLost>>
    PROVE  Inv'
  <1> USE WaitAssumption DEF Inv, Write, local
  <1>1. TypeOK'
    BY DEF TypeOK
  <1>2. Fresh'
    BY DEF Fresh, TypeOK, Slept
  <1>3. FreshResult'
    BY DEF FreshResult, TypeOK
  <1>4. Begun'
    BY DEF Begun
  <1>5. NeverMissed'
    BY DEF NeverMissed
  <1> QED
    BY <1>1, <1>2, <1>3, <1>4, <1>5

LEMMA StepInv == Inv /\ [Next]_vars => Inv'
  <1> SUFFICES ASSUME Inv, [Next]_vars PROVE Inv'
    OBVIOUS
  <1> USE WaitAssumption
  <1>1. CASE SubmitIngestion
    <2>0. [status |-> "pending", stage |-> 0, result |-> "none"] \in Keys
      BY DEF Keys, Statuses
    <2>1. TypeOK'
      <3>1. CASE Write([status |-> "pending", stage |-> 0, result |-> "none"])
                 /\ thread' = "working" /\ phase' = "submitted" /\ UNCHANGED outcome
        <4>1. keyAge' \in 0 .. JobTtl - 1 /\ key' \in SUBSET Keys /\ \A a, b \in key' : a = b
          BY <3>1, <2>0 DEF Write
        <4> QED
          BY <1>1, <3>1, <4>1 DEF SubmitIngestion, Inv, TypeOK, Threads, Phases
      <3>2. CASE UNCHANGED remote /\ \E how \in {"cancelled", "raised"} : End(how)
        BY <1>1, <3>2 DEF SubmitIngestion, Inv, TypeOK, End, remote, Phases, Failures
      <3> QED
        BY <1>1, <3>1, <3>2 DEF SubmitIngestion
    <2>2. Fresh' /\ FreshResult'
      BY <1>1 DEF SubmitIngestion, End, Fresh, FreshResult, Inv, TypeOK
    <2>3. Begun' /\ NeverMissed'
      BY <1>1 DEF SubmitIngestion, End, Write, remote, Begun, NeverMissed, Inv, TypeOK
    <2> QED
      BY <2>1, <2>2, <2>3 DEF Inv
  <1>2. CASE SubmitAnswered
    <2>1. phase = "submitted" /\ failures = 0 /\ failures < MaxPollFailures
      BY <1>2 DEF SubmitAnswered, Inv, Begun, ResultAttempts
    <2>2. TypeOK'
      <3>1. CASE phase' = "check" /\ UNCHANGED outcome
        BY <1>2, <2>1, <3>1 DEF SubmitAnswered, Inv, TypeOK, remote, Phases
      <3>2. CASE End("raised")
        BY <1>2, <2>1, <3>2 DEF SubmitAnswered, Inv, TypeOK, End, remote, Phases, Failures
      <3> QED
        BY <1>2, <3>1, <3>2 DEF SubmitAnswered
    <2>3. Fresh'
      BY <1>2, <2>1 DEF SubmitAnswered, End, remote, Fresh, Inv, TypeOK, Begun, Slept
    <2>4. FreshResult' /\ Begun' /\ NeverMissed'
      BY <1>2 DEF SubmitAnswered, End, remote, FreshResult, Begun, NeverMissed, Inv, TypeOK
    <2> QED
      BY <2>2, <2>3, <2>4 DEF Inv
  <1>3. CASE CheckAndSleep
    <2>1. CASE UNCHANGED <<key, keyAge, elapsed, unchanged>>
               /\ \E how \in {"timeout", "cancelled"} : End(how)
      BY <1>3, <2>1 DEF CheckAndSleep, End, Inv, TypeOK, Phases, Failures, Fresh,
         FreshResult, Begun, NeverMissed
    <2>2. CASE /\ elapsed <= AbsoluteTimeout
               /\ phase' = "poll" /\ UNCHANGED outcome
               /\ Age /\ elapsed' = elapsed + 1 /\ unchanged' = unchanged + 1
      <3>0. phase = "check" /\ UNCHANGED <<thread, seen, failures, cancelled, keyLost>>
        BY <1>3 DEF CheckAndSleep
      <3>1. key # {} => keyAge + 1 < JobTtl
        BY <3>0 DEF Inv, Fresh, TypeOK, Slept
      <3>2. /\ UNCHANGED key
            /\ key # {} => keyAge' = keyAge + 1
            /\ keyAge' \in 0 .. JobTtl - 1
        BY <2>2, <3>1, AgeOfYoung DEF Inv
      <3>3. TypeOK'
        BY <2>2, <3>0, <3>2 DEF Inv, TypeOK, Phases
      <3>4. Fresh'
        BY <2>2, <3>0, <3>2 DEF Inv, Fresh, TypeOK, Slept, Snapshot
      <3>5. FreshResult' /\ Begun' /\ NeverMissed'
        BY <2>2, <3>0, <3>2 DEF Inv, FreshResult, Begun, NeverMissed, TypeOK
      <3> QED
        BY <3>3, <3>4, <3>5 DEF Inv
    <2> QED
      BY <1>3, <2>1, <2>2 DEF CheckAndSleep, Inv, TypeOK
  <1>4. CASE PollJob
    <2>0. phase = "poll" /\ UNCHANGED <<remote, elapsed, cancelled, keyLost>>
      BY <1>4 DEF PollJob
    <2>1. CASE outcome' # "none"
      <3>1. phase' = "ended" /\ outcome' \in {"stale", "not found", "failed"}
        BY <1>4, <2>0, <2>1 DEF PollJob, End, Inv, TypeOK
      <3>2. outcome' = "not found" => key = {}
        BY <1>4, <2>0, <2>1 DEF PollJob, End, Inv, TypeOK
      <3>3. seen' = Snapshot /\ unchanged' \in Nat /\ failures' = 0
        BY <1>4 DEF PollJob, Unchanged, Inv, TypeOK
      <3>4. Snapshot \subseteq ({"missing"} \cup Statuses) \X (0 .. MaxStage)
        BY SnapshotType DEF Inv
      <3>5. TypeOK'
        BY <2>0, <3>1, <3>3, <3>4 DEF Inv, TypeOK, remote, Phases, Failures
      <3>6. Fresh' /\ FreshResult' /\ Begun' /\ NeverMissed'
        BY <2>0, <3>1, <3>2 DEF Inv, Fresh, FreshResult, Begun, NeverMissed, remote
      <3> QED
        BY <3>5, <3>6 DEF Inv
    <2>2. CASE outcome' = "none"
      <3>1. /\ phase' \in {"check", "result"}
            /\ seen' = Snapshot /\ unchanged' = Unchanged /\ failures' = 0
            /\ Unchanged <= StaleTimeout
            /\ key # {}
        BY <1>4, <2>2 DEF PollJob, End, Inv, TypeOK, Unchanged
      <3>2. Snapshot \subseteq ({"missing"} \cup Statuses) \X (0 .. MaxStage)
        BY SnapshotType DEF Inv
      <3>3. Unchanged \in Nat
        BY DEF Unchanged, Inv, TypeOK
      <3>4. keyAge <= Unchanged + MaxPollFailures
        <4>1. CASE Snapshot = seen
          BY <2>0, <3>1, <4>1 DEF Inv, Fresh, Unchanged
        <4>2. CASE Snapshot # seen
          BY <2>0, <3>1, <4>2 DEF Inv, Fresh, Unchanged, Slept, TypeOK
        <4> QED
          BY <4>1, <4>2
      <3>5. Snapshot' = Snapshot
        BY <2>0 DEF Snapshot, remote
      <3>6. TypeOK'
        BY <2>0, <2>2, <3>1, <3>2, <3>3 DEF Inv, TypeOK, remote, Phases, ResultAttempts
      <3>7. Fresh'
        BY <2>0, <3>1, <3>3, <3>4, <3>5 DEF Inv, TypeOK, Fresh, remote, Slept
      <3>8. FreshResult'
        BY <2>0, <3>1, <3>3, <3>4 DEF Inv, TypeOK, FreshResult, remote, ResultAttempts
      <3>9. Begun' /\ NeverMissed'
        BY <2>0, <2>2, <3>1 DEF Inv, Begun, NeverMissed, remote
      <3> QED
        BY <3>6, <3>7, <3>8, <3>9 DEF Inv
    <2> QED
      BY <2>1, <2>2
  <1>5. CASE PollFails
    <2>0. phase = "poll" /\ UNCHANGED <<remote, seen, unchanged, elapsed, cancelled, keyLost>>
      BY <1>5 DEF PollFails
    <2>1. CASE End("lost connection") /\ UNCHANGED failures
      BY <2>0, <2>1 DEF Inv, TypeOK, Fresh, FreshResult, Begun, NeverMissed, End, remote,
         Phases, Failures
    <2>2. CASE /\ failures + 1 < MaxPollFailures /\ failures' = failures + 1
               /\ phase' = "check" /\ UNCHANGED outcome
      <3>1. TypeOK'
        BY <2>0, <2>2 DEF Inv, TypeOK, remote, Phases
      <3>2. Fresh'
        BY <2>0, <2>2 DEF Inv, TypeOK, Fresh, remote, Slept, Snapshot
      <3>3. FreshResult' /\ Begun' /\ NeverMissed'
        BY <2>0, <2>2 DEF Inv, TypeOK, FreshResult, Begun, NeverMissed, remote
      <3> QED
        BY <3>1, <3>2, <3>3 DEF Inv
    <2> QED
      BY <1>5, <2>1, <2>2 DEF PollFails
  <1>6. CASE FetchResult
    <2>1. /\ phase' = "ended" /\ outcome' \in {"success", "failed", "not found", "raised"}
          /\ outcome' = "not found" => key = {}
      BY <1>6 DEF FetchResult, End
    <2>2. TypeOK'
      BY <1>6, <2>1 DEF FetchResult, Inv, TypeOK, remote, Phases, Failures
    <2>3. Fresh' /\ FreshResult' /\ Begun' /\ NeverMissed'
      BY <1>6, <2>1 DEF FetchResult, Inv, Fresh, FreshResult, Begun, NeverMissed, remote
    <2> QED
      BY <2>2, <2>3 DEF Inv
  <1>7. CASE FetchFails
    <2>0. phase = "result" /\ UNCHANGED <<thread, seen, unchanged, elapsed, cancelled, keyLost>>
      BY <1>7 DEF FetchFails
    <2>1. CASE End("unfetched") /\ UNCHANGED <<key, keyAge, failures>>
      BY <2>0, <2>1 DEF End, Inv, TypeOK, Phases, Failures, Fresh, FreshResult, Begun,
         NeverMissed
    <2>2. CASE /\ failures + 1 < ResultAttempts /\ failures' = failures + 1
               /\ Age /\ UNCHANGED <<phase, outcome>>
      <3>1. key # {} => keyAge + 1 < JobTtl
        BY <2>0, <2>2 DEF Inv, FreshResult, TypeOK, ResultAttempts
      <3>2. /\ UNCHANGED key
            /\ key # {} => keyAge' = keyAge + 1
            /\ keyAge' \in 0 .. JobTtl - 1
        BY <2>2, <3>1, AgeOfYoung DEF Inv
      <3>3. TypeOK'
        BY <2>0, <2>2, <3>2 DEF Inv, TypeOK
      <3>4. FreshResult'
        BY <2>0, <2>2, <3>2 DEF Inv, FreshResult, TypeOK, ResultAttempts
      <3>5. Fresh' /\ Begun' /\ NeverMissed'
        BY <2>0, <2>2, <3>2 DEF Inv, Fresh, Begun, NeverMissed
      <3> QED
        BY <3>3, <3>4, <3>5 DEF Inv
    <2> QED
      BY <1>7, <2>1, <2>2 DEF FetchFails
  <1>8. CASE Progress
    <2>1. CASE key = {} /\ UNCHANGED <<key, keyAge>>
      BY <1>8, <2>1 DEF Progress, Inv, TypeOK, local, Fresh, FreshResult, Begun, NeverMissed,
         Slept, Snapshot
    <2>2. ASSUME NEW k \in key, NEW more \in {0, 1}, k.stage + more <= MaxStage,
                 Write([k EXCEPT !.status = "running", !.stage = @ + more])
          PROVE  Inv'
      <3>1. [k EXCEPT !.status = "running", !.stage = @ + more] \in Keys
        <4>1. k \in Keys /\ k.stage \in 0 .. MaxStage
          BY <2>2, SnapshotOfKey DEF Inv, Keys
        <4>2. k.stage + more \in 0 .. MaxStage
          BY <2>2, <4>1
        <4> QED
          BY <4>1, <4>2 DEF Keys, Statuses
      <3>2. thread # "none" /\ thread' \in Threads
        BY <1>8 DEF Progress, Inv, TypeOK
      <3> QED
        BY <1>8, <2>2, <3>1, <3>2, WriteInv DEF Progress
    <2> QED
      BY <1>8, <2>1, <2>2 DEF Progress
  <1>9. CASE SetResult
    <2>1. Last \in Keys
      BY LastIsARecord DEF Inv
    <2>2. /\ [Last EXCEPT !.status = "completed", !.result = "success"] \in Keys
          /\ [Last EXCEPT !.status = "completed", !.result = "all failed"] \in Keys
      BY <2>1 DEF Keys, Statuses
    <2>3. thread # "none" /\ thread' \in Threads
      BY <1>9 DEF SetResult, Threads
    <2> QED
      BY <1>9, <2>2, <2>3, WriteInv DEF SetResult
  <1>10. CASE SetFailed
    <2>1. Last \in Keys
      BY LastIsARecord DEF Inv
    <2>2. [Last EXCEPT !.status = "failed"] \in Keys
      BY <2>1 DEF Keys, Statuses
    <2>3. thread # "none" /\ thread' \in Threads
      BY <1>10 DEF SetFailed, Threads
    <2> QED
      BY <1>10, <2>2, <2>3, WriteInv DEF SetFailed
  <1>11. CASE ThreadDies
    BY <1>11 DEF ThreadDies, Inv, TypeOK, local, Threads, Fresh, FreshResult, Begun,
       NeverMissed, Slept, Snapshot
  <1>12. CASE LoseKey
    BY <1>12 DEF LoseKey, Inv, TypeOK, local, Fresh, FreshResult, Begun, NeverMissed, Slept
  <1>13. CASE CancelJob
    BY <1>13 DEF CancelJob, Inv, TypeOK, local, remote, Fresh, FreshResult, Begun,
       NeverMissed, Slept, Snapshot
  <1>14. CASE UNCHANGED vars
    BY <1>14 DEF vars, Inv, TypeOK, local, remote, Fresh, FreshResult, Begun,
       NeverMissed, Slept, Snapshot
  <1> QED
    BY <1>1, <1>2, <1>3, <1>4, <1>5, <1>6, <1>7, <1>8, <1>9, <1>10, <1>11, <1>12, <1>13,
       <1>14 DEF Next, Worker, Environment

\* Every reachable state of a wait is well typed, and neither its clock nor its
\* failed polls exceed their limits, whatever the limits are.
THEOREM WaitTypeCorrect == Spec => []TypeOK
  <1>1. Inv => TypeOK
    BY DEF Inv
  <1> QED
    BY InitInv, StepInv, <1>1, PTL DEF Spec

\* For all timeouts that leave room for two series of failed polls, the worker
\* never takes a job for lost whose key Redis kept.
THEOREM NeverMissedCorrect == Spec => []NeverMissed
  <1>1. Inv => NeverMissed
    BY DEF Inv
  <1> QED
    BY InitInv, StepInv, <1>1, PTL DEF Spec

-----------------------------------------------------------------------------

\* Only a thread that succeeded leaves a success to read.
Honest == \A k \in key : k.result = "success" => thread = "succeeded"

LEMMA HonestInit == Init => Honest
  BY DEF Init, Honest

LEMMA HonestStep == Inv /\ Honest /\ [Next]_vars => Honest'
  <1> SUFFICES ASSUME Inv, Honest, [Next]_vars PROVE Honest'
    OBVIOUS
  <1>1. CASE SubmitIngestion
    BY <1>1 DEF SubmitIngestion, Honest, Write, remote
  <1>2. CASE key' \subseteq key /\ UNCHANGED thread
    BY <1>2 DEF Honest
  <1>3. CASE SubmitAnswered \/ CheckAndSleep \/ PollJob \/ PollFails \/ FetchResult \/ FetchFails
             \/ CancelJob \/ LoseKey \/ UNCHANGED vars
    <2>1. key' \subseteq key /\ UNCHANGED thread
      BY <1>3 DEF SubmitAnswered, CheckAndSleep, PollJob, PollFails, FetchResult, FetchFails,
         CancelJob, LoseKey, Age, vars, remote
    <2> QED
      BY <2>1, <1>2
  <1>4. CASE ThreadDies
    BY <1>4 DEF ThreadDies, Honest
  <1>5. CASE Progress
    <2>1. CASE UNCHANGED <<key, keyAge>>
      BY <1>5, <2>1 DEF Progress, Honest
    <2>2. ASSUME NEW k \in key, NEW more \in {0, 1},
                 Write([k EXCEPT !.status = "running", !.stage = @ + more])
          PROVE  Honest'
      BY <1>5, <2>2 DEF Progress, Honest, Write, Inv, TypeOK, Keys
    <2> QED
      BY <1>5, <2>1, <2>2 DEF Progress
  <1>6. CASE SetResult
    <2>1. Last \in Keys
      BY LastIsARecord DEF Inv
    <2> QED
      BY <1>6, <2>1 DEF SetResult, Honest, Write, Keys
  <1>7. CASE SetFailed
    <2>1. Last \in Keys /\ (key # {} => Last \in key)
      BY LastIsARecord DEF Inv
    <2>2. Last.result # "success"
      <3>1. CASE key = {}
        BY <3>1 DEF Last
      <3>2. CASE key # {}
        BY <1>7, <2>1, <3>2 DEF SetFailed, Honest
      <3> QED
        BY <3>1, <3>2
    <2> QED
      BY <1>7, <2>1, <2>2 DEF SetFailed, Honest, Write, Keys
  <1> QED
    BY <1>1, <1>3, <1>4, <1>5, <1>6, <1>7 DEF Next, Worker, Environment

LEMMA PromiseStep ==
    ASSUME Inv, Honest, [Next]_vars
    PROVE  [Promise!Next]_<<Pipeline, Reported>>
  <1> USE DEF Promise!Next
  <1>1. CASE SubmitIngestion
    <2>1. phase = "queued" /\ thread = "none"
      BY <1>1 DEF SubmitIngestion, Inv, Begun
    <2>2. CASE phase' = "submitted" /\ thread' = "working"
      <3>1. /\ Pipeline = "none" /\ Pipeline' = "running"
            /\ Reported = "none" /\ Reported' = "none"
        BY <2>1, <2>2 DEF Pipeline, Reported
      <3> QED
        BY <3>1 DEF Promise!Start
    <2>3. CASE phase' = "ended" /\ outcome' \in Failures /\ UNCHANGED thread
      <3>1. Reported = "none" /\ Reported' = "failure" /\ UNCHANGED Pipeline
        BY <2>1, <2>3 DEF Pipeline, Reported, Failures
      <3> QED
        BY <3>1 DEF Promise!Report
    <2> QED
      BY <1>1, <2>2, <2>3 DEF SubmitIngestion, End, remote, Failures
  <1>2. CASE /\ phase # "ended" /\ phase' = "ended" /\ UNCHANGED thread
             /\ outcome' = "success" => thread = "succeeded"
    <2>0. Reported = "none" /\ UNCHANGED Pipeline
      BY <1>2 DEF Pipeline, Reported
    <2>1. CASE outcome' = "success"
      <3>1. Reported' = "success" /\ Pipeline = "succeeded"
        BY <1>2, <2>1 DEF Pipeline, Reported
      <3> QED
        BY <2>0, <3>1 DEF Promise!Report
    <2>2. CASE outcome' # "success"
      <3>1. Reported' = "failure"
        BY <1>2, <2>2 DEF Reported
      <3> QED
        BY <2>0, <3>1 DEF Promise!Report
    <2> QED
      BY <2>1, <2>2
  <1>3. CASE phase # "ended" /\ phase' # "ended" /\ UNCHANGED thread
    BY <1>3 DEF Pipeline, Reported
  <1>4. CASE SubmitAnswered \/ CheckAndSleep \/ PollJob \/ PollFails \/ FetchFails
    <2>1. phase # "ended" /\ UNCHANGED thread
      BY <1>4 DEF SubmitAnswered, CheckAndSleep, PollJob, PollFails, FetchFails, remote
    <2>2. phase' = "ended" => outcome' # "success"
      BY <1>4 DEF SubmitAnswered, CheckAndSleep, PollJob, PollFails, FetchFails, End
    <2> QED
      BY <2>1, <2>2, <1>2, <1>3
  <1>5. CASE FetchResult
    <2>1. phase = "result" /\ phase' = "ended" /\ UNCHANGED thread
      BY <1>5 DEF FetchResult, End, remote
    <2>2. outcome' = "success" => thread = "succeeded"
      BY <1>5 DEF FetchResult, End, Honest
    <2> QED
      BY <2>1, <2>2, <1>2
  <1>6. CASE /\ thread \in {"working", "failing"}
             /\ thread' \in {"succeeded", "failed"}
             /\ UNCHANGED local
    <2>1. /\ Pipeline = "running" /\ Pipeline' \in {"succeeded", "failed"}
          /\ UNCHANGED Reported
      BY <1>6 DEF Pipeline, Reported, local
    <2> QED
      BY <2>1 DEF Promise!Finish
  <1>7. CASE SetResult \/ SetFailed \/ ThreadDies
    <2>1. CASE thread' \in {"succeeded", "failed"}
      BY <1>6, <1>7, <2>1 DEF SetResult, SetFailed, ThreadDies
    <2>2. CASE thread = "working" /\ thread' = "failing" /\ UNCHANGED local
      BY <2>2 DEF local, Pipeline, Reported
    <2> QED
      BY <1>7, <2>1, <2>2 DEF SetResult, SetFailed, ThreadDies
  <1>8. CASE Progress \/ CancelJob \/ LoseKey \/ UNCHANGED vars
    BY <1>8 DEF Progress, CancelJob, LoseKey, vars, local, remote, Pipeline, Reported
  <1> QED
    BY <1>1, <1>4, <1>5, <1>7, <1>8 DEF Next, Worker, Environment

\* The wait implements the promise of ingest_files for all timeouts: it reports
\* once, and a success only of a pipeline that succeeded.
THEOREM PromiseKept == Spec => KeepsPromise
  <1>1. Init => Promise!Init
    BY DEF Init, Promise!Init, Pipeline, Reported
  <1> QED
    BY <1>1, InitInv, StepInv, HonestInit, HonestStep, PromiseStep, PTL
       DEF Spec, KeepsPromise, Promise!Spec

-----------------------------------------------------------------------------
(* The progress of a job.                                                  *)

\* The messages that may still be applied, and all that is reported of a file.
Unapplied == queue \union {handler[h].msg : h \in {g \in Subscribers : handler[g] # Idle}}

Report(f, n, s) == [file |-> f, number |-> n, state |-> s]

Reports ==
    {Report(m.file, m.number, m.state) : m \in {u \in Unapplied : u.file # None}}
        \union {Report(f, latest[f], row[f]) : f \in RowsOf(row)}

\* A file that is done stays done: a report of it that is not overtaken says so.
DoneIsLast ==
    \A a \in Reports :
        /\ a.number <= sent
        /\ a.state \in DoneStates =>
              /\ file[a.file] \in DoneStates
              /\ \A b \in Reports :
                    b.file = a.file /\ b.number >= a.number => b.state \in DoneStates

\* What a handler has loaded was stored, and nothing takes back a finished file.
LoadsAreOld ==
    ~overtaken => \A h \in Subscribers : handler[h].current <= job.current

\* The one total that is declared is that of all files, of which a job never
\* counts more.
TotalsAgree ==
    /\ \A m \in Unapplied : m.file = None => m.total = Cardinality(Files)
    /\ job.current <= Cardinality(Files)

BusyHandlers == \A h \in Subscribers : handler[h] # Idle => handler[h].msg # None

ProgressInv ==
    /\ ProgressTypeOK /\ BusyHandlers
    /\ DoneIsLast /\ LoadsAreOld /\ TotalsAgree
    /\ CountsMatchRows
    /\ ~stale => job.current <= job.total

LEMMA CountsAreNumbers ==
    ASSUME NEW rows
    PROVE  /\ Cardinality(Files) \in Nat
           /\ Cardinality(DoneOf(rows)) \in Nat
           /\ Cardinality(DoneOf(rows)) <= Cardinality(Files)
           /\ IsFiniteSet(DoneOf(rows))
  <1>1. DoneOf(rows) \subseteq Files
    BY DEF DoneOf
  <1> QED
    BY <1>1, FilesAreFinite, FS_Subset, FS_CardinalityType

\* A row that is done is a row.
LEMMA DoneAreRows ==
    ASSUME NEW rows
    PROVE  /\ Cardinality(RowsOf(rows)) \in Nat
           /\ Cardinality(DoneOf(rows)) <= Cardinality(RowsOf(rows))
  <1>1. None \notin DoneStates
    BY NoneIsNothing DEF DoneStates, FileStates
  <1>2. DoneOf(rows) \subseteq RowsOf(rows) /\ RowsOf(rows) \subseteq Files
    BY <1>1 DEF DoneOf, RowsOf
  <1> QED
    BY <1>2, FilesAreFinite, FS_Subset, FS_CardinalityType

LEMMA ProgressInitInv == ProgressInit => ProgressInv
  <1> SUFFICES ASSUME ProgressInit PROVE ProgressInv
    OBVIOUS
  <1> USE DEF ProgressInit
  <1>1. ProgressTypeOK
    BY DEF ProgressTypeOK, FileStates, Idle
  <1>2. Unapplied = {} /\ RowsOf(row) = {} /\ Reports = {}
    BY DEF Unapplied, RowsOf, Reports
  <1>3. DoneOf(row) = {}
    BY NoneIsNothing DEF DoneOf, DoneStates, FileStates
  <1>4. Cardinality(DoneOf(row)) = 0
    BY <1>3, FS_EmptySet
  <1>5. BusyHandlers /\ DoneIsLast
    BY <1>2 DEF BusyHandlers, DoneIsLast
  <1>6. LoadsAreOld /\ TotalsAgree /\ CountsMatchRows
    BY <1>2, <1>4, CountsAreNumbers DEF LoadsAreOld, TotalsAgree, CountsMatchRows, Idle
  <1> QED
    BY <1>1, <1>5, <1>6 DEF ProgressInv

LEMMA UnappliedType ==
    ASSUME ProgressTypeOK, BusyHandlers
    PROVE  Unapplied \subseteq Message
  <1> USE DEF ProgressTypeOK, BusyHandlers
  <1>1. ASSUME NEW h \in Subscribers, handler[h] # Idle
        PROVE  handler[h].msg \in Message
    BY <1>1
  <1> QED
    BY <1>1 DEF Unapplied

\* No report is new, so the worker's last word on each file stands.
LEMMA OldReports ==
    ASSUME DoneIsLast, Reports' \subseteq Reports, UNCHANGED <<file, sent>>
    PROVE  DoneIsLast'
  BY DEF DoneIsLast

-----------------------------------------------------------------------------
(* The worker publishes.                                                   *)

\* What Publish leaves to show, whichever message it is.
LEMMA PublishInv ==
    ASSUME ProgressInv,
           NEW total \in Nat \union {None}, NEW f \in Files \union {None},
           NEW s \in FileStates,
           f = None => total = Cardinality(Files),
           Publish(total, f, s),
           f # None => file[f] \notin DoneStates /\ file' = [file EXCEPT ![f] = s],
           f = None => UNCHANGED file,
           stage' \in {"collect", "compare", "prepare", "done", "cancelled"}
    PROVE  ProgressInv'
  <1> DEFINE m == [number |-> sent + 1, total |-> total, file |-> f, state |-> s]
  <1> USE DEF ProgressInv
  <1>1. sent \in Nat /\ sent' = sent + 1 /\ UNCHANGED <<rowVars, handler, deaths>>
    BY DEF Publish, ProgressTypeOK
  <1>2. m \in Message
    BY <1>1 DEF Message
  <1>3. queue' \subseteq queue \union {m} /\ lost' \in Nat
    BY DEF Publish, ProgressTypeOK
  <1>4. file' \in [Files -> FileStates]
    BY DEF ProgressTypeOK
  <1>5. ProgressTypeOK' /\ BusyHandlers'
    <2>1. queue' \subseteq Message
      BY <1>2, <1>3 DEF ProgressTypeOK
    <2> QED
      BY <1>1, <1>3, <1>4, <2>1 DEF ProgressTypeOK, BusyHandlers, rowVars
  <1>6. Unapplied' \subseteq Unapplied \union {m}
    BY <1>1, <1>3 DEF Unapplied
  <1>7. TotalsAgree'
    BY <1>1, <1>6 DEF TotalsAgree, rowVars
  <1>8. Reports' \subseteq Reports \union {Report(f, sent + 1, s)}
    BY <1>1, <1>6 DEF Reports, rowVars, RowsOf
  <1>9. f = None => Reports' \subseteq Reports
    BY <1>1, <1>6 DEF Reports, rowVars, RowsOf
  <1>10. \A a \in Reports : a.number \in Nat /\ a.file \in Files
    <2>1. \A u \in Unapplied : u.number \in Nat /\ (u.file # None => u.file \in Files)
      BY UnappliedType DEF Message
    <2>2. \A g \in Files : latest[g] \in Nat
      BY DEF ProgressTypeOK
    <2> QED
      BY <2>1, <2>2 DEF Reports, Report, RowsOf
  <1>11. DoneIsLast'
    <2> SUFFICES ASSUME NEW a \in Reports'
                 PROVE  /\ a.number <= sent'
                        /\ a.state \in DoneStates =>
                              /\ file'[a.file] \in DoneStates
                              /\ \A b \in Reports' :
                                    b.file = a.file /\ b.number >= a.number
                                        => b.state \in DoneStates
      BY DEF DoneIsLast
    <2>1. CASE f = None
      BY <1>1, <1>9, <1>10, <2>1 DEF DoneIsLast
    <2>2. CASE f # None
      <3>1. CASE a \in Reports
        <4>1. a.number <= sent /\ a.number \in Nat
          BY <1>10, <3>1 DEF DoneIsLast
        <4>2. ASSUME a.state \in DoneStates
              PROVE  a.file # f /\ file'[a.file] = file[a.file]
                     /\ file[a.file] \in DoneStates
          BY <1>10, <2>2, <3>1, <4>2 DEF DoneIsLast, ProgressTypeOK
        <4>3. ASSUME a.state \in DoneStates, NEW b \in Reports',
                     b.file = a.file, b.number >= a.number
              PROVE  b.state \in DoneStates
          <5>1. b \in Reports
            BY <1>8, <4>2, <4>3 DEF Report
          <5> QED
            BY <3>1, <4>3, <5>1 DEF DoneIsLast
        <4> QED
          BY <1>1, <4>1, <4>2, <4>3
      <3>2. CASE a = Report(f, sent + 1, s)
        <4>1. a.number = sent' /\ a.file = f /\ a.state = s /\ file'[f] = s
          BY <1>1, <2>2, <3>2 DEF Report, ProgressTypeOK
        <4>2. ASSUME NEW b \in Reports', b.number >= a.number
              PROVE  b.state = s
          <5>1. b \notin Reports
            BY <1>1, <1>10, <4>1, <4>2 DEF DoneIsLast
          <5> QED
            BY <1>8, <5>1 DEF Report
        <4> QED
          BY <1>1, <4>1, <4>2
      <3> QED
        BY <1>8, <3>1, <3>2
    <2> QED
      BY <2>1, <2>2
  <1>12. LoadsAreOld' /\ CountsMatchRows' /\ (~stale' => job'.current <= job'.total)
    BY <1>1 DEF LoadsAreOld, CountsMatchRows, rowVars, DoneOf
  <1> QED
    BY <1>5, <1>7, <1>11, <1>12

LEMMA EntersInv ==
    ASSUME ProgressInv, NEW f \in Files, NEW s \in FileStates, Enters(f, s),
           file[f] \notin DoneStates,
           stage' \in {"collect", "compare", "prepare", "done", "cancelled"}
    PROVE  ProgressInv'
  <1>1. f # None
    BY NoneIsNothing
  <1> QED
    BY <1>1, PublishInv DEF Enters

LEMMA WorkerStepInv ==
    ASSUME ProgressInv, WorkerStep
    PROVE  ProgressInv'
  <1> USE DEF FileStates, DoneStates
  <1>0. stage \in {"collect", "compare", "prepare", "done", "cancelled"}
    BY DEF ProgressInv, ProgressTypeOK
  <1>1. CASE Collect
    <2>1. Cardinality(Files) \in Nat
      BY CountsAreNumbers
    <2> QED
      BY <1>1, <2>1, PublishInv DEF Collect
  <1>2. CASE CancelBetween \/ Finish
    <2>1. UNCHANGED <<file, sent, rowVars, queue, handler, lost, deaths>>
          /\ stage' \in {"cancelled", "done"}
      BY <1>2 DEF CancelBetween, Finish
    <2>2. Unapplied' = Unapplied /\ Reports' = Reports
      BY <2>1 DEF Unapplied, Reports, rowVars, RowsOf
    <2>3. ProgressTypeOK' /\ BusyHandlers' /\ LoadsAreOld' /\ TotalsAgree'
      BY <2>1, <2>2 DEF ProgressInv, ProgressTypeOK, BusyHandlers, LoadsAreOld,
                        TotalsAgree, rowVars
    <2>4. DoneIsLast'
      BY <2>1, <2>2, OldReports DEF ProgressInv
    <2> QED
      BY <2>1, <2>3, <2>4 DEF ProgressInv, CountsMatchRows, rowVars, DoneOf
  <1>3. ASSUME NEW f \in Files, SkipUnchanged(f) PROVE ProgressInv'
    BY <1>0, <1>3, EntersInv DEF SkipUnchanged
  <1>4. ASSUME NEW f \in Files, StartDownload(f) PROVE ProgressInv'
    BY <1>4, EntersInv DEF StartDownload
  <1>5. ASSUME NEW f \in Files, FinishDownload(f) PROVE ProgressInv'
    BY <1>0, <1>5, EntersInv DEF FinishDownload
  <1>6. ASSUME NEW f \in Files, StartIngest(f) PROVE ProgressInv'
    BY <1>0, <1>6, EntersInv DEF StartIngest
  <1>7. ASSUME NEW f \in Files, FinishIngest(f) PROVE ProgressInv'
    BY <1>0, <1>7, EntersInv DEF FinishIngest
  <1>8. ASSUME NEW f \in Files, CancelDuring(f) PROVE ProgressInv'
    BY <1>8, EntersInv DEF CancelDuring
  <1> QED
    BY <1>1, <1>2, <1>3, <1>4, <1>5, <1>6, <1>7, <1>8 DEF WorkerStep

-----------------------------------------------------------------------------
(* A subscriber applies a message.                                         *)

\* What applying the message of a handler keeps, beside the messages.
LEMMA ApplyKeeps ==
    ASSUME ProgressInv, NEW h \in Subscribers, handler[h] # Idle, ApplyUpdate(h)
    PROVE  /\ job' \in [total : Nat, current : Nat]
           /\ row' \in [Files -> FileStates \union {None}]
           /\ latest' \in [Files -> Nat]
           /\ overtaken' \in BOOLEAN /\ stale' \in BOOLEAN
           /\ {Report(f, latest'[f], row'[f]) : f \in RowsOf(row')} \subseteq Reports
           /\ job'.current <= Cardinality(Files)
           /\ ~stale' => job'.current <= job'.total
           /\ ~overtaken' => /\ ~overtaken
                             /\ job.current <= job'.current
                             /\ job'.current = Cardinality(DoneOf(row'))
  <1> DEFINE m == handler[h].msg
             loaded == handler[h]
  <1> USE DEF ProgressInv
  <1>1. /\ m \in Unapplied /\ m \in Message
        /\ loaded.total \in Nat /\ loaded.current \in Nat
        /\ ~overtaken => loaded.current <= job.current
    <2>1. m \in Unapplied
      BY DEF Unapplied
    <2>2. m \in Message
      BY <2>1, UnappliedType
    <2> QED
      BY <2>1, <2>2 DEF ProgressTypeOK, LoadsAreOld
  <1>2. Cardinality(Files) \in Nat
    BY CountsAreNumbers
  <1>3. /\ job = [total |-> job.total, current |-> job.current]
        /\ job.total \in Nat /\ job.current \in Nat
        /\ row \in [Files -> FileStates \union {None}]
        /\ latest \in [Files -> Nat]
        /\ overtaken \in BOOLEAN /\ stale \in BOOLEAN
    BY DEF ProgressTypeOK
  <1>4. CASE m.file = None
    <2>1. ApplyTotal(m, loaded) /\ m.total = Cardinality(Files)
      BY <1>1, <1>4 DEF ApplyUpdate, TotalsAgree
    <2>2. UNCHANGED <<row, latest, overtaken, stale>>
      BY <2>1 DEF ApplyTotal
    <2>3. /\ job'.current = job.current
          /\ job'.total \in {job.total, Cardinality(Files)}
          /\ job' \in [total : Nat, current : Nat]
      BY <1>2, <1>3, <2>1 DEF ApplyTotal, Written
    <2>4. {Report(f, latest'[f], row'[f]) : f \in RowsOf(row')} \subseteq Reports
      BY <2>2 DEF Reports, RowsOf
    <2>5. job'.current <= Cardinality(Files) /\ (~stale' => job'.current <= job'.total)
      BY <1>2, <1>3, <2>2, <2>3 DEF TotalsAgree
    <2>6. ~overtaken' => /\ ~overtaken
                         /\ job.current <= job'.current
                         /\ job'.current = Cardinality(DoneOf(row'))
      BY <1>3, <2>2, <2>3 DEF CountsMatchRows
    <2> QED
      BY <1>3, <2>2, <2>3, <2>4, <2>5, <2>6
  <1>5. CASE m.file # None
    <2> DEFINE f == m.file
               rows == [row EXCEPT ![f] = m.state]
               count == Cardinality(RowsOf(rows))
               larger == IF loaded.total >= count THEN loaded.total ELSE count
               done == Cardinality(DoneOf(rows))
    <2>1. f \in Files /\ m.number \in Nat /\ m.state \in FileStates
      BY <1>1, <1>5 DEF Message
    <2>2. /\ row' = rows
          /\ job' = [total |-> Written(larger, loaded.total, job.total),
                     current |-> Written(done, loaded.current, job.current)]
          /\ latest' = [latest EXCEPT ![f] = m.number]
          /\ overtaken' = (overtaken \/ m.number < latest[f])
          /\ stale' = (stale \/ loaded.total # job.total)
      BY <1>5 DEF ApplyUpdate, UpsertFile
    <2>3. /\ count \in Nat /\ done \in Nat /\ done <= count
          /\ done <= Cardinality(Files)
      BY CountsAreNumbers, DoneAreRows
    <2>4. larger \in Nat /\ larger >= count /\ larger >= loaded.total
      BY <1>1, <2>3
    <2>5. /\ job'.total = (IF larger = loaded.total THEN job.total ELSE larger)
          /\ job'.current = (IF done = loaded.current THEN job.current ELSE done)
          /\ job' \in [total : Nat, current : Nat]
      BY <1>3, <2>2, <2>3, <2>4 DEF Written
    <2>6. rows \in [Files -> FileStates \union {None}]
      BY <1>3, <2>1
    <2>7. {Report(g, latest'[g], row'[g]) : g \in RowsOf(row')} \subseteq Reports
      <3> SUFFICES ASSUME NEW g \in RowsOf(row')
                   PROVE  Report(g, latest'[g], row'[g]) \in Reports
        OBVIOUS
      <3>1. CASE g = f
        <4>1. Report(f, m.number, m.state) \in Reports
          BY <1>1, <1>5 DEF Reports
        <4> QED
          BY <1>3, <2>1, <2>2, <3>1, <4>1
      <3>2. CASE g # f
        <4>1. g \in RowsOf(row) /\ row'[g] = row[g] /\ latest'[g] = latest[g]
          BY <1>3, <2>1, <2>2, <3>2 DEF RowsOf
        <4> QED
          BY <4>1 DEF Reports
      <3> QED
        BY <3>1, <3>2
    <2>8. job'.current <= Cardinality(Files) /\ (~stale' => job'.current <= job'.total)
      <3>1. job'.current <= Cardinality(Files)
        BY <1>2, <1>3, <2>3, <2>5 DEF TotalsAgree
      <3>2. ASSUME ~stale' PROVE job'.current <= job'.total
        <4>1. ~stale /\ loaded.total = job.total
          BY <1>3, <2>2, <3>2
        <4>2. job.current <= job.total
          BY <4>1
        <4> QED
          BY <1>1, <1>3, <2>3, <2>4, <2>5, <4>1, <4>2
      <3> QED
        BY <3>1, <3>2
    <2>9. ASSUME ~overtaken'
          PROVE  /\ ~overtaken
                 /\ job.current <= job'.current
                 /\ job'.current = Cardinality(DoneOf(row'))
      <3>1. ~overtaken /\ ~(m.number < latest[f]) /\ latest[f] \in Nat
        BY <1>3, <2>1, <2>2, <2>9
      <3>2. DoneOf(row) \subseteq DoneOf(rows)
        <4> SUFFICES ASSUME NEW g \in DoneOf(row) PROVE g \in DoneOf(rows)
          OBVIOUS
        <4>1. CASE g # f
          BY <1>3, <4>1 DEF DoneOf
        <4>2. CASE g = f
          <5>1. row[f] \in DoneStates /\ f \in RowsOf(row)
            BY <2>1, <4>2, NoneIsNothing DEF DoneOf, RowsOf, DoneStates, FileStates
          <5>2. /\ Report(f, latest[f], row[f]) \in Reports
                /\ Report(f, m.number, m.state) \in Reports
            BY <1>1, <1>5, <5>1 DEF Reports
          <5>3. m.state \in DoneStates
            BY <2>1, <3>1, <5>1, <5>2 DEF DoneIsLast, Report
          <5> QED
            BY <1>3, <2>1, <4>2, <5>3 DEF DoneOf
        <4> QED
          BY <4>1, <4>2
      <3>3. Cardinality(DoneOf(row)) <= done
        BY <3>2, CountsAreNumbers, FS_Subset
      <3>4. job.current = Cardinality(DoneOf(row)) /\ loaded.current <= job.current
        BY <1>1, <3>1 DEF CountsMatchRows
      <3>5. job'.current = done
        BY <1>1, <1>3, <2>3, <2>5, <3>3, <3>4
      <3> QED
        BY <2>2, <3>1, <3>3, <3>4, <3>5
    <2> QED
      BY <1>3, <2>1, <2>2, <2>5, <2>6, <2>7, <2>8, <2>9
  <1> QED
    BY <1>4, <1>5

\* What becomes of a message once its handler is done with it.
LEMMA ReleaseInv ==
    ASSUME ProgressInv, NEW h \in Subscribers, handler[h] # Idle,
           ApplyUpdate(h) \/ UNCHANGED rowVars,
           queue' = queue \/ queue' = queue \union {handler[h].msg},
           handler' = [handler EXCEPT ![h] = Idle],
           lost' \in Nat, deaths' \in Nat, UNCHANGED workerVars
    PROVE  ProgressInv'
  <1> USE DEF ProgressInv
  <1>1. /\ job' \in [total : Nat, current : Nat]
        /\ row' \in [Files -> FileStates \union {None}]
        /\ latest' \in [Files -> Nat]
        /\ overtaken' \in BOOLEAN /\ stale' \in BOOLEAN
        /\ {Report(f, latest'[f], row'[f]) : f \in RowsOf(row')} \subseteq Reports
        /\ job'.current <= Cardinality(Files)
        /\ ~stale' => job'.current <= job'.total
        /\ ~overtaken' => /\ ~overtaken
                          /\ job.current <= job'.current
                          /\ job'.current = Cardinality(DoneOf(row'))
    <2>1. CASE ApplyUpdate(h)
      BY <2>1, ApplyKeeps
    <2>2. CASE UNCHANGED rowVars
      <3>1. {Report(f, latest'[f], row'[f]) : f \in RowsOf(row')} \subseteq Reports
        BY <2>2 DEF rowVars, Reports, RowsOf
      <3>2. CountsMatchRows => (~overtaken' => job'.current = Cardinality(DoneOf(row')))
        BY <2>2 DEF rowVars, CountsMatchRows, DoneOf
      <3> QED
        BY <2>2, <3>1, <3>2 DEF rowVars, ProgressTypeOK, TotalsAgree
    <2> QED
      BY <2>1, <2>2
  <1>2. handler[h].msg \in Unapplied
    BY DEF Unapplied
  <1>3. Unapplied' \subseteq Unapplied
    <2>1. \A g \in Subscribers : handler'[g] # Idle => g # h /\ handler'[g] = handler[g]
      BY DEF ProgressTypeOK
    <2> QED
      BY <1>2, <2>1 DEF Unapplied
  <1>4. Idle \in [msg : Message \union {None}, total : Nat, current : Nat]
    BY DEF Idle
  <1>5. ProgressTypeOK' /\ BusyHandlers'
    <2>1. queue' \subseteq Message
      BY <1>2, UnappliedType DEF ProgressTypeOK
    <2>2. handler' \in [Subscribers -> [msg : Message \union {None}, total : Nat, current : Nat]]
      BY <1>4 DEF ProgressTypeOK
    <2> QED
      BY <1>1, <2>1, <2>2 DEF ProgressTypeOK, BusyHandlers, workerVars
  <1>6. Reports' \subseteq Reports
    BY <1>1, <1>3 DEF Reports
  <1>7. DoneIsLast'
    BY <1>6, OldReports DEF workerVars
  <1>8. LoadsAreOld'
    <2> SUFFICES ASSUME ~overtaken', NEW g \in Subscribers
                 PROVE  handler'[g].current <= job'.current
      BY DEF LoadsAreOld
    <2>1. handler[g].current \in Nat /\ handler[g].current <= job.current
          /\ job.current \in Nat /\ job'.current \in Nat
      BY <1>1 DEF LoadsAreOld, ProgressTypeOK
    <2>2. handler'[g].current \in {0, handler[g].current}
      BY DEF ProgressTypeOK, Idle
    <2> QED
      BY <1>1, <2>1, <2>2
  <1>9. TotalsAgree'
    BY <1>1, <1>3 DEF TotalsAgree
  <1>10. CountsMatchRows'
    BY <1>1 DEF CountsMatchRows
  <1> QED
    BY <1>1, <1>5, <1>7, <1>8, <1>9, <1>10

\* The least-number principle, for a set.
LEMMA LeastNumber ==
    ASSUME NEW T, T \subseteq Nat, T # {}
    PROVE  \E n \in T : \A k \in T : n <= k
  <1> DEFINE R == {ss \in Nat \X Nat : ss[1] < ss[2]}
  <1>1. IsWellFoundedOn(R, Nat)
    BY NatLessThanWellFounded DEF OpToRel
  <1>2. PICK n \in T : \A k \in T : <<k, n>> \notin R
    <2> HIDE DEF R
    <2> QED
      BY <1>1, WFMin
  <1>3. ASSUME NEW k \in T PROVE n <= k
    <2>1. k \in Nat /\ n \in Nat /\ ~(<<k, n>>[1] < <<k, n>>[2])
      BY <1>2
    <2> QED
      BY <2>1
  <1> QED
    BY <1>3

\* The queue is ordered, so a queue that is not empty has an oldest message.
LEMMA OldestIsQueued ==
    ASSUME ProgressTypeOK, queue # {}
    PROVE  Oldest \in queue
  <1> DEFINE numbers == {m.number : m \in queue}
  <1>1. numbers \subseteq Nat /\ numbers # {}
    BY DEF ProgressTypeOK, Message
  <1>2. PICK n \in numbers : \A k \in numbers : n <= k
    <2> HIDE DEF numbers
    <2> QED
      BY <1>1, LeastNumber
  <1>3. PICK m \in queue : m.number = n
    BY <1>2
  <1>4. \A other \in queue : m.number <= other.number
    BY <1>2, <1>3
  <1> QED
    BY <1>4 DEF Oldest

LEMMA LoadJobInv ==
    ASSUME ProgressInv, NEW h \in Subscribers, LoadJob(h)
    PROVE  ProgressInv'
  <1> USE DEF ProgressInv
  <1>1. Oldest \in queue
    BY OldestIsQueued DEF LoadJob
  <1>2. /\ handler[h] = Idle
        /\ queue' = queue \ {Oldest}
        /\ handler' = [handler EXCEPT ![h] = [msg |-> Oldest, total |-> job.total,
                                              current |-> job.current]]
        /\ UNCHANGED <<workerVars, rowVars, lost, deaths>>
    BY DEF LoadJob
  <1>3. Oldest \in Message /\ Oldest # None
    BY <1>1, NoneIsNothing DEF ProgressTypeOK
  <1>4. job.total \in Nat /\ job.current \in Nat
    BY DEF ProgressTypeOK
  <1>5. ProgressTypeOK'
    <2>1. handler' \in [Subscribers -> [msg : Message \union {None}, total : Nat, current : Nat]]
      BY <1>2, <1>3, <1>4 DEF ProgressTypeOK
    <2> QED
      BY <1>2, <2>1 DEF ProgressTypeOK, workerVars, rowVars
  <1>6. BusyHandlers'
    BY <1>2, <1>3 DEF BusyHandlers, ProgressTypeOK
  <1>7. Unapplied' \subseteq Unapplied
    <2>1. \A g \in Subscribers : handler'[g] # Idle =>
              \/ handler'[g] = handler[g]
              \/ handler'[g].msg = Oldest
      BY <1>2 DEF ProgressTypeOK
    <2> QED
      BY <1>1, <1>2, <2>1 DEF Unapplied
  <1>8. Reports' \subseteq Reports
    BY <1>2, <1>7 DEF Reports, rowVars, RowsOf
  <1>9. DoneIsLast'
    BY <1>2, <1>8, OldReports DEF workerVars
  <1>10. LoadsAreOld'
    BY <1>2, <1>4 DEF LoadsAreOld, rowVars, ProgressTypeOK
  <1>11. TotalsAgree' /\ CountsMatchRows' /\ (~stale' => job'.current <= job'.total)
    BY <1>2, <1>7 DEF TotalsAgree, CountsMatchRows, rowVars, DoneOf
  <1> QED
    BY <1>5, <1>6, <1>9, <1>10, <1>11

LEMMA ProgressStepInv == ProgressInv /\ [ProgressNext]_progressVars => ProgressInv'
  <1> SUFFICES ASSUME ProgressInv, [ProgressNext]_progressVars PROVE ProgressInv'
    OBVIOUS
  <1>0. lost \in Nat /\ deaths \in Nat
    BY DEF ProgressInv, ProgressTypeOK
  <1>1. CASE WorkerStep
    BY <1>1, WorkerStepInv
  <1>2. ASSUME NEW h \in Subscribers, LoadJob(h) PROVE ProgressInv'
    BY <1>2, LoadJobInv
  <1>3. ASSUME NEW h \in Subscribers, Acknowledge(h) PROVE ProgressInv'
    BY <1>0, <1>3, ReleaseInv DEF Acknowledge
  <1>4. ASSUME NEW h \in Subscribers, FailUpdate(h) PROVE ProgressInv'
    <2>1. /\ handler[h] # Idle /\ UNCHANGED <<workerVars, rowVars, queue, deaths>>
          /\ lost' = lost + 1 /\ handler' = [handler EXCEPT ![h] = Idle]
      BY <1>4 DEF FailUpdate
    <2>2. lost' \in Nat /\ deaths' \in Nat
      BY <1>0, <2>1
    <2> QED
      BY <2>1, <2>2, ReleaseInv
  <1>5. ASSUME NEW h \in Subscribers, SubscriberDies(h) PROVE ProgressInv'
    <2>1. /\ handler[h] # Idle /\ UNCHANGED <<workerVars, lost>>
          /\ ApplyUpdate(h) \/ UNCHANGED rowVars
          /\ queue' = queue \union {handler[h].msg}
          /\ deaths' = deaths + 1 /\ handler' = [handler EXCEPT ![h] = Idle]
      BY <1>5 DEF SubscriberDies, Requeued
    <2>2. lost' \in Nat /\ deaths' \in Nat
      BY <1>0, <2>1
    <2> QED
      BY <2>1, <2>2, ReleaseInv
  <1>6. CASE UNCHANGED progressVars
    <2>1. Unapplied' = Unapplied /\ Reports' = Reports
      BY <1>6 DEF progressVars, rowVars, Unapplied, Reports, RowsOf
    <2>2. ProgressTypeOK' /\ BusyHandlers' /\ LoadsAreOld' /\ TotalsAgree'
      BY <1>6, <2>1 DEF ProgressInv, progressVars, workerVars, rowVars, ProgressTypeOK,
                        BusyHandlers, LoadsAreOld, TotalsAgree
    <2>3. DoneIsLast'
      BY <1>6, <2>1, OldReports DEF ProgressInv, progressVars, workerVars
    <2> QED
      BY <1>6, <2>2, <2>3 DEF ProgressInv, progressVars, rowVars, CountsMatchRows, DoneOf
  <1> QED
    BY <1>1, <1>2, <1>3, <1>4, <1>5, <1>6 DEF ProgressNext, SubscriberStep

LEMMA ProgressInvCorrect == ProgressSpec => []ProgressInv
  <1> QED
    BY ProgressInitInv, ProgressStepInv, PTL DEF ProgressSpec

\* The worker, the messages, the handlers and the rows of JobProgress keep their
\* types, for any files, subscribers and faults.
THEOREM ProgressTypeCorrect == ProgressSpec => []ProgressTypeOK
  <1>1. ProgressInv => ProgressTypeOK
    BY DEF ProgressInv
  <1> QED
    BY <1>1, ProgressInvCorrect, PTL

\* The stored count of finished files is that of the finished rows as long as no
\* message was overtaken, although update_progress writes what differs from an
\* old load.
THEOREM CountsMatchRowsCorrect == ProgressSpec => []CountsMatchRows
  <1>1. ProgressInv => CountsMatchRows
    BY DEF ProgressInv
  <1> QED
    BY <1>1, ProgressInvCorrect, PTL

LEMMA ShareOfAll ==
    ASSUME NEW c \in Nat, NEW t \in Nat, t > 0, c <= t
    PROVE  (c * 100) \div t <= 100
  <1> DEFINE q == (c * 100) \div t
  <1>1. q \in Int /\ t * q <= c * 100
    OBVIOUS
  <1>2. c * 100 <= t * 100
    OBVIOUS
  <1>3. ~(q >= 101)
    <2> SUFFICES ASSUME q >= 101 PROVE FALSE
      OBVIOUS
    <2> HIDE DEF q
    <2>1. t * q >= t * 101
      BY <1>1
    <2> QED
      BY <1>1, <1>2, <2>1
  <1> QED
    BY <1>1, <1>3

\* The stored counters never show more than all files, whichever messages are
\* lost, repeated or reordered, but for a total written from an old load.
THEOREM NeverOverfullCorrect == ProgressSpec => []NeverOverfull
  <1>1. ProgressInv => NeverOverfull
    <2> SUFFICES ASSUME ProgressInv, ~stale
                 PROVE  job.current <= job.total /\ StatusPercentage <= 100
      BY DEF NeverOverfull
    <2>1. job.current \in Nat /\ job.total \in Nat /\ job.current <= job.total
      BY DEF ProgressInv, ProgressTypeOK
    <2> QED
      BY <2>1, ShareOfAll DEF StatusPercentage
  <1> QED
    BY <1>1, ProgressInvCorrect, PTL

=============================================================================
