---------------------------- MODULE JobProgress ----------------------------
(***************************************************************************)
(* How the progress of an ingestion reaches the row of its job.            *)
(*                                                                         *)
(* The worker takes the files of a job through their states and publishes  *)
(* each change (sync/worker/src/worker.py, messaging/progress.py); a       *)
(* failure to publish is only logged.  The subscribers of the API          *)
(* processes (api_v2/routes/workers.py) take the messages off one queue    *)
(* and apply them: each loads the job, upserts the row of the file and     *)
(* recounts (repositories/job.py).  The load is an ordinary read; the      *)
(* flush of the job's progress_updated_at, before the row of the file is   *)
(* looked up, takes the lock of the job's row, so that the rest of the     *)
(* handler runs alone.  What it compares with, and therefore what it       *)
(* writes, is still what it loaded: the session writes a column only when  *)
(* its value differs from the loaded one.                                  *)
(***************************************************************************)
EXTENDS Integers, FiniteSets, FiniteSetsExt

CONSTANTS
    Files,        \* the files of the job, each with a key of its own
    Subscribers,  \* the API processes, one message at a time each
    None,         \* no message, no row, no total
    MaxFaults     \* bound on lost messages and stopped processes together

ASSUME BoundIsNumber == MaxFaults \in Nat
ASSUME FilesAreFinite == IsFiniteSet(Files)

VARIABLES
    stage,      \* where the worker is in the job
    file,       \* the state of each file, as the worker has published it
    queue,      \* job_progress_updates, ordered by the numbers of the messages
    sent,       \* number of messages the worker has published
    job,        \* the counters of the job's row
    row,        \* the JobFile row of each file
    handler,    \* the message each subscriber works on and what it loaded
    latest,     \* the number of the last message applied to each file
    lost,       \* messages never published, or that failed to apply
    deaths,     \* processes that stopped with a message unacknowledged
    overtaken,  \* a message was applied after a later one of the same file
    stale       \* a file was applied by a handler whose total was out of date

workerVars == <<stage, file, sent>>
rowVars == <<job, row, latest, overtaken, stale>>
progressVars == <<workerVars, rowVars, queue, handler, lost, deaths>>

FileStates == {"pending", "downloading", "downloaded", "ingesting",
               "ingested", "skipped", "failed"}
DoneStates == {"ingested", "skipped", "failed"}

Weight ==
    [s \in FileStates |->
        CASE s = "pending" -> 0 [] s = "downloading" -> 5
          [] s = "downloaded" -> 15 [] s = "ingesting" -> 50
          [] s \in DoneStates -> 100]

(* A message declares the total or reports the state of one file.          *)
Message == [number : Nat, total : Nat \union {None},
            file : Files \union {None}, state : FileStates]

ASSUME NoneIsNothing == None \notin Files \union FileStates \union Message

Idle == [msg |-> None, total |-> 0, current |-> 0]

ProgressInit ==
    /\ stage = "collect"
    /\ file = [f \in Files |-> "pending"]
    /\ queue = {}
    /\ sent = 0
    /\ job = [total |-> 0, current |-> 0]
    /\ row = [f \in Files |-> None]
    /\ handler = [h \in Subscribers |-> Idle]
    /\ latest = [f \in Files |-> 0]
    /\ lost = 0
    /\ deaths = 0
    /\ overtaken = FALSE
    /\ stale = FALSE

----------------------------------------------------------------------------
(* The worker.                                                             *)

(* Publishing may fail, which is logged and nothing else.                  *)
Publish(total, f, state) ==
    /\ sent' = sent + 1
    /\ \/ /\ queue' = queue \union {[number |-> sent + 1, total |-> total,
                                         file |-> f, state |-> state]}
          /\ UNCHANGED lost
       \/ /\ lost + deaths < MaxFaults
          /\ lost' = lost + 1
          /\ UNCHANGED queue
    /\ UNCHANGED <<rowVars, handler, deaths>>

Enters(f, state) ==
    /\ file' = [file EXCEPT ![f] = state]
    /\ Publish(None, f, state)

Collect ==
    /\ stage = "collect"
    /\ stage' = "compare"
    /\ Publish(Cardinality(Files), None, "pending")
    /\ UNCHANGED file

(* The files that the index already serves are skipped before any other is *)
(* touched.                                                                *)
SkipUnchanged(f) ==
    /\ stage = "compare"
    /\ file[f] = "pending"
    /\ Enters(f, "skipped")
    /\ UNCHANGED stage

StartDownload(f) ==
    /\ stage \in {"compare", "prepare"}
    /\ file[f] = "pending"
    /\ \A g \in Files : file[g] # "downloading"
    /\ stage' = "prepare"
    /\ Enters(f, "downloading")

(* A file that cannot be fetched or processed fails, and the next follows. *)
FinishDownload(f) ==
    /\ file[f] = "downloading"
    /\ \E s \in {"downloaded", "failed"} : Enters(f, s)
    /\ UNCHANGED stage

(* Ingestion starts when every file is prepared, one file after another.   *)
ReadyToIngest ==
    /\ stage \in {"compare", "prepare"}
    /\ \A g \in Files : file[g] \notin {"pending", "downloading", "ingesting"}

StartIngest(f) ==
    /\ ReadyToIngest
    /\ file[f] = "downloaded"
    /\ Enters(f, "ingesting")
    /\ UNCHANGED stage

FinishIngest(f) ==
    /\ file[f] = "ingesting"
    /\ \E s \in {"ingested", "failed"} : Enters(f, s)
    /\ UNCHANGED stage

(* A cancellation is met between two files, which stay as they are, or     *)
(* while one is ingested, which is then skipped.                           *)
CancelBetween ==
    /\ ReadyToIngest
    /\ \E f \in Files : file[f] = "downloaded"
    /\ stage' = "cancelled"
    /\ UNCHANGED <<file, sent, rowVars, queue, handler, lost, deaths>>

CancelDuring(f) ==
    /\ file[f] = "ingesting"
    /\ stage' = "cancelled"
    /\ Enters(f, "skipped")

Finish ==
    /\ stage \in {"compare", "prepare"}
    /\ \A f \in Files : file[f] \in DoneStates
    /\ stage' = "done"
    /\ UNCHANGED <<file, sent, rowVars, queue, handler, lost, deaths>>

WorkerStep ==
    \/ Collect \/ CancelBetween \/ Finish
    \/ \E f \in Files :
          \/ SkipUnchanged(f) \/ StartDownload(f) \/ FinishDownload(f)
          \/ StartIngest(f) \/ FinishIngest(f) \/ CancelDuring(f)

----------------------------------------------------------------------------
(* The subscribers.                                                        *)

Oldest == CHOOSE m \in queue : \A other \in queue : m.number <= other.number

(* A subscriber takes the oldest message and loads the job's row.          *)
LoadJob(h) ==
    /\ handler[h] = Idle
    /\ queue # {}
    /\ queue' = queue \ {Oldest}
    /\ handler' = [handler EXCEPT ![h] = [msg |-> Oldest,
                                          total |-> job.total,
                                          current |-> job.current]]
    /\ UNCHANGED <<workerVars, rowVars, lost, deaths>>

(* A column is written when its value is not the loaded one.               *)
Written(value, loaded, stored) == IF value = loaded THEN stored ELSE value

ApplyTotal(m, loaded) ==
    /\ job' = [job EXCEPT !.total = Written(m.total, loaded.total, @)]
    /\ UNCHANGED <<row, latest, overtaken, stale>>

RowsOf(rows) == {f \in Files : rows[f] # None}
DoneOf(rows) == {f \in Files : rows[f] \in DoneStates}

\* Mutant of UpsertFile: a counter that each finished file increments.
UpsertFileByIncrement(m, loaded) ==
    LET rows == [row EXCEPT ![m.file] = m.state]
        count == Cardinality(RowsOf(rows))
        larger == IF loaded.total >= count THEN loaded.total ELSE count
    IN  /\ row' = rows
        /\ job' = [total |-> Written(larger, loaded.total, job.total),
                   current |-> IF m.state \in DoneStates THEN loaded.current + 1
                                                         ELSE job.current]
        /\ latest' = [latest EXCEPT ![m.file] = m.number]
        /\ overtaken' = (overtaken \/ m.number < latest[m.file])
        /\ stale' = (stale \/ loaded.total # job.total)

\* Mutant of UpsertFile: the total is the declared one only.
UpsertFileDeclaredTotal(m, loaded) ==
    LET rows == [row EXCEPT ![m.file] = m.state]
    IN  /\ row' = rows
        /\ job' = [job EXCEPT !.current = Written(Cardinality(DoneOf(rows)),
                                                  loaded.current, job.current)]
        /\ latest' = [latest EXCEPT ![m.file] = m.number]
        /\ overtaken' = (overtaken \/ m.number < latest[m.file])
        /\ stale' = (stale \/ loaded.total # job.total)

UpsertFile(m, loaded) ==
    LET rows == [row EXCEPT ![m.file] = m.state]
        count == Cardinality(RowsOf(rows))
        larger == IF loaded.total >= count THEN loaded.total ELSE count
    IN  /\ row' = rows
        /\ job' = [total |-> Written(larger, loaded.total, job.total),
                   current |-> Written(Cardinality(DoneOf(rows)),
                                       loaded.current, job.current)]
        /\ latest' = [latest EXCEPT ![m.file] = m.number]
        /\ overtaken' = (overtaken \/ m.number < latest[m.file])
        /\ stale' = (stale \/ loaded.total # job.total)

ApplyUpdate(h) ==
    LET m == handler[h].msg
    IN  IF m.file = None THEN ApplyTotal(m, handler[h])
                         ELSE UpsertFile(m, handler[h])

Acknowledge(h) ==
    /\ handler[h] # Idle
    /\ ApplyUpdate(h)
    /\ handler' = [handler EXCEPT ![h] = Idle]
    /\ UNCHANGED <<workerVars, queue, lost, deaths>>

(* An exception in the handler is logged, and the message acknowledged.    *)
FailUpdate(h) ==
    /\ handler[h] # Idle
    /\ lost + deaths < MaxFaults
    /\ lost' = lost + 1
    /\ handler' = [handler EXCEPT ![h] = Idle]
    /\ UNCHANGED <<workerVars, rowVars, queue, deaths>>

\* Mutant of Requeued: a message is acknowledged when it is taken.
RequeuedNot(m) == queue

(* A message whose subscriber stops goes back to its place in the queue,   *)
(* whether or not the update was committed.                                *)
Requeued(m) == queue \union {m}

SubscriberDies(h) ==
    /\ handler[h] # Idle
    /\ lost + deaths < MaxFaults
    /\ deaths' = deaths + 1
    /\ queue' = Requeued(handler[h].msg)
    /\ handler' = [handler EXCEPT ![h] = Idle]
    /\ ApplyUpdate(h) \/ UNCHANGED rowVars
    /\ UNCHANGED <<workerVars, lost>>

SubscriberStep(h) == LoadJob(h) \/ Acknowledge(h)

ProgressNext ==
    \/ WorkerStep
    \/ \E h \in Subscribers :
          SubscriberStep(h) \/ FailUpdate(h) \/ SubscriberDies(h)

(* The broker delivers what is queued, and a handler that is not stopped   *)
(* finishes: eight processes subscribe, none of them waits for another but *)
(* for the lock of the row.  Nothing is assumed of the worker.             *)
ProgressFairness == \A h \in Subscribers : WF_progressVars(SubscriberStep(h))

ProgressSpec == ProgressInit /\ [][ProgressNext]_progressVars /\ ProgressFairness

----------------------------------------------------------------------------
(* What the user is shown.                                                 *)

(* get_job_status, and the lists while no file has a row: the counters.    *)
StatusPercentage ==
    IF job.total > 0 THEN (job.current * 100) \div job.total ELSE 0

(* get_weighted_progress_percentage: the rows there are, by weight.        *)
Percentage ==
    LET rows == RowsOf(row)
    IN  IF rows = {} THEN StatusPercentage
        ELSE MapThenSumSet(LAMBDA f : Weight[row[f]], rows) \div Cardinality(rows)

----------------------------------------------------------------------------
(* Type invariant: the worker, the messages, the handlers and the rows     *)
(* only take the values their code gives them.                             *)
ProgressTypeOK ==
    /\ stage \in {"collect", "compare", "prepare", "done", "cancelled"}
    /\ file \in [Files -> FileStates]
    /\ queue \subseteq Message
    /\ sent \in Nat
    /\ job \in [total : Nat, current : Nat]
    /\ row \in [Files -> FileStates \union {None}]
    /\ handler \in [Subscribers -> [msg : Message \union {None},
                                    total : Nat, current : Nat]]
    /\ latest \in [Files -> Nat]
    /\ lost \in Nat /\ deaths \in Nat
    /\ overtaken \in BOOLEAN /\ stale \in BOOLEAN

(* As long as no message of a file was overtaken by a later one of the     *)
(* same file, the finished files of the job's row are the finished rows,   *)
(* although each handler compares with what it loaded before others wrote  *)
(* (job.py _upsert_job_file recounts under the lock of the row).           *)
CountsMatchRows == ~overtaken => job.current = Cardinality(DoneOf(row))

(* The total is never below the finished files, so the stored counters     *)
(* never show more than all of them, whichever messages are lost, repeated *)
(* or reordered, unless a handler wrote a total that another had changed   *)
(* since it loaded the job (job.py: "max(declared, observed)").            *)
NeverOverfull == ~stale => job.current <= job.total /\ StatusPercentage <= 100

Full ==
    /\ \A f \in Files : row[f] = file[f]
    /\ job.current = Cardinality(Files)
    /\ job.total = Cardinality(Files)
    /\ Percentage = 100 \/ Files = {}

(* When the worker has finished, the row of the job comes to show every    *)
(* file in its last state and a full bar, unless a message was lost,       *)
(* overtaken or applied to a stale total.                                  *)
BarFills == (stage = "done") ~> (Full \/ lost > 0 \/ overtaken \/ stale)

============================================================================
