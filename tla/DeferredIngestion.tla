-------------------------- MODULE DeferredIngestion --------------------------
(***************************************************************************)
(* The metadata phase of a reindex, at the granularity of the database.    *)
(* trigger_reindex asks for a metadata sync of every Moodle datasource of  *)
(* the KB and parks the ingestion payload on the job row with the list of  *)
(* datasources it waits for; the handler of each metadata outcome takes    *)
(* its datasource off the lists, and the one that empties a list fires the *)
(* payload.  IngestionJobs has this as one atomic FireDeferred.            *)
(*                                                                         *)
(* The handlers run in different processes under READ COMMITTED and lock   *)
(* no row: each keeps the copy of input_params its session loaded, and the *)
(* session forgets its copies at each commit (expire_on_commit).           *)
(***************************************************************************)
EXTENDS Naturals, FiniteSets

CONSTANTS
    Jobs,          \* ingestion jobs, each of some KB
    Datasources,   \* Moodle datasources; a datasource may serve several KBs
    Linked,        \* the datasources of each job's KB
    Handlers,      \* concurrent handlers of metadata outcomes
    MaxFaults,     \* bound: failures in a behaviour
    MaxSyncs       \* bound: metadata syncs that users and schedules ask for

ASSUME DeferredAssumption ==
    /\ Linked \in [Jobs -> SUBSET Datasources]
    /\ MaxFaults \in Nat
    /\ MaxSyncs \in Nat

VARIABLES
    status,      \* Job.status
    waiting,     \* input_params.deferred_ingestion: {} when nothing is parked
    trigger,     \* per job, the request that created it
    due,         \* per datasource, metadata syncs whose outcome is to be handled
    handler,     \* per handler, where it is and what its session holds
    fired,       \* per job, times its payload was published
    heard,       \* history: per job, its datasources that had an outcome since
    slipped,     \* history: per job, what kept its list from being exact
    syncs,       \* metadata syncs asked for by others so far
    faults       \* failures so far

rows == <<status, waiting>>
vars == <<rows, trigger, due, handler, fired, heard, slipped, syncs, faults>>

Statuses == {"absent", "pending", "failed", "cancelled", "ended"}
Slips == {"early", "lost", "overwritten", "popLost"}
Triggers == [stage : {"none", "publish", "done"},
             todo : SUBSET Datasources, published : SUBSET Datasources]
HandlerStates == [stage : {"idle", "loop", "fire"}, datasource : SUBSET Datasources,
                  job : SUBSET Jobs, todo : SUBSET Jobs, fresh : SUBSET Jobs,
                  copy : [Jobs -> SUBSET Datasources]]
Idle == [stage |-> "idle", datasource |-> {}, job |-> {}, todo |-> {}, fresh |-> {},
         copy |-> [j \in Jobs |-> {}]]

TypeOK ==
    /\ status \in [Jobs -> Statuses]
    /\ waiting \in [Jobs -> SUBSET Datasources]
    /\ trigger \in [Jobs -> Triggers]
    /\ due \in [Datasources -> Nat]
    /\ handler \in [Handlers -> HandlerStates]
    /\ fired \in [Jobs -> Nat]
    /\ heard \in [Jobs -> SUBSET Datasources]
    /\ slipped \in [Jobs -> SUBSET Slips]
    /\ syncs \in 0 .. MaxSyncs
    /\ faults \in 0 .. MaxFaults

Init ==
    /\ status = [j \in Jobs |-> "absent"]
    /\ waiting = [j \in Jobs |-> {}]
    /\ trigger = [j \in Jobs |-> [stage |-> "none", todo |-> {}, published |-> {}]]
    /\ due = [d \in Datasources |-> 0]
    /\ handler = [h \in Handlers |-> Idle]
    /\ fired = [j \in Jobs |-> 0]
    /\ heard = [j \in Jobs |-> {}]
    /\ slipped = [j \in Jobs |-> {}]
    /\ syncs = 0
    /\ faults = 0

Fault == faults < MaxFaults /\ faults' = faults + 1

Slip(who, how) == slipped' = [j \in Jobs |-> slipped[j] \cup {x \in {how} : j \in who}]

Pending == {j \in Jobs : status[j] = "pending"}

\* fail_job leaves a cancelled row alone.
Failed(j) == IF status[j] = "cancelled" THEN status ELSE [status EXCEPT ![j] = "failed"]

More(count, x) == [count EXCEPT ![x] = @ + 1]

-----------------------------------------------------------------------------
(* trigger_reindex.                                                        *)

CreateJob(j) ==
    /\ status[j] = "absent"
    /\ status' = [status EXCEPT ![j] = "pending"]
    /\ trigger' = [trigger EXCEPT ![j] = [stage |-> "publish", todo |-> Linked[j], published |-> {}]]
    /\ UNCHANGED <<waiting, due, handler, fired, heard, slipped, syncs, faults>>

\* An outcome that is still being handled counts: its handler may load the job
\* after it is parked.
BeingHandled(d) == {d} \cap UNION {handler[h].datasource : h \in Handlers}

\* A publish that raises may have reached the broker; its datasource is left
\* out of the waiting list.
PublishMetadata(j, d) ==
    /\ trigger[j].stage = "publish"
    /\ d \in trigger[j].todo
    /\ \/ /\ trigger' = [trigger EXCEPT ![j].todo = @ \ {d}, ![j].published = @ \cup {d}]
          /\ due' = More(due, d)
          /\ heard' = [heard EXCEPT ![j] = @ \cup BeingHandled(d)]
          /\ UNCHANGED faults
       \/ /\ Fault
          /\ trigger' = [trigger EXCEPT ![j].todo = @ \ {d}]
          /\ due' \in {due, More(due, d)}
          /\ UNCHANGED heard
    /\ UNCHANGED <<rows, handler, fired, slipped, syncs>>

\* The payload is parked behind what was published, if anything was.
Park(j) ==
    /\ trigger[j].stage = "publish"
    /\ trigger[j].todo = {}
    /\ trigger[j].published # {}
    /\ waiting' = [waiting EXCEPT ![j] = trigger[j].published]
    /\ trigger' = [trigger EXCEPT ![j].stage = "done"]
    /\ UNCHANGED <<status, due, handler, fired, heard, slipped, syncs, faults>>

FireNow(j) ==
    /\ trigger[j].stage = "publish"
    /\ trigger[j].todo = {}
    /\ trigger[j].published = {}
    /\ trigger' = [trigger EXCEPT ![j].stage = "done"]
    /\ \/ fired' = More(fired, j) /\ UNCHANGED <<status, faults>>
       \/ Fault /\ fired' \in {fired, More(fired, j)} /\ status' = Failed(j)
    /\ UNCHANGED <<waiting, due, handler, heard, slipped, syncs>>

TriggerDies(j) ==
    /\ trigger[j].stage = "publish"
    /\ Fault
    /\ trigger' = [trigger EXCEPT ![j].stage = "done"]
    /\ UNCHANGED <<rows, due, handler, fired, heard, slipped, syncs>>

-----------------------------------------------------------------------------
(* Metadata syncs and the other writers of job rows.                       *)

\* trigger_metadata_sync, for a user or a schedule.
Resync(d) ==
    /\ syncs < MaxSyncs
    /\ syncs' = syncs + 1
    /\ due' = More(due, d)
    /\ UNCHANGED <<rows, trigger, handler, fired, heard, slipped, faults>>

\* The worker acknowledged the message and died with it.
LoseSync(d) ==
    /\ due[d] > 0
    /\ Fault
    /\ due' = [due EXCEPT ![d] = @ - 1]
    /\ Slip({j \in Jobs : d \in trigger[j].published}, "lost")
    /\ UNCHANGED <<rows, trigger, handler, fired, heard, syncs>>

\* Outcomes, cancellations and sweeps (IngestionJobs has them in full); only a
\* worker reports a failure.
EndJob(j) ==
    /\ status[j] = "pending"
    /\ \E st \in {"failed", "cancelled", "ended"} :
          /\ st = "failed" => fired[j] > 0
          /\ status' = [status EXCEPT ![j] = st]
    /\ UNCHANGED <<waiting, trigger, due, handler, fired, heard, slipped, syncs, faults>>

\* monitoring.retry_job.
RetryJob(j) ==
    /\ status[j] = "failed"
    /\ status' = [status EXCEPT ![j] = "pending"]
    /\ UNCHANGED <<waiting, trigger, due, handler, fired, heard, slipped, syncs, faults>>

-----------------------------------------------------------------------------
(* _maybe_fire_deferred_ingestion.                                         *)

\* The select loads every pending job.  The outcome is early for a job whose
\* request has published this sync and has not parked the payload yet.
Select(h, d) ==
    /\ handler[h].stage = "idle"
    /\ due[d] > 0
    /\ due' = [due EXCEPT ![d] = @ - 1]
    /\ handler' = [handler EXCEPT ![h] =
          [stage |-> "loop", datasource |-> {d}, job |-> {}, todo |-> Pending, fresh |-> Pending,
           copy |-> [j \in Jobs |-> IF j \in Pending THEN waiting[j] ELSE {}]]]
    /\ heard' = [j \in Jobs |-> heard[j] \cup ({d} \cap trigger[j].published)]
    /\ Slip({j \in Jobs : trigger[j].stage = "publish" /\ d \in trigger[j].published}, "early")
    /\ UNCHANGED <<rows, trigger, fired, syncs, faults>>

Looping(h, j) == handler[h].stage = "loop" /\ j \in handler[h].todo

\* After a commit the session loads each job again when the loop gets to it; the
\* status that the select filtered on is not looked at again.
Reload(h, j) ==
    /\ Looping(h, j)
    /\ handler[h].todo \cap handler[h].fresh = {}
    /\ handler' = [handler EXCEPT ![h].fresh = {j}, ![h].copy[j] = waiting[j]]
    /\ UNCHANGED <<rows, trigger, due, fired, heard, slipped, syncs, faults>>

\* Not parked, or not behind this datasource.
Pass(h, j) ==
    /\ Looping(h, j)
    /\ j \in handler[h].fresh
    /\ handler[h].datasource \cap handler[h].copy[j] = {}
    /\ handler' = [handler EXCEPT ![h].todo = @ \ {j}]
    /\ UNCHANGED <<rows, trigger, due, fired, heard, slipped, syncs, faults>>

\* What the handler's copy of the list comes to without its datasource.
Rest(h, j) == handler[h].copy[j] \ handler[h].datasource

MayAdvance(h, j) ==
    /\ Looping(h, j)
    /\ j \in handler[h].fresh
    /\ handler[h].datasource \cap handler[h].copy[j] # {}

\* The list has changed since the session loaded it, and is about to be overwritten.
SlipIfStale(h, j) == Slip({j} \cap {k \in Jobs : handler[h].copy[k] # waiting[k]}, "overwritten")

\* Mutant of Decrement: the list is not written back.
DecrementNotSaved(h, j) ==
    /\ MayAdvance(h, j)
    /\ Rest(h, j) # {}
    /\ handler' = [handler EXCEPT ![h].todo = @ \ {j}, ![h].fresh = {}]
    /\ SlipIfStale(h, j)
    /\ UNCHANGED <<rows, trigger, due, fired, heard, syncs, faults>>

Decrement(h, j) ==
    /\ MayAdvance(h, j)
    /\ Rest(h, j) # {}
    /\ waiting' = [waiting EXCEPT ![j] = Rest(h, j)]
    /\ handler' = [handler EXCEPT ![h].todo = @ \ {j}, ![h].fresh = {}]
    /\ SlipIfStale(h, j)
    /\ UNCHANGED <<status, trigger, due, fired, heard, syncs, faults>>

\* Mutants of Pop: the first outcome fires; the payload stays on the row.
PopAtFirst(h, j) ==
    /\ MayAdvance(h, j)
    /\ waiting' = [waiting EXCEPT ![j] = {}]
    /\ handler' = [handler EXCEPT ![h].todo = @ \ {j}, ![h].fresh = {},
                                  ![h].stage = "fire", ![h].job = {j}]
    /\ SlipIfStale(h, j)
    /\ UNCHANGED <<status, trigger, due, fired, heard, syncs, faults>>

PopNotSaved(h, j) ==
    /\ MayAdvance(h, j)
    /\ Rest(h, j) = {}
    /\ handler' = [handler EXCEPT ![h].todo = @ \ {j}, ![h].fresh = {},
                                  ![h].stage = "fire", ![h].job = {j}]
    /\ SlipIfStale(h, j)
    /\ UNCHANGED <<rows, trigger, due, fired, heard, syncs, faults>>

\* All metadata syncs in: the payload leaves the row before it is published.
Pop(h, j) ==
    /\ MayAdvance(h, j)
    /\ Rest(h, j) = {}
    /\ waiting' = [waiting EXCEPT ![j] = {}]
    /\ handler' = [handler EXCEPT ![h].todo = @ \ {j}, ![h].fresh = {},
                                  ![h].stage = "fire", ![h].job = {j}]
    /\ SlipIfStale(h, j)
    /\ UNCHANGED <<status, trigger, due, fired, heard, syncs, faults>>

Fire(h) ==
    /\ handler[h].stage = "fire"
    /\ handler' = [handler EXCEPT ![h].stage = "loop", ![h].job = {}]
    /\ \E j \in handler[h].job :
          \/ fired' = More(fired, j) /\ UNCHANGED <<status, faults>>
          \/ Fault /\ fired' \in {fired, More(fired, j)} /\ status' = Failed(j)
    /\ UNCHANGED <<waiting, trigger, due, heard, slipped, syncs>>

Return(h) ==
    /\ handler[h].stage = "loop"
    /\ handler[h].todo = {}
    /\ handler' = [handler EXCEPT ![h] = Idle]
    /\ UNCHANGED <<rows, trigger, due, fired, heard, slipped, syncs, faults>>

\* The process dies before it acknowledges the outcome, which is delivered again;
\* a payload it has popped and not published is lost.
HandlerDies(h) ==
    /\ handler[h].stage \in {"loop", "fire"}
    /\ Fault
    /\ handler' = [handler EXCEPT ![h] = Idle]
    /\ \E d \in handler[h].datasource : due' = More(due, d)
    /\ Slip(handler[h].job, "popLost")
    /\ UNCHANGED <<rows, trigger, fired, heard, syncs>>

-----------------------------------------------------------------------------

TriggerStep(j) == (\E d \in Datasources : PublishMetadata(j, d)) \/ Park(j) \/ FireNow(j)

HandlerStep(h) ==
    \/ \E j \in Jobs : Reload(h, j) \/ Pass(h, j) \/ Decrement(h, j) \/ Pop(h, j)
    \/ Fire(h)
    \/ Return(h)

Next ==
    \/ \E j \in Jobs : CreateJob(j) \/ TriggerStep(j) \/ TriggerDies(j) \/ EndJob(j) \/ RetryJob(j)
    \/ \E d \in Datasources : Resync(d) \/ LoseSync(d) \/ (\E h \in Handlers : Select(h, d))
    \/ \E h \in Handlers : HandlerStep(h) \/ HandlerDies(h)

Spec == Init /\ [][Next]_vars

\* A request runs on, a metadata sync ends, its outcome is consumed.  Nobody has
\* to end a job.
Fairness ==
    /\ \A j \in Jobs : WF_vars(TriggerStep(j))
    /\ WF_vars(\E h \in Handlers, d \in Datasources : Select(h, d))
    /\ \A h \in Handlers : WF_vars(HandlerStep(h))

FairSpec == Spec /\ Fairness

-----------------------------------------------------------------------------
(* Properties.                                                             *)

\* "defer ingestion behind metadata refresh" (indexing_service.py:151): however
\* the handlers overwrite each other's lists, no payload leaves its row before
\* every datasource it was parked behind had an outcome handled since.
FiredAfterAll ==
    \A j \in Jobs : fired[j] > 0 => trigger[j].published \subseteq heard[j]

\* "the last one fires the parked payload onto the ingestion queue"
\* (workers.py:155-156): one handler does, once, unless another one's list was
\* overwritten: no job is ingested twice.
FiredOnce == \A j \in Jobs : fired[j] <= 1 \/ "overwritten" \in slipped[j]

\* "Each metadata-sync completion (or failure) decrements the waiting list; the
\* last one fires the parked payload" (workers.py:154-156): a parked job is fired
\* unless it ends first, whatever else fails, but for the four slips: an outcome
\* before the list it should come off, an outcome that never comes, an overwritten
\* list, and a death between the pop and the publish.
ParkedIsFired ==
    \A j \in Jobs :
       waiting[j] # {} ~> (fired[j] > 0 \/ status[j] # "pending" \/ slipped[j] # {})

=============================================================================
