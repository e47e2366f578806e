--------------------------- MODULE ChatbotSchedules --------------------------
(***************************************************************************)
(* The scheduled reindexes of the chatbots (services/scheduler_service.py, *)
(* api_v2/routes/chatbots/jobs.py and lifecycle.py).                       *)
(*                                                                         *)
(* A schedule is a few columns of the chatbot's row.  Every API process    *)
(* has a scheduler of its own with a registry in memory.  A request that   *)
(* changes a schedule commits it and updates the registry of the process   *)
(* that serves it; the other processes learn of it when they next          *)
(* reconcile their registry with the rows.  When a time comes, every       *)
(* process that has it registered fires, and a Postgres advisory lock per  *)
(* chatbot decides who goes on.                                            *)
(*                                                                         *)
(* Time is counted in ticks of the grace time of a firing: one that was    *)
(* not handled by the next tick is dropped.  The reindex itself is the     *)
(* subject of IngestionJobs.                                               *)
(***************************************************************************)
EXTENDS Naturals, FiniteSets

CONSTANTS
    Chatbots,   \* the chatbots
    Processes,  \* the API processes
    Period,     \* ticks after which a schedule fires again
    None,       \* no time, process, rows or request
    MaxTicks,   \* bound on the ticks
    MaxEdits,   \* bound on the changes of schedules and chatbots
    MaxDeaths   \* bound on the processes that stop

ASSUME PeriodIsPositive == Period \in Nat \ {0}
ASSUME BoundsAreNumbers == MaxTicks \in Nat /\ MaxEdits \in Nat /\ MaxDeaths \in Nat
ASSUME NoneIsNothing == None \notin Processes \union (0 .. Period - 1)

VARIABLES
    row,       \* the schedule columns of each chatbot's row
    up,        \* the processes that run
    registry,  \* the time each process has registered for each chatbot
    due,       \* firings each process has not handled yet
    rows,      \* the schedules a reconciliation has read and not yet applied
    run,       \* the thread that handles a firing in each process
    lock,      \* the process that holds the advisory lock of a chatbot
    request,   \* the request each process serves
    clock,     \* ticks so far
    edits,     \* number of changes so far
    deaths     \* number of processes that have stopped

dbVars == <<row, edits>>
runVars == <<run, lock>>
vars == <<dbVars, runVars, up, registry, due, rows, request, clock, deaths>>

Times == 0 .. Period - 1
NoRun == [at |-> "idle", wanted |-> FALSE]
NoTimes == [c \in Chatbots |-> None]

\* A schedule that is switched off keeps its time.  "useful" stands for an
\* enabled chatbot with an owner and a Moodle datasource.
Row == [exists : BOOLEAN, enabled : BOOLEAN, time : Times \union {None}, useful : BOOLEAN]

Wanted(c) == row[c].exists /\ row[c].enabled
Scheduled == [c \in Chatbots |-> IF Wanted(c) THEN row[c].time ELSE None]

Init ==
    /\ row = [c \in Chatbots |-> [exists |-> TRUE, enabled |-> FALSE,
                                  time |-> None, useful |-> TRUE]]
    /\ up = Processes
    /\ registry = [p \in Processes |-> NoTimes]
    /\ due = [p \in Processes |-> {}]
    /\ rows = [p \in Processes |-> None]
    /\ run = [p \in Processes |-> [c \in Chatbots |-> NoRun]]
    /\ lock = [c \in Chatbots |-> None]
    /\ request = [p \in Processes |-> None]
    /\ clock = 0
    /\ edits = 0
    /\ deaths = 0

-----------------------------------------------------------------------------
(* The registry of a process.  To register replaces the job and computes   *)
(* its next time anew: a firing that is due and not handled is lost.       *)

Register(p, times) ==
    /\ registry' = [registry EXCEPT ![p] = times]
    /\ due' = [due EXCEPT ![p] = {}]

ReadSchedules(p) ==
    /\ p \in up
    /\ rows[p] = None
    /\ rows' = [rows EXCEPT ![p] = Scheduled]
    /\ UNCHANGED <<dbVars, runVars, up, registry, due, request, clock, deaths>>

\* Mutant of Reconciled: what is no longer wanted stays registered.
ReconciledAdding(p) == [c \in Chatbots |-> IF rows[p][c] # None THEN rows[p][c]
                                                                ELSE registry[p][c]]

\* Every wanted schedule is registered, every other one dropped.
Reconciled(p) == [c \in Chatbots |-> rows[p][c]]

ApplySchedules(p) ==
    /\ rows[p] # None
    /\ Register(p, Reconciled(p))
    /\ rows' = [rows EXCEPT ![p] = None]
    /\ UNCHANGED <<dbVars, runVars, up, request, clock, deaths>>

-----------------------------------------------------------------------------
(* Requests: commit, reload the row, update the registry of this process.  *)

\* A run of the chatbot that is under way has seen the schedule wanted.
Commit(c, r) ==
    /\ row' = [row EXCEPT ![c] = r]
    /\ edits' = edits + 1
    /\ run' = [p \in Processes |-> [run[p] EXCEPT ![c].wanted = @ \/ (r.exists /\ r.enabled)]]

Serves(p, c) ==
    /\ p \in up
    /\ request[p] = None
    /\ edits < MaxEdits
    /\ row[c].exists

\* To switch a schedule on needs a Moodle datasource.
SetSchedule(p) ==
    \E c \in Chatbots, t \in Times :
        /\ Serves(p, c)
        /\ row[c].useful
        /\ Commit(c, [row[c] EXCEPT !.enabled = TRUE, !.time = t])
        /\ request' = [request EXCEPT ![p] = [at |-> "reload", bot |-> c, drop |-> FALSE]]
        /\ UNCHANGED <<lock, up, registry, due, rows, clock, deaths>>

\* With PUT the row as it is reloaded counts, with DELETE it does not.
SwitchOff(p) ==
    \E c \in Chatbots, drop \in BOOLEAN :
        /\ Serves(p, c)
        /\ Commit(c, [row[c] EXCEPT !.enabled = FALSE])
        /\ request' = [request EXCEPT ![p] = [at |-> "reload", bot |-> c, drop |-> drop]]
        /\ UNCHANGED <<lock, up, registry, due, rows, clock, deaths>>

\* A row that is gone by now ends the request.
Reload(p) ==
    /\ request[p] # None /\ request[p].at = "reload"
    /\ LET q == request[p]
           time == IF q.drop THEN None ELSE Scheduled[q.bot]
       IN  request' = [request EXCEPT ![p] =
                         IF row[q.bot].exists
                         THEN [at |-> "register", bot |-> q.bot, time |-> time]
                         ELSE None]
    /\ UNCHANGED <<dbVars, runVars, up, registry, due, rows, clock, deaths>>

RegisterRequest(p) ==
    /\ request[p] # None /\ request[p].at = "register"
    /\ registry' = [registry EXCEPT ![p][request[p].bot] = request[p].time]
    /\ due' = [due EXCEPT ![p] = @ \ {request[p].bot}]
    /\ request' = [request EXCEPT ![p] = None]
    /\ UNCHANGED <<dbVars, runVars, up, rows, clock, deaths>>

\* The registration goes first, in this process only.
BeginDelete(p) ==
    \E c \in Chatbots :
        /\ Serves(p, c)
        /\ registry' = [registry EXCEPT ![p][c] = None]
        /\ due' = [due EXCEPT ![p] = @ \ {c}]
        /\ request' = [request EXCEPT ![p] = [at |-> "delete", bot |-> c]]
        /\ UNCHANGED <<dbVars, runVars, up, rows, clock, deaths>>

DeleteChatbot(p) ==
    /\ request[p] # None /\ request[p].at = "delete"
    /\ Commit(request[p].bot, [row[request[p].bot] EXCEPT !.exists = FALSE])
    /\ request' = [request EXCEPT ![p] = None]
    /\ UNCHANGED <<lock, up, registry, due, rows, clock, deaths>>

\* The owner disables or enables the chatbot, or changes its sources.
ToggleUseful(c) ==
    /\ edits < MaxEdits
    /\ row[c].exists
    /\ row' = [row EXCEPT ![c].useful = ~@]
    /\ edits' = edits + 1
    /\ UNCHANGED <<runVars, up, registry, due, rows, request, clock, deaths>>

-----------------------------------------------------------------------------
(* Firing.                                                                 *)

Tick ==
    /\ clock < MaxTicks
    /\ clock' = clock + 1
    /\ due' = [p \in Processes |->
                 {c \in Chatbots : p \in up /\ registry[p][c] = clock' % Period}]
    /\ UNCHANGED <<dbVars, run, lock, up, registry, rows, request, deaths>>

At(p, c, stage) == run[p][c].at = stage
Goes(p, c, stage) == run' = [run EXCEPT ![p][c].at = stage]
Stops(p, c) == run' = [run EXCEPT ![p][c] = NoRun]

\* A firing is skipped while the last one of the same job is being handled.
Fire(p, c) ==
    /\ c \in due[p]
    /\ due' = [due EXCEPT ![p] = @ \ {c}]
    /\ run' = IF At(p, c, "idle")
              THEN [run EXCEPT ![p][c] = [at |-> "fired", wanted |-> Wanted(c)]]
              ELSE run
    /\ UNCHANGED <<dbVars, lock, up, registry, rows, request, clock, deaths>>

\* Mutant of TryLock: the answer of pg_try_advisory_lock is not looked at.
TryLockAnyway(p, c) ==
    /\ At(p, c, "fired")
    /\ Goes(p, c, "load")
    /\ lock' = [lock EXCEPT ![c] = p]
    /\ UNCHANGED <<dbVars, up, registry, due, rows, request, clock, deaths>>

TryLock(p, c) ==
    /\ At(p, c, "fired")
    /\ IF lock[c] = None
       THEN Goes(p, c, "load") /\ lock' = [lock EXCEPT ![c] = p]
       ELSE Stops(p, c) /\ UNCHANGED lock
    /\ UNCHANGED <<dbVars, up, registry, due, rows, request, clock, deaths>>

\* Mutant of MayReindex: the registration counts, not the row.
MayReindexIfExists(c) == row[c].exists /\ row[c].useful

MayReindex(c) == Wanted(c) /\ row[c].useful

\* A registration may be older than the row, so the row is looked at again.
LoadChatbot(p, c) ==
    /\ At(p, c, "load")
    /\ Goes(p, c, IF MayReindex(c) THEN "trigger" ELSE "unlock")
    /\ UNCHANGED <<dbVars, lock, up, registry, due, rows, request, clock, deaths>>

\* Whether trigger_reindex returns or raises, the lock is given back.
TriggerReindex(p, c) ==
    /\ At(p, c, "trigger")
    /\ Goes(p, c, "unlock")
    /\ UNCHANGED <<dbVars, lock, up, registry, due, rows, request, clock, deaths>>

Unlock(p, c) ==
    /\ At(p, c, "unlock")
    /\ Stops(p, c)
    /\ lock' = [lock EXCEPT ![c] = None]
    /\ UNCHANGED <<dbVars, up, registry, due, rows, request, clock, deaths>>

-----------------------------------------------------------------------------
(* Processes.                                                              *)

\* A lock goes with the connection of its process.
LocksWithout(p) == [c \in Chatbots |-> IF lock[c] = p THEN None ELSE lock[c]]

ProcessDies(p) ==
    /\ p \in up
    /\ deaths < MaxDeaths
    /\ deaths' = deaths + 1
    /\ up' = up \ {p}
    /\ registry' = [registry EXCEPT ![p] = NoTimes]
    /\ due' = [due EXCEPT ![p] = {}]
    /\ rows' = [rows EXCEPT ![p] = None]
    /\ run' = [run EXCEPT ![p] = [c \in Chatbots |-> NoRun]]
    /\ lock' = LocksWithout(p)
    /\ request' = [request EXCEPT ![p] = None]
    /\ UNCHANGED <<dbVars, clock>>

\* The registry of a new process is empty until it first reconciles.
ProcessStarts(p) ==
    /\ p \notin up
    /\ up' = up \union {p}
    /\ rows' = [rows EXCEPT ![p] = Scheduled]
    /\ UNCHANGED <<dbVars, runVars, registry, due, request, clock, deaths>>

Next ==
    \/ Tick
    \/ \E c \in Chatbots : ToggleUseful(c)
    \/ \E p \in Processes :
          \/ ReadSchedules(p) \/ ApplySchedules(p)
          \/ SetSchedule(p) \/ SwitchOff(p) \/ Reload(p) \/ RegisterRequest(p)
          \/ BeginDelete(p) \/ DeleteChatbot(p)
          \/ ProcessDies(p) \/ ProcessStarts(p)
          \/ \E c \in Chatbots :
                \/ Fire(p, c)
                \/ TryLock(p, c) \/ LoadChatbot(p, c) \/ TriggerReindex(p, c) \/ Unlock(p, c)

\* The interval jobs of a running scheduler are run again and again.  Nothing
\* is assumed of requests, of the time and of the threads that reindex.
Fairness ==
    \A p \in Processes : WF_vars(ReadSchedules(p)) /\ WF_vars(ApplySchedules(p))

Spec == Init /\ [][Next]_vars /\ Fairness

-----------------------------------------------------------------------------
\* Type invariant: rows, registries and runs only take the values their code
\* gives them, a stopped process has none, and a lock has a live holder.
TypeOK ==
    /\ row \in [Chatbots -> Row]
    /\ up \subseteq Processes
    /\ registry \in [Processes -> [Chatbots -> Times \union {None}]]
    /\ due \in [Processes -> SUBSET Chatbots]
    /\ rows \in [Processes -> {None} \union [Chatbots -> Times \union {None}]]
    /\ run \in [Processes -> [Chatbots ->
                   [at : {"idle", "fired", "load", "trigger", "unlock"}, wanted : BOOLEAN]]]
    /\ lock \in [Chatbots -> up \union {None}]
    /\ clock \in 0 .. MaxTicks
    /\ edits \in Nat /\ deaths \in Nat

\* At any time at most one process handles a firing of a chatbot, although
\* every process fires and any of them may stop with the lock in its hands
\* (scheduler_service.py: "With --workers 8 every worker fires this at the
\* same instant").
OneRunAtATime ==
    \A c \in Chatbots, p, q \in Processes :
        run[p][c].at \notin {"idle", "fired"} /\ run[q][c].at \notin {"idle", "fired"}
        => p = q /\ lock[c] = p

\* No process reindexes a chatbot whose schedule was off, or which was gone,
\* for the whole of the firing, however old the registration that fired.
OnlyWantedRunsTrigger ==
    \A p \in Processes, c \in Chatbots : At(p, c, "trigger") => run[p][c].wanted

\* Whatever order edits, reconciliations and restarts come in, the registry of
\* every running process comes to agree with the rows and stays so, once there
\* are no more edits ("so all uvicorn workers converge despite each having its
\* own scheduler instance").
RegistriesSettle == <>[](\A p \in up : registry[p] = Scheduled)

=============================================================================
