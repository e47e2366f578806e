----------------------- MODULE DeferredIngestionProofs -----------------------
(***************************************************************************)
(* No deferred payload is fired early, for any number of jobs, datasources *)
(* and concurrent handlers, and whatever copies they overwrite.            *)
(*                                                                         *)
(* FiredAfterAll is not inductive: it says nothing of the lists that lead  *)
(* up to a firing.  DeferInv adds that each list, on the row or in the     *)
(* copy of a session, misses only datasources that had an outcome.         *)
(***************************************************************************)
EXTENDS DeferredIngestion, TLAPS

\* A list S of datasources that job j may still be waiting for.
Covers(j, S) == trigger[j].stage = "done" /\ trigger[j].published \subseteq S \cup heard[j]

AbsentIsUntouched == \A j \in Jobs : status[j] = "absent" => trigger[j].stage = "none"
RowsCover == \A j \in Jobs : waiting[j] # {} => Covers(j, waiting[j])
CopiesCover ==
    \A h \in Handlers, j \in Jobs : handler[h].copy[j] # {} => Covers(j, handler[h].copy[j])
HandledIsHeard ==
    \A h \in Handlers, j \in Jobs :
       handler[h].datasource \cap trigger[j].published \subseteq heard[j]
PoppedIsCovered == \A h \in Handlers : \A j \in handler[h].job : Covers(j, {})
FiredIsCovered == \A j \in Jobs : fired[j] > 0 => Covers(j, {})

DeferInv == /\ TypeOK
            /\ AbsentIsUntouched
            /\ RowsCover
            /\ CopiesCover
            /\ HandledIsHeard
            /\ PoppedIsCovered
            /\ FiredIsCovered

-----------------------------------------------------------------------------
(* The type invariant.                                                     *)

\* The history of slips and the count of failures are typed whoever writes them.
LEMMA SlipTyped ==
    ASSUME TypeOK, NEW who, NEW how \in Slips, Slip(who, how)
    PROVE  slipped' \in [Jobs -> SUBSET Slips]
BY DEF TypeOK, Slip

LEMMA FaultTyped == TypeOK /\ Fault => faults' \in 0 .. MaxFaults
BY DeferredAssumption DEF TypeOK, Fault

\* Every row, list and session copy stays in its type along every step of every
\* handler.
LEMMA TypeStep == TypeOK /\ [Next]_vars => TypeOK'
<1> SUFFICES ASSUME TypeOK, [Next]_vars PROVE TypeOK'
    OBVIOUS
<1> USE DeferredAssumption
<1>1. ASSUME NEW j \in Jobs, CreateJob(j) PROVE TypeOK'
    BY <1>1 DEF TypeOK, CreateJob, Statuses, Triggers
<1>2. ASSUME NEW j \in Jobs, NEW d \in Datasources, PublishMetadata(j, d) PROVE TypeOK'
    <2>1. trigger' \in [Jobs -> Triggers]
        <3> DEFINE one == [trigger[j] EXCEPT !.todo = @ \ {d}, !.published = @ \cup {d}]
                   other == [trigger[j] EXCEPT !.todo = @ \ {d}]
        <3>1. trigger \in [Jobs -> Triggers] /\ trigger[j] \in Triggers
            BY DEF TypeOK
        <3>2. one \in Triggers /\ other \in Triggers
            BY <3>1 DEF Triggers
        <3>3. trigger' \in {[trigger EXCEPT ![j] = one], [trigger EXCEPT ![j] = other]}
            BY <1>2 DEF PublishMetadata
        <3>. QED BY <3>1, <3>2, <3>3
    <2>2. /\ due' \in [Datasources -> Nat]
          /\ heard' \in [Jobs -> SUBSET Datasources]
        BY <1>2 DEF TypeOK, PublishMetadata, More, BeingHandled
    <2>3. faults' \in 0 .. MaxFaults
        BY <1>2, FaultTyped DEF TypeOK, PublishMetadata
    <2>. QED BY <1>2, <2>1, <2>2, <2>3 DEF TypeOK, PublishMetadata, rows
<1>3. ASSUME NEW j \in Jobs, Park(j) PROVE TypeOK'
    BY <1>3 DEF TypeOK, Park, Triggers
<1>4. ASSUME NEW j \in Jobs, FireNow(j) PROVE TypeOK'
    <2>1. /\ fired' \in {fired, More(fired, j)}
          /\ status' \in {status, Failed(j)}
          /\ faults' \in 0 .. MaxFaults
        BY <1>4 DEF TypeOK, FireNow, Fault
    <2>2. More(fired, j) \in [Jobs -> Nat] /\ Failed(j) \in [Jobs -> Statuses]
        BY DEF TypeOK, More, Failed, Statuses
    <2>3. trigger' \in [Jobs -> Triggers]
        BY <1>4 DEF TypeOK, FireNow, Triggers
    <2>. QED BY <1>4, <2>1, <2>2, <2>3 DEF TypeOK, FireNow
<1>5. ASSUME NEW j \in Jobs, TriggerDies(j) PROVE TypeOK'
    <2>1. trigger' \in [Jobs -> Triggers]
        <3> DEFINE dead == [trigger[j] EXCEPT !.stage = "done"]
        <3>1. trigger \in [Jobs -> Triggers] /\ trigger[j] \in Triggers
            BY DEF TypeOK
        <3>2. dead \in Triggers
            BY <3>1 DEF Triggers
        <3>3. trigger' = [trigger EXCEPT ![j] = dead]
            BY <1>5 DEF TriggerDies
        <3>. QED BY <3>1, <3>2, <3>3
    <2>. QED BY <1>5, <2>1, FaultTyped DEF TypeOK, TriggerDies, rows
<1>6. ASSUME NEW j \in Jobs, EndJob(j) \/ RetryJob(j) PROVE TypeOK'
    BY <1>6 DEF TypeOK, EndJob, RetryJob, Statuses
<1>7. ASSUME NEW d \in Datasources, Resync(d) \/ LoseSync(d) PROVE TypeOK'
    <2>1. CASE Resync(d)
        BY <2>1 DEF TypeOK, Resync, rows, More
    <2>2. CASE LoseSync(d)
        <3>1. slipped' \in [Jobs -> SUBSET Slips]
            BY <2>2, SlipTyped DEF LoseSync, Slips
        <3>2. due' \in [Datasources -> Nat]
            BY <2>2 DEF TypeOK, LoseSync
        <3>. QED BY <2>2, <3>1, <3>2, FaultTyped DEF TypeOK, LoseSync, rows
    <2>. QED BY <1>7, <2>1, <2>2
<1>8. ASSUME NEW h \in Handlers, NEW d \in Datasources, Select(h, d) PROVE TypeOK'
    <2>1. Pending \subseteq Jobs
        BY DEF Pending
    <2>2. [j \in Jobs |-> IF j \in Pending THEN waiting[j] ELSE {}]
             \in [Jobs -> SUBSET Datasources]
        BY DEF TypeOK
    <2>3. handler' \in [Handlers -> HandlerStates]
        BY <1>8, <2>1, <2>2 DEF TypeOK, Select, HandlerStates
    <2>4. slipped' \in [Jobs -> SUBSET Slips]
        BY <1>8, SlipTyped DEF Select, Slips
    <2>5. /\ due' \in [Datasources -> Nat]
          /\ heard' \in [Jobs -> SUBSET Datasources]
        BY <1>8 DEF TypeOK, Select
    <2>. QED BY <1>8, <2>3, <2>4, <2>5 DEF TypeOK, Select, rows
<1>9. ASSUME NEW h \in Handlers, NEW j \in Jobs, Reload(h, j) \/ Pass(h, j) PROVE TypeOK'
    <2>1. CASE Reload(h, j)
        <3>1. [handler[h].copy EXCEPT ![j] = waiting[j]] \in [Jobs -> SUBSET Datasources]
            BY DEF TypeOK, HandlerStates
        <3>2. handler[h] \in HandlerStates
            BY DEF TypeOK
        <3>3. [handler[h] EXCEPT !.fresh = {j},
                                 !.copy = [handler[h].copy EXCEPT ![j] = waiting[j]]]
                 \in HandlerStates
            BY <3>1, <3>2 DEF HandlerStates
        <3>. QED BY <2>1, <3>3 DEF TypeOK, Reload, rows
    <2>2. CASE Pass(h, j)
        <3>1. handler[h] \in HandlerStates
            BY DEF TypeOK
        <3>2. [handler[h] EXCEPT !.todo = @ \ {j}] \in HandlerStates
            BY <3>1 DEF HandlerStates
        <3>. QED BY <2>2, <3>2 DEF TypeOK, Pass, rows
    <2>. QED BY <1>9, <2>1, <2>2
<1>10. ASSUME NEW h \in Handlers, NEW j \in Jobs, Decrement(h, j) \/ Pop(h, j) PROVE TypeOK'
    <2>1. Rest(h, j) \subseteq Datasources
        BY DEF TypeOK, Rest, HandlerStates
    <2>2. slipped' \in [Jobs -> SUBSET Slips]
        BY <1>10, SlipTyped DEF Decrement, Pop, SlipIfStale, Slips
    <2>3. handler[h] \in HandlerStates
        BY DEF TypeOK
    <2>4. CASE Decrement(h, j)
        <3>1. [handler[h] EXCEPT !.todo = @ \ {j}, !.fresh = {}] \in HandlerStates
            BY <2>3 DEF HandlerStates
        <3>2. handler' \in [Handlers -> HandlerStates]
            BY <2>4, <3>1 DEF TypeOK, Decrement
        <3>. QED BY <2>1, <2>2, <2>4, <3>2 DEF TypeOK, Decrement
    <2>5. CASE Pop(h, j)
        <3>1. [handler[h] EXCEPT !.todo = @ \ {j}, !.fresh = {}, !.stage = "fire", !.job = {j}]
                 \in HandlerStates
            BY <2>3 DEF HandlerStates
        <3>2. handler' \in [Handlers -> HandlerStates]
            BY <2>5, <3>1 DEF TypeOK, Pop
        <3>. QED BY <2>2, <2>5, <3>2 DEF TypeOK, Pop
    <2>. QED BY <1>10, <2>4, <2>5
<1>11. ASSUME NEW h \in Handlers, Fire(h) PROVE TypeOK'
    BY <1>11 DEF TypeOK, Fire, HandlerStates, Statuses, More, Failed, Fault
<1>12. ASSUME NEW h \in Handlers, Return(h) PROVE TypeOK'
    BY <1>12 DEF TypeOK, Return, rows, HandlerStates, Idle
<1>13. ASSUME NEW h \in Handlers, HandlerDies(h) PROVE TypeOK'
    <2>1. slipped' \in [Jobs -> SUBSET Slips]
        BY <1>13, SlipTyped DEF HandlerDies, Slips
    <2>2. Idle \in HandlerStates
        BY DEF Idle, HandlerStates
    <2>3. /\ handler' \in [Handlers -> HandlerStates]
          /\ handler[h].datasource \subseteq Datasources
        BY <1>13, <2>2 DEF TypeOK, HandlerDies, HandlerStates
    <2>4. due' \in [Datasources -> Nat]
        BY <1>13, <2>3 DEF TypeOK, HandlerDies, More
    <2>. QED BY <1>13, <2>1, <2>3, <2>4, FaultTyped DEF TypeOK, HandlerDies, rows
<1>14. CASE UNCHANGED vars
    BY <1>14 DEF TypeOK, vars, rows
<1>. QED
    BY <1>1, <1>2, <1>3, <1>4, <1>5, <1>6, <1>7, <1>8, <1>9, <1>10, <1>11, <1>12, <1>13, <1>14
       DEF Next, TriggerStep, HandlerStep

-----------------------------------------------------------------------------
(* The inductive invariant.                                                *)

LEMMA DeferInit == Init => DeferInv
BY DeferredAssumption
   DEF Init, DeferInv, TypeOK, Statuses, Triggers, HandlerStates, Idle, AbsentIsUntouched,
       RowsCover, CopiesCover, HandledIsHeard, PoppedIsCovered, FiredIsCovered

\* What a handler would write back or fire of its copy covers the job too: the
\* datasource it takes off the list has been heard of.
LEMMA RestCovers ==
    ASSUME DeferInv, NEW h \in Handlers, NEW j \in Jobs, MayAdvance(h, j)
    PROVE  Covers(j, Rest(h, j))
BY DEF DeferInv, CopiesCover, HandledIsHeard, MayAdvance, Covers, Rest

\* A step of a request does not disturb what is covered: as long as it runs, its job
\* is on no list.
KeepsCover ==
    /\ UNCHANGED handler
    /\ \A k \in Jobs : \A S \in SUBSET Datasources : Covers(k, S) => Covers(k, S)'

LEMMA RequestKeepsCover ==
    ASSUME DeferInv, KeepsCover
    PROVE  /\ CopiesCover' /\ PoppedIsCovered'
           /\ \A k \in Jobs : waiting'[k] = waiting[k] /\ waiting'[k] # {} => Covers(k, waiting[k])'
           /\ \A k \in Jobs : fired'[k] = fired[k] /\ fired'[k] > 0 => Covers(k, {})'
<1> USE DEF DeferInv
<1>1. CopiesCover'
    BY DEF KeepsCover, CopiesCover, TypeOK, HandlerStates
<1>2. PoppedIsCovered'
    BY DEF KeepsCover, PoppedIsCovered, TypeOK, HandlerStates
<1>3. ASSUME NEW k \in Jobs, waiting'[k] = waiting[k], waiting'[k] # {}
      PROVE  trigger'[k].stage = "done" /\ trigger'[k].published \subseteq waiting[k] \cup heard'[k]
    BY <1>3 DEF KeepsCover, RowsCover, TypeOK, Covers
<1>4. ASSUME NEW k \in Jobs, fired'[k] = fired[k], fired'[k] > 0
      PROVE  Covers(k, {})'
    BY <1>4 DEF KeepsCover, FiredIsCovered, TypeOK
<1>. QED BY <1>1, <1>2, <1>3, <1>4 DEF Covers

\* Every step keeps what DeferInv says of the lists, copies and popped payloads.
LEMMA DeferStep == DeferInv /\ [Next]_vars => DeferInv'
<1> SUFFICES ASSUME DeferInv, [Next]_vars PROVE DeferInv'
    OBVIOUS
<1> USE DEF DeferInv
<1>a. TypeOK'
    BY TypeStep
<1> DEFINE Rest6 == /\ AbsentIsUntouched
                    /\ RowsCover
                    /\ CopiesCover
                    /\ HandledIsHeard
                    /\ PoppedIsCovered
                    /\ FiredIsCovered
<1>1. ASSUME NEW j \in Jobs, CreateJob(j) PROVE Rest6'
    <2>1. trigger[j].stage = "none"
        BY <1>1 DEF CreateJob, AbsentIsUntouched
    <2>2. /\ \A k \in Jobs : k # j => trigger'[k] = trigger[k] /\ status'[k] = status[k]
          /\ status'[j] = "pending"
          /\ trigger'[j].published = {}
        BY <1>1 DEF CreateJob, TypeOK
    <2>3. UNCHANGED <<waiting, handler, fired, heard>>
        BY <1>1 DEF CreateJob
    <2>4. KeepsCover
        BY <2>1, <2>2, <2>3 DEF KeepsCover, Covers
    <2>5. RowsCover' /\ FiredIsCovered'
        BY <2>3, <2>4, RequestKeepsCover DEF RowsCover, FiredIsCovered
    <2>6. AbsentIsUntouched' /\ HandledIsHeard'
        BY <2>2, <2>3 DEF AbsentIsUntouched, HandledIsHeard
    <2>. QED BY <2>4, <2>5, <2>6, RequestKeepsCover
<1>2. ASSUME NEW j \in Jobs, NEW d \in Datasources, PublishMetadata(j, d) PROVE Rest6'
    <2>1. /\ trigger[j].stage = "publish"
          /\ trigger'[j].stage = "publish"
          /\ \A k \in Jobs : k # j => trigger'[k] = trigger[k] /\ heard'[k] = heard[k]
        BY <1>2 DEF PublishMetadata, TypeOK, Triggers
    <2>2. UNCHANGED <<status, waiting, handler, fired>>
        BY <1>2 DEF PublishMetadata, rows
    <2>3. \/ /\ trigger'[j].published = trigger[j].published \cup {d}
             /\ heard'[j] = heard[j] \cup BeingHandled(d)
          \/ /\ trigger'[j].published = trigger[j].published
             /\ heard'[j] = heard[j]
        BY <1>2 DEF PublishMetadata, TypeOK, Triggers
    <2>4. HandledIsHeard'
        BY <2>1, <2>2, <2>3 DEF HandledIsHeard, BeingHandled
    <2>5. KeepsCover
        BY <2>1, <2>2 DEF KeepsCover, Covers
    <2>6. RowsCover' /\ FiredIsCovered'
        BY <2>2, <2>5, RequestKeepsCover DEF RowsCover, FiredIsCovered
    <2>7. AbsentIsUntouched'
        BY <2>1, <2>2 DEF AbsentIsUntouched
    <2>. QED BY <2>4, <2>5, <2>6, <2>7, RequestKeepsCover
<1>3. ASSUME NEW j \in Jobs, Park(j) PROVE Rest6'
    <2>1. /\ status[j] # "absent"
          /\ trigger[j].stage = "publish"
          /\ trigger'[j].stage = "done"
          /\ \A k \in Jobs : /\ trigger'[k].published = trigger[k].published
                             /\ k # j => trigger'[k] = trigger[k] /\ waiting'[k] = waiting[k]
          /\ waiting'[j] = trigger[j].published
        BY <1>3 DEF Park, TypeOK, Triggers, AbsentIsUntouched
    <2>2. UNCHANGED <<status, handler, fired, heard>>
        BY <1>3 DEF Park
    <2>3. KeepsCover
        BY <2>1, <2>2 DEF KeepsCover, Covers
    <2>4. Covers(j, waiting[j])'
        BY <2>1 DEF Covers
    <2>5. RowsCover' /\ FiredIsCovered'
        BY <2>1, <2>2, <2>3, <2>4, RequestKeepsCover DEF RowsCover, FiredIsCovered
    <2>6. AbsentIsUntouched' /\ HandledIsHeard'
        BY <2>1, <2>2 DEF AbsentIsUntouched, HandledIsHeard
    <2>. QED BY <2>3, <2>5, <2>6, RequestKeepsCover
<1>4. ASSUME NEW j \in Jobs, FireNow(j) PROVE Rest6'
    <2>1. /\ status[j] # "absent"
          /\ trigger[j].stage = "publish"
          /\ trigger[j].published = {}
          /\ trigger'[j].stage = "done"
          /\ \A k \in Jobs : /\ trigger'[k].published = trigger[k].published
                             /\ k # j => /\ trigger'[k] = trigger[k]
                                         /\ fired'[k] = fired[k]
                                         /\ status'[k] = status[k]
        BY <1>4 DEF FireNow, TypeOK, Triggers, AbsentIsUntouched, More, Failed
    <2>2. status'[j] # "absent"
        BY <1>4, <2>1 DEF FireNow, Failed, TypeOK
    <2>3. UNCHANGED <<waiting, handler, heard>>
        BY <1>4 DEF FireNow
    <2>4. KeepsCover
        BY <2>1, <2>3 DEF KeepsCover, Covers
    <2>5. Covers(j, {})'
        BY <2>1 DEF Covers
    <2>6. RowsCover' /\ FiredIsCovered'
        BY <2>1, <2>3, <2>4, <2>5, RequestKeepsCover DEF RowsCover, FiredIsCovered
    <2>7. AbsentIsUntouched' /\ HandledIsHeard'
        BY <2>1, <2>2, <2>3 DEF AbsentIsUntouched, HandledIsHeard
    <2>. QED BY <2>4, <2>6, <2>7, RequestKeepsCover
<1>5. ASSUME NEW j \in Jobs, TriggerDies(j) PROVE Rest6'
    <2>1. /\ status[j] # "absent"
          /\ trigger[j].stage = "publish"
          /\ \A k \in Jobs : /\ trigger'[k].published = trigger[k].published
                             /\ k # j => trigger'[k] = trigger[k]
        BY <1>5 DEF TriggerDies, TypeOK, Triggers, AbsentIsUntouched
    <2>2. UNCHANGED <<status, waiting, handler, fired, heard>>
        BY <1>5 DEF TriggerDies, rows
    <2>3. KeepsCover
        BY <2>1, <2>2 DEF KeepsCover, Covers
    <2>4. RowsCover' /\ FiredIsCovered'
        BY <2>2, <2>3, RequestKeepsCover DEF RowsCover, FiredIsCovered
    <2>5. AbsentIsUntouched' /\ HandledIsHeard'
        BY <2>1, <2>2 DEF AbsentIsUntouched, HandledIsHeard
    <2>. QED BY <2>3, <2>4, <2>5, RequestKeepsCover
<1>6. ASSUME NEW j \in Jobs, EndJob(j) \/ RetryJob(j) PROVE Rest6'
    <2>1. /\ status[j] # "absent"
          /\ \A k \in Jobs : k # j => status'[k] = status[k]
        BY <1>6 DEF EndJob, RetryJob, TypeOK
    <2>2. UNCHANGED <<waiting, trigger, handler, fired, heard>>
        BY <1>6 DEF EndJob, RetryJob
    <2>3. status'[j] # "absent"
        BY <1>6 DEF EndJob, RetryJob, TypeOK
    <2>. QED BY <2>1, <2>2, <2>3 DEF AbsentIsUntouched, RowsCover, CopiesCover, HandledIsHeard,
             PoppedIsCovered, FiredIsCovered, Covers
<1>7. ASSUME NEW d \in Datasources, Resync(d) \/ LoseSync(d) PROVE Rest6'
    BY <1>7 DEF Resync, LoseSync, rows, AbsentIsUntouched, RowsCover, CopiesCover,
       HandledIsHeard, PoppedIsCovered, FiredIsCovered, Covers
<1>8. ASSUME NEW h \in Handlers, NEW d \in Datasources, Select(h, d) PROVE Rest6'
    <2>1. UNCHANGED <<status, waiting, trigger, fired>>
        BY <1>8 DEF Select, rows
    <2>2. \A j \in Jobs : /\ heard[j] \subseteq heard'[j]
                          /\ {d} \cap trigger[j].published \subseteq heard'[j]
        BY <1>8 DEF Select
    <2>3. /\ handler'[h].datasource = {d}
          /\ handler'[h].job = {}
          /\ \A j \in Jobs : handler'[h].copy[j] \in {waiting[j], {}}
          /\ \A g \in Handlers : g # h => handler'[g] = handler[g]
        BY <1>8 DEF Select, TypeOK
    <2>4. HandledIsHeard'
        BY <2>1, <2>2, <2>3 DEF HandledIsHeard
    <2>5. CopiesCover'
        BY <2>1, <2>2, <2>3 DEF CopiesCover, RowsCover, Covers
    <2>. QED BY <2>1, <2>2, <2>3, <2>4, <2>5 DEF AbsentIsUntouched, RowsCover,
             PoppedIsCovered, FiredIsCovered, Covers, TypeOK, HandlerStates
<1>9. ASSUME NEW h \in Handlers, NEW j \in Jobs, Reload(h, j) \/ Pass(h, j) PROVE Rest6'
    <2>1. UNCHANGED <<status, waiting, trigger, fired, heard>>
        BY <1>9 DEF Reload, Pass, rows
    <2>2. /\ \A g \in Handlers : /\ handler'[g].datasource = handler[g].datasource
                                 /\ handler'[g].job = handler[g].job
          /\ \A g \in Handlers, k \in Jobs :
                handler'[g].copy[k] \in {handler[g].copy[k], waiting[k]}
        <3>1. CASE Reload(h, j)
            BY <3>1 DEF Reload, TypeOK, HandlerStates
        <3>2. CASE Pass(h, j)
            BY <3>2 DEF Pass, TypeOK, HandlerStates
        <3>. QED BY <1>9, <3>1, <3>2
    <2>. QED BY <2>1, <2>2 DEF AbsentIsUntouched, RowsCover, CopiesCover, HandledIsHeard,
             PoppedIsCovered, FiredIsCovered, Covers
<1>10. ASSUME NEW h \in Handlers, NEW j \in Jobs, Decrement(h, j) PROVE Rest6'
    <2>1. Covers(j, Rest(h, j))
        BY <1>10, RestCovers DEF Decrement
    <2>2. /\ \A k \in Jobs : waiting'[k] = IF k = j THEN Rest(h, j) ELSE waiting[k]
          /\ \A g \in Handlers : /\ handler'[g].datasource = handler[g].datasource
                                 /\ handler'[g].job = handler[g].job
                                 /\ handler'[g].copy = handler[g].copy
        BY <1>10 DEF Decrement, TypeOK, HandlerStates
    <2>3. UNCHANGED <<status, trigger, fired, heard>>
        BY <1>10 DEF Decrement
    <2>4. RowsCover'
        BY <2>1, <2>2, <2>3 DEF RowsCover, Covers
    <2>. QED BY <2>2, <2>3, <2>4 DEF AbsentIsUntouched, CopiesCover, HandledIsHeard,
             PoppedIsCovered, FiredIsCovered, Covers
<1>11. ASSUME NEW h \in Handlers, NEW j \in Jobs, Pop(h, j) PROVE Rest6'
    <2>1. Covers(j, {})
        BY <1>11, RestCovers DEF Pop
    <2>2. /\ \A k \in Jobs : waiting'[k] \in {waiting[k], {}}
          /\ handler'[h].job = {j}
          /\ \A g \in Handlers : /\ handler'[g].datasource = handler[g].datasource
                                 /\ g # h => handler'[g].job = handler[g].job
                                 /\ handler'[g].copy = handler[g].copy
        BY <1>11 DEF Pop, TypeOK, HandlerStates
    <2>3. UNCHANGED <<status, trigger, fired, heard>>
        BY <1>11 DEF Pop
    <2>4. PoppedIsCovered'
        BY <2>1, <2>2, <2>3 DEF PoppedIsCovered, Covers
    <2>. QED BY <2>2, <2>3, <2>4 DEF AbsentIsUntouched, RowsCover, CopiesCover, HandledIsHeard,
             FiredIsCovered, Covers
<1>12. ASSUME NEW h \in Handlers, Fire(h) PROVE Rest6'
    <2>1. PICK j \in handler[h].job :
             \/ fired' = More(fired, j) /\ UNCHANGED <<status, faults>>
             \/ Fault /\ fired' \in {fired, More(fired, j)} /\ status' = Failed(j)
        BY <1>12 DEF Fire
    <2>2. j \in Jobs
        BY <2>1 DEF TypeOK, HandlerStates
    <2>3. Covers(j, {})
        BY <2>1 DEF PoppedIsCovered
    <2>4. /\ \A k \in Jobs : k # j => fired'[k] = fired[k] /\ status'[k] = status[k]
          /\ status'[j] \in {status[j], "failed"}
        BY <2>1, <2>2 DEF More, Failed, TypeOK
    <2>5. \A g \in Handlers : /\ handler'[g].datasource = handler[g].datasource
                              /\ handler'[g].job \subseteq handler[g].job
                              /\ handler'[g].copy = handler[g].copy
        BY <1>12 DEF Fire, TypeOK, HandlerStates
    <2>6. UNCHANGED <<waiting, trigger, heard>>
        BY <1>12 DEF Fire
    <2>7. FiredIsCovered'
        BY <2>2, <2>3, <2>4, <2>6 DEF FiredIsCovered, Covers
    <2>. QED BY <2>2, <2>4, <2>5, <2>6, <2>7 DEF AbsentIsUntouched, RowsCover, CopiesCover,
             HandledIsHeard, PoppedIsCovered, Covers
<1>13. ASSUME NEW h \in Handlers, Return(h) \/ HandlerDies(h) PROVE Rest6'
    <2>1. UNCHANGED <<status, waiting, trigger, fired, heard>>
        BY <1>13 DEF Return, HandlerDies, rows
    <2>2. /\ \A g \in Handlers : g # h => handler'[g] = handler[g]
          /\ handler'[h].datasource = {} /\ handler'[h].job = {}
          /\ \A k \in Jobs : handler'[h].copy[k] = {}
        BY <1>13 DEF Return, HandlerDies, Idle, TypeOK
    <2>. QED BY <2>1, <2>2 DEF AbsentIsUntouched, RowsCover, CopiesCover, HandledIsHeard,
             PoppedIsCovered, FiredIsCovered, Covers
<1>14. ASSUME UNCHANGED vars PROVE Rest6'
    <2>1. UNCHANGED <<status, waiting, trigger, handler, fired, heard>>
        BY <1>14 DEF vars, rows
    <2>2. KeepsCover
        BY <2>1 DEF KeepsCover, Covers
    <2>3. RowsCover' /\ FiredIsCovered'
        BY <2>1, <2>2, RequestKeepsCover DEF RowsCover, FiredIsCovered
    <2>4. AbsentIsUntouched' /\ HandledIsHeard'
        BY <2>1 DEF AbsentIsUntouched, HandledIsHeard
    <2>. QED BY <2>2, <2>3, <2>4, RequestKeepsCover
<1>15. Rest6'
    BY <1>1, <1>2, <1>3, <1>4, <1>5, <1>6, <1>7, <1>8, <1>9, <1>10, <1>11, <1>12, <1>13, <1>14
       DEF Next, TriggerStep, HandlerStep
<1>. QED BY <1>a, <1>15

-----------------------------------------------------------------------------
(* One firing.  A payload is on its row, or popped by one handler, or gone; a   *)
(* handler whose copy says otherwise overwrites a list, and that is recorded.   *)

Spent(j) == trigger[j].stage = "done" /\ waiting[j] = {}

OncePerJob(j) ==
    "overwritten" \notin slipped[j] =>
       /\ fired[j] <= 1
       /\ fired[j] > 0 => Spent(j) /\ \A h \in Handlers : j \notin handler[h].job
       /\ \A h \in Handlers :
             j \in handler[h].job =>
                Spent(j) /\ fired[j] = 0 /\ \A g \in Handlers : j \in handler[g].job => g = h

OnceInv == DeferInv /\ \A j \in Jobs : OncePerJob(j)

\* A slip is never forgotten.
LEMMA SlipsStay ==
    ASSUME TypeOK, [Next]_vars, NEW k \in Jobs
    PROVE  slipped[k] \subseteq slipped'[k]
<1>1. ASSUME NEW who, NEW how, Slip(who, how) PROVE slipped[k] \subseteq slipped'[k]
    BY <1>1 DEF Slip
<1>2. ASSUME NEW j \in Jobs, CreateJob(j) \/ TriggerStep(j) \/ TriggerDies(j) \/ EndJob(j) \/ RetryJob(j)
      PROVE  slipped' = slipped
    BY <1>2 DEF CreateJob, TriggerStep, PublishMetadata, Park, FireNow, TriggerDies, EndJob, RetryJob
<1>3. ASSUME NEW d \in Datasources, Resync(d) \/ LoseSync(d) \/ \E h \in Handlers : Select(h, d)
      PROVE  slipped[k] \subseteq slipped'[k]
    BY <1>1, <1>3 DEF Resync, LoseSync, Select
<1>4. ASSUME NEW h \in Handlers, HandlerStep(h) \/ HandlerDies(h) PROVE slipped[k] \subseteq slipped'[k]
    BY <1>1, <1>4 DEF HandlerStep, HandlerDies, Reload, Pass, Decrement, Pop, Fire, Return, SlipIfStale
<1>. QED BY <1>2, <1>3, <1>4 DEF Next, vars

\* A handler that writes the list of a job has not found it spent, or it slips.
LEMMA WriterIsFirst ==
    ASSUME TypeOK, NEW h \in Handlers, NEW j \in Jobs, MayAdvance(h, j), SlipIfStale(h, j),
           "overwritten" \notin slipped'[j]
    PROVE  waiting[j] # {}
BY DEF MayAdvance, SlipIfStale, Slip, TypeOK

\* Steps that leave a job's payload where it is.
LEMMA StaysOnce ==
    ASSUME NEW k \in Jobs, OncePerJob(k), slipped[k] \subseteq slipped'[k],
           Spent(k) => Spent(k)', fired'[k] = fired[k],
           \A h \in Handlers : k \in handler'[h].job => k \in handler[h].job
    PROVE  OncePerJob(k)'
BY DEF OncePerJob, Spent

\* Every step of every handler keeps a payload in one place.
LEMMA OnceStep == OnceInv /\ [Next]_vars => OnceInv'
<1> SUFFICES ASSUME OnceInv, [Next]_vars, NEW k \in Jobs PROVE OncePerJob(k)'
    BY DeferStep DEF OnceInv
<1>a. TypeOK /\ TypeOK' /\ OncePerJob(k)
    BY TypeStep DEF OnceInv, DeferInv
<1>b. slipped[k] \subseteq slipped'[k]
    BY <1>a, SlipsStay
<1>1. ASSUME NEW j \in Jobs, CreateJob(j) PROVE OncePerJob(k)'
    <2>1. trigger[j].stage = "none"
        BY <1>1 DEF CreateJob, OnceInv, DeferInv, AbsentIsUntouched
    <2>2. Spent(k) => Spent(k)'
        BY <1>1, <1>a, <2>1 DEF CreateJob, Spent, TypeOK
    <2>3. UNCHANGED <<fired, handler>>
        BY <1>1 DEF CreateJob
    <2>. QED BY <1>a, <1>b, <2>2, <2>3, StaysOnce
<1>2. ASSUME NEW j \in Jobs, NEW d \in Datasources, PublishMetadata(j, d) PROVE OncePerJob(k)'
    <2>1. Spent(k) => Spent(k)'
        BY <1>2, <1>a DEF PublishMetadata, Spent, TypeOK, Triggers, rows
    <2>2. UNCHANGED <<fired, handler>>
        BY <1>2 DEF PublishMetadata
    <2>. QED BY <1>a, <1>b, <2>1, <2>2, StaysOnce
<1>3. ASSUME NEW j \in Jobs, Park(j) \/ TriggerDies(j) PROVE OncePerJob(k)'
    <2>1. Spent(k) => Spent(k)'
        BY <1>3, <1>a DEF Park, TriggerDies, Spent, TypeOK, Triggers, rows
    <2>2. UNCHANGED <<fired, handler>>
        BY <1>3 DEF Park, TriggerDies
    <2>. QED BY <1>a, <1>b, <2>1, <2>2, StaysOnce
<1>4. ASSUME NEW j \in Jobs, FireNow(j) PROVE OncePerJob(k)'
    <2>1. UNCHANGED <<waiting, handler, slipped>>
        BY <1>4 DEF FireNow
    <2>2. trigger[j].stage = "publish" /\ trigger'[j].stage = "done"
        BY <1>4, <1>a DEF FireNow, TypeOK, Triggers
    <2>3. CASE k = j
        <3>1. fired'[j] \in {fired[j], fired[j] + 1} /\ fired[j] \in Nat
            BY <1>4, <1>a DEF FireNow, More, TypeOK
        <3>2. waiting[j] = {}
            BY <2>2 DEF OnceInv, DeferInv, RowsCover, Covers
        <3>. QED BY <1>a, <2>1, <2>2, <2>3, <3>1, <3>2 DEF OncePerJob, Spent
    <2>4. CASE k # j
        <3>1. trigger'[k] = trigger[k] /\ fired'[k] = fired[k]
            BY <1>4, <1>a, <2>4 DEF FireNow, More, TypeOK
        <3>. QED BY <1>a, <1>b, <2>1, <3>1, StaysOnce DEF Spent
    <2>. QED BY <2>3, <2>4
<1>5. ASSUME NEW j \in Jobs, EndJob(j) \/ RetryJob(j) PROVE OncePerJob(k)'
    BY <1>5, <1>a, <1>b, StaysOnce DEF EndJob, RetryJob, Spent
<1>6. ASSUME NEW d \in Datasources, Resync(d) \/ LoseSync(d) PROVE OncePerJob(k)'
    BY <1>6, <1>a, <1>b, StaysOnce DEF Resync, LoseSync, Spent, rows
<1>7. ASSUME NEW h \in Handlers, NEW d \in Datasources, Select(h, d) PROVE OncePerJob(k)'
    <2>1. \A g \in Handlers : handler'[g].job \subseteq handler[g].job
        BY <1>7, <1>a DEF Select, TypeOK
    <2>. QED BY <1>7, <1>a, <1>b, <2>1, StaysOnce DEF Select, Spent, rows
<1>8. ASSUME NEW h \in Handlers, NEW j \in Jobs, Reload(h, j) \/ Pass(h, j) PROVE OncePerJob(k)'
    <2>1. \A g \in Handlers : handler'[g].job = handler[g].job
        BY <1>8, <1>a DEF Reload, Pass, TypeOK, HandlerStates
    <2>. QED BY <1>8, <1>a, <1>b, <2>1, StaysOnce DEF Reload, Pass, Spent, rows
<1>9. ASSUME NEW h \in Handlers, NEW j \in Jobs, Decrement(h, j) PROVE OncePerJob(k)'
    <2>1. SUFFICES ASSUME "overwritten" \notin slipped'[k] PROVE OncePerJob(k)'
        BY DEF OncePerJob
    <2>2. k = j => waiting[k] # {}
        BY <1>9, <1>a, <2>1, WriterIsFirst DEF Decrement
    <2>3. Spent(k) => Spent(k)'
        BY <1>9, <1>a, <2>2 DEF Decrement, Spent, TypeOK
    <2>4. \A g \in Handlers : handler'[g].job = handler[g].job
        BY <1>9, <1>a DEF Decrement, TypeOK, HandlerStates
    <2>. QED BY <1>9, <1>a, <1>b, <2>3, <2>4, StaysOnce DEF Decrement
<1>10. ASSUME NEW h \in Handlers, NEW j \in Jobs, Pop(h, j) PROVE OncePerJob(k)'
    <2>1. SUFFICES ASSUME "overwritten" \notin slipped'[k] PROVE OncePerJob(k)'
        BY DEF OncePerJob
    <2>2. /\ \A g \in Handlers : g # h => handler'[g].job = handler[g].job
          /\ handler'[h].job = {j}
          /\ UNCHANGED <<trigger, fired>>
        BY <1>10, <1>a DEF Pop, TypeOK, HandlerStates
    <2>3. CASE k = j
        <3>1. waiting[j] # {} /\ waiting'[j] = {}
            BY <1>10, <1>a, <2>1, <2>3, WriterIsFirst DEF Pop, TypeOK
        <3>2. trigger[j].stage = "done"
            BY <3>1 DEF OnceInv, DeferInv, RowsCover, Covers
        <3>3. fired[j] = 0 /\ \A g \in Handlers : j \notin handler[g].job
            BY <1>a, <1>b, <2>1, <2>3, <3>1 DEF OncePerJob, Spent, TypeOK
        <3>. QED BY <2>2, <2>3, <3>1, <3>2, <3>3 DEF OncePerJob, Spent
    <2>4. CASE k # j
        <3>1. Spent(k) => Spent(k)'
            BY <1>10, <1>a, <2>4 DEF Pop, Spent, TypeOK
        <3>. QED BY <1>a, <1>b, <2>2, <2>4, <3>1, StaysOnce
    <2>. QED BY <2>3, <2>4
<1>11. ASSUME NEW h \in Handlers, Fire(h) PROVE OncePerJob(k)'
    <2>1. PICK j \in handler[h].job :
             fired' \in {fired, More(fired, j)}
        BY <1>11 DEF Fire
    <2>2. j \in Jobs
        BY <1>a, <2>1 DEF TypeOK, HandlerStates
    <2>3. /\ UNCHANGED <<waiting, trigger, slipped>>
          /\ handler'[h].job = {}
          /\ \A g \in Handlers : g # h => handler'[g].job = handler[g].job
        BY <1>11, <1>a DEF Fire, TypeOK, HandlerStates
    <2>4. CASE k = j
        <3>1. fired'[j] \in {fired[j], fired[j] + 1} /\ fired[j] \in Nat
            BY <1>a, <2>1, <2>2 DEF More, TypeOK
        <3>. QED BY <1>a, <2>1, <2>3, <2>4, <3>1 DEF OncePerJob, Spent
    <2>5. CASE k # j
        <3>1. fired'[k] = fired[k]
            BY <1>a, <2>1, <2>2, <2>5 DEF More, TypeOK
        <3>. QED BY <1>a, <1>b, <2>3, <3>1, StaysOnce DEF Spent
    <2>. QED BY <2>4, <2>5
<1>12. ASSUME NEW h \in Handlers, Return(h) \/ HandlerDies(h) PROVE OncePerJob(k)'
    <2>1. \A g \in Handlers : handler'[g].job \subseteq handler[g].job
        BY <1>12, <1>a DEF Return, HandlerDies, Idle, TypeOK
    <2>. QED BY <1>12, <1>a, <1>b, <2>1, StaysOnce DEF Return, HandlerDies, Spent, rows
<1>13. ASSUME UNCHANGED vars PROVE OncePerJob(k)'
    BY <1>13, <1>a, <1>b, StaysOnce DEF vars, rows, Spent
<1>. QED
    BY <1>1, <1>2, <1>3, <1>4, <1>5, <1>6, <1>7, <1>8, <1>9, <1>10, <1>11, <1>12, <1>13
       DEF Next, TriggerStep, HandlerStep

-----------------------------------------------------------------------------

\* Every state is well typed.
THEOREM DeferredTypeCorrect == Spec => []TypeOK
<1>1. Init => TypeOK
    BY DeferInit DEF DeferInv
<1>. QED BY <1>1, TypeStep, PTL DEF Spec

\* No payload is fired before each datasource it was parked behind had an outcome,
\* even though concurrent handlers lose each other's updates of the list.
THEOREM DeferredFiresAfterAll == Spec => []FiredAfterAll
<1>1. DeferInv => FiredAfterAll
    BY DEF DeferInv, FiredIsCovered, FiredAfterAll, Covers
<1>. QED BY <1>1, DeferInit, DeferStep, PTL DEF Spec

\* No payload is fired twice unless a handler overwrote a list it had not seen.
THEOREM DeferredFiresOnce == Spec => []FiredOnce
<1>1. Init => OnceInv
    <2>1. Init => \A j \in Jobs : OncePerJob(j)
        BY DEF Init, OncePerJob, Idle
    <2>. QED BY <2>1, DeferInit DEF OnceInv
<1>2. OnceInv => FiredOnce
    BY DEF OnceInv, OncePerJob, FiredOnce
<1>. QED BY <1>1, <1>2, OnceStep, PTL DEF Spec
=============================================================================
