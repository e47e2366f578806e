----------------------- MODULE ChatbotSchedulesProofs -----------------------
(***************************************************************************)
(* For any number of chatbots and processes, whatever is edited, restarted *)
(* or reconciled when: every state is well typed, one process at a time    *)
(* handles a firing of a chatbot, and what it triggers was wanted.         *)
(*                                                                         *)
(* None of the three is inductive.  That a run past its lock holds it      *)
(* (HoldersRun) is what keeps a second process out.  A run has to note any *)
(* moment at which the schedule is wanted, from its firing on              *)
(* (WantedIsSeen), since it looks at the row only once.  And a process     *)
(* that is down must have nothing left (DownIsIdle), or its locks would    *)
(* have a holder that never gives them back.                               *)
(***************************************************************************)
EXTENDS ChatbotSchedules, TLAPS

Stages == {"idle", "fired", "load", "trigger", "unlock"}
Holding == {"load", "trigger", "unlock"}
Registry == [Chatbots -> Times \union {None}]
Run == [at : Stages, wanted : BOOLEAN]

Request ==
    [at : {"reload"}, bot : Chatbots, drop : BOOLEAN]
    \union [at : {"register"}, bot : Chatbots, time : Times \union {None}]
    \union [at : {"delete"}, bot : Chatbots]

RequestsOK == request \in [Processes -> {None} \union Request]

DownIsIdle ==
    \A p \in Processes \ up :
        due[p] = {} /\ request[p] = None /\ \A c \in Chatbots : run[p][c].at = "idle"

HoldersRun ==
    \A p \in Processes, c \in Chatbots : run[p][c].at \in Holding => lock[c] = p

WantedIsSeen ==
    \A p \in Processes, c \in Chatbots :
        run[p][c].at # "idle" /\ Wanted(c) => run[p][c].wanted

Inv ==
    /\ TypeOK /\ RequestsOK
    /\ DownIsIdle /\ HoldersRun /\ WantedIsSeen /\ OnlyWantedRunsTrigger

-----------------------------------------------------------------------------
(* What the operators return.                                              *)

LEMMA ScheduledType == TypeOK => Scheduled \in Registry
  BY DEF TypeOK, Scheduled, Registry, Row

LEMMA IdleRun == NoRun \in Run /\ NoRun.at = "idle"
  BY DEF NoRun, Run, Stages

\* A commit notes in the runs of its chatbot whether the schedule is wanted now.
LEMMA CommitKeeps ==
  ASSUME Inv, NEW c \in Chatbots, NEW r \in Row, Commit(c, r), UNCHANGED <<lock, up>>
  PROVE  /\ row' \in [Chatbots -> Row]
         /\ edits' \in Nat
         /\ run' \in [Processes -> [Chatbots -> Run]]
         /\ \A p \in Processes, d \in Chatbots : run'[p][d].at = run[p][d].at
         /\ HoldersRun' /\ WantedIsSeen' /\ OnlyWantedRunsTrigger'
<1> USE DEF Inv, TypeOK
<1>1. row' \in [Chatbots -> Row] /\ edits' \in Nat
  BY DEF Commit
<1>2. \A p \in Processes : run[p] \in [Chatbots -> Run] /\ run'[p] = [run[p] EXCEPT
            ![c].wanted = @ \/ (r.exists /\ r.enabled)]
  BY DEF Commit, Run, Stages
<1>3. ASSUME NEW p \in Processes, NEW d \in Chatbots
      PROVE  /\ run'[p][d] \in Run
             /\ run'[p][d].at = run[p][d].at
             /\ run'[p][d].wanted =
                  (run[p][d].wanted \/ (d = c /\ r.exists /\ r.enabled))
  <2>1. r.exists \in BOOLEAN /\ r.enabled \in BOOLEAN
    BY DEF Row
  <2>2. run[p][d] \in Run /\ run[p][d].wanted \in BOOLEAN
    BY <1>2 DEF Run
  <2>3. CASE d = c
    <3>1. run'[p][d] = [run[p][d] EXCEPT !.wanted = @ \/ (r.exists /\ r.enabled)]
      BY <1>2, <2>3
    <3> QED
      BY <3>1, <2>1, <2>2, <2>3 DEF Run
  <2>4. CASE d # c
    <3>1. run'[p][d] = run[p][d]
      BY <1>2, <2>4
    <3> QED
      BY <3>1, <2>2, <2>4
  <2> QED
    BY <2>3, <2>4
<1>4. run' \in [Processes -> [Chatbots -> Run]]
  <2>1. \A p \in Processes : run'[p] \in [Chatbots -> Run]
    BY <1>2, <1>3
  <2> QED
    BY <2>1 DEF Commit
<1>5. HoldersRun'
  BY <1>3 DEF HoldersRun
<1>6. WantedIsSeen'
  <2> SUFFICES ASSUME NEW p \in Processes, NEW d \in Chatbots,
                      run'[p][d].at # "idle", Wanted(d)'
               PROVE  run'[p][d].wanted
    BY DEF WantedIsSeen
  <2>1. CASE d = c
    <3>1. row'[d] = r
      BY <2>1 DEF Commit
    <3> QED
      BY <3>1, <1>3, <2>1 DEF Wanted
  <2>2. CASE d # c
    <3>1. row'[d] = row[d]
      BY <2>2 DEF Commit
    <3>2. Wanted(d)
      BY <3>1 DEF Wanted
    <3> QED
      BY <3>2, <1>3, <2>2 DEF WantedIsSeen
  <2> QED
    BY <2>1, <2>2
<1>7. OnlyWantedRunsTrigger'
  BY <1>3 DEF OnlyWantedRunsTrigger, At
<1> QED
  BY <1>1, <1>3, <1>4, <1>5, <1>6, <1>7

\* A step that leaves the rows, the runs and the locks alone, and no process
\* that is down with anything to do, keeps what the runs rely on.
LEMMA RunsAlone ==
  ASSUME Inv, UNCHANGED <<row, run, lock>>
  PROVE  HoldersRun' /\ WantedIsSeen' /\ OnlyWantedRunsTrigger'
  BY DEF Inv, HoldersRun, WantedIsSeen, Wanted, OnlyWantedRunsTrigger, At

\* A run goes on, in a process that is up, and no other one has the lock.
LEMMA RunGoesOn ==
  ASSUME Inv, NEW p \in up, NEW c \in Chatbots, NEW r \in Run,
         run' = [run EXCEPT ![p][c] = r],
         UNCHANGED <<row, up, rows, registry, request, clock, edits, deaths>>,
         due' \in [Processes -> SUBSET Chatbots],
         \A q \in Processes : due'[q] \subseteq due[q],
         lock' \in [Chatbots -> up \union {None}],
         \A d \in Chatbots : d # c => lock'[d] = lock[d],
         \/ lock'[c] = lock[c]
         \/ \A q \in Processes \ {p} : run[q][c].at \notin Holding,
         r.at \in Holding => lock'[c] = p,
         r.at # "idle" /\ Wanted(c) => r.wanted,
         r.at = "trigger" => r.wanted
  PROVE  Inv'
<1> USE DEF Inv
<1>0. p \in Processes
  BY DEF TypeOK
<1>1. run \in [Processes -> [Chatbots -> Run]]
  BY DEF TypeOK, Run, Stages
<1>2. ASSUME NEW q \in Processes, NEW d \in Chatbots
      PROVE  run'[q][d] = IF q = p /\ d = c THEN r ELSE run[q][d]
  BY <1>0, <1>1
<1>3. run' \in [Processes -> [Chatbots -> Run]]
  BY <1>0, <1>1
<1>4. TypeOK'
  BY <1>3 DEF TypeOK, Run, Stages, Row, Times
<1>5. RequestsOK'
  BY DEF RequestsOK
<1>6. DownIsIdle'
  BY <1>0, <1>2 DEF DownIsIdle
<1>7. HoldersRun'
  <2> SUFFICES ASSUME NEW q \in Processes, NEW d \in Chatbots, run'[q][d].at \in Holding
               PROVE  lock'[d] = q
    BY DEF HoldersRun
  <2>1. CASE q = p /\ d = c
    BY <1>2, <2>1
  <2>2. CASE ~(q = p /\ d = c)
    <3>1. run[q][d].at \in Holding
      BY <1>2, <2>2
    <3>2. lock[d] = q
      BY <3>1 DEF HoldersRun
    <3> QED
      BY <3>1, <3>2, <2>2
  <2> QED
    BY <2>1, <2>2
<1>8. WantedIsSeen'
  BY <1>2 DEF WantedIsSeen, Wanted
<1>9. OnlyWantedRunsTrigger'
  BY <1>2 DEF OnlyWantedRunsTrigger, At
<1> QED
  BY <1>4, <1>5, <1>6, <1>7, <1>8, <1>9

\* Only a process that is up has anything to handle.
LEMMA RunsAreUp ==
  ASSUME Inv, NEW p \in Processes, NEW c \in Chatbots,
         run[p][c].at # "idle" \/ c \in due[p]
  PROVE  p \in up
  BY DEF Inv, DownIsIdle

\* While one process is past the lock of a chatbot, no other one is.
LEMMA HolderIsAlone ==
  ASSUME Inv, NEW p \in Processes, NEW c \in Chatbots, run[p][c].at \in Holding
  PROVE  /\ lock[c] = p
         /\ \A q \in Processes \ {p} : run[q][c].at \notin Holding
  BY DEF Inv, HoldersRun

-----------------------------------------------------------------------------
(* The steps.                                                              *)

LEMMA InvInit == Init => Inv
<1> SUFFICES ASSUME Init PROVE Inv
  OBVIOUS
<1> USE DEF Init
<1>1. TypeOK
  BY BoundsAreNumbers DEF TypeOK, Row, NoTimes, NoRun
<1>2. RequestsOK /\ DownIsIdle
  BY DEF RequestsOK, DownIsIdle
<1>3. HoldersRun /\ WantedIsSeen /\ OnlyWantedRunsTrigger
  BY DEF HoldersRun, WantedIsSeen, OnlyWantedRunsTrigger, NoRun, Holding, At
<1> QED
  BY <1>1, <1>2, <1>3 DEF Inv

\* The steps of a run.
LEMMA RunSteps ==
  ASSUME Inv, NEW p \in Processes, NEW c \in Chatbots,
         \/ Fire(p, c) \/ TryLock(p, c) \/ LoadChatbot(p, c)
         \/ TriggerReindex(p, c) \/ Unlock(p, c)
  PROVE  Inv'
<1> USE DEF dbVars, runVars, Holding
<1>1. run[p][c] \in Run /\ run \in [Processes -> [Chatbots -> Run]]
  BY DEF Inv, TypeOK, Run, Stages
<1>2. lock \in [Chatbots -> up \union {None}] /\ due \in [Processes -> SUBSET Chatbots]
  BY DEF Inv, TypeOK
<1>3. Wanted(c) \in BOOLEAN
  BY DEF Wanted, Inv, TypeOK, Row
<1>4. run[p][c].at # "idle" /\ Wanted(c) => run[p][c].wanted
  BY DEF Inv, WantedIsSeen
<1>5. NoRun \in Run /\ NoRun.at = "idle"
  BY IdleRun
<1>6. CASE Fire(p, c)
  <2>1. p \in up
    BY <1>6, RunsAreUp DEF Fire
  <2>2. /\ due' \in [Processes -> SUBSET Chatbots]
        /\ \A q \in Processes : due'[q] \subseteq due[q]
    BY <1>2, <1>6 DEF Fire
  <2>3. CASE At(p, c, "idle")
    <3> DEFINE r == [at |-> "fired", wanted |-> Wanted(c)]
    <3>1. r \in Run
      BY <1>3 DEF Run, Stages
    <3>2. run' = [run EXCEPT ![p][c] = r]
      BY <1>6, <2>3 DEF Fire
    <3> QED
      BY <1>2, <1>6, <2>1, <2>2, <3>1, <3>2, RunGoesOn DEF Fire
  <2>4. CASE ~At(p, c, "idle")
    <3>1. run' = [run EXCEPT ![p][c] = run[p][c]]
      BY <1>1, <1>6, <2>4 DEF Fire
    <3>2. run[p][c].at \in {"load", "trigger", "unlock"} => lock[c] = p
      BY DEF Inv, HoldersRun
    <3>3. run[p][c].at = "trigger" => run[p][c].wanted
      BY DEF Inv, OnlyWantedRunsTrigger, At
    <3> QED
      BY <1>1, <1>2, <1>4, <1>6, <2>1, <2>2, <3>1, <3>2, <3>3, RunGoesOn DEF Fire
  <2> QED
    BY <2>3, <2>4
<1>7. CASE TryLock(p, c)
  <2>1. p \in up
    BY <1>7, RunsAreUp DEF TryLock, At
  <2>2. CASE lock[c] = None
    <3> DEFINE r == [run[p][c] EXCEPT !.at = "load"]
    <3>1. r \in Run /\ r.at = "load" /\ r.wanted = run[p][c].wanted
      BY <1>1 DEF Run, Stages
    <3>2. run' = [run EXCEPT ![p][c] = r]
      BY <1>1, <1>7, <2>2 DEF TryLock, Goes
    <3>3. \A q \in Processes : run[q][c].at \notin {"load", "trigger", "unlock"}
      BY <2>2, NoneIsNothing DEF Inv, HoldersRun
    <3>4. lock' = [lock EXCEPT ![c] = p]
      BY <1>7, <2>2 DEF TryLock
    <3>5. /\ lock' \in [Chatbots -> up \union {None}] /\ lock'[c] = p
          /\ \A d \in Chatbots : d # c => lock'[d] = lock[d]
      BY <1>2, <2>1, <3>4
    <3> HIDE DEF r
    <3>6. r.at # "idle" /\ Wanted(c) => r.wanted
      BY <1>4, <1>7, <3>1 DEF TryLock, At
    <3> QED
      BY <1>2, <1>7, <2>1, <3>1, <3>2, <3>3, <3>5, <3>6, RunGoesOn DEF TryLock
  <2>3. CASE lock[c] # None
    <3>1. run' = [run EXCEPT ![p][c] = NoRun] /\ lock' = lock
      BY <1>7, <2>3 DEF TryLock, Stops
    <3> QED
      BY <1>2, <1>5, <1>7, <2>1, <3>1, RunGoesOn DEF TryLock
  <2> QED
    BY <2>2, <2>3
<1>8. CASE LoadChatbot(p, c)
  <2>1. p \in up
    BY <1>8, RunsAreUp DEF LoadChatbot, At
  <2> DEFINE s == IF MayReindex(c) THEN "trigger" ELSE "unlock"
  <2> DEFINE r == [run[p][c] EXCEPT !.at = s]
  <2>2. r \in Run /\ r.at = s /\ r.wanted = run[p][c].wanted
    BY <1>1 DEF Run, Stages
  <2>3. run' = [run EXCEPT ![p][c] = r]
    BY <1>1, <1>8 DEF LoadChatbot, Goes
  <2>4. lock[c] = p
    BY <1>8, HolderIsAlone DEF LoadChatbot, At
  <2>5. Wanted(c) => r.wanted
    BY <1>4, <1>8, <2>2 DEF LoadChatbot, At
  <2>6. s = "trigger" => Wanted(c)
    BY DEF MayReindex
  <2> HIDE DEF r, s
  <2> QED
    BY <1>2, <1>8, <2>1, <2>2, <2>3, <2>4, <2>5, <2>6, RunGoesOn DEF LoadChatbot
<1>9. CASE TriggerReindex(p, c)
  <2>1. p \in up
    BY <1>9, RunsAreUp DEF TriggerReindex, At
  <2> DEFINE r == [run[p][c] EXCEPT !.at = "unlock"]
  <2>2. r \in Run /\ r.at = "unlock" /\ r.wanted = run[p][c].wanted
    BY <1>1 DEF Run, Stages
  <2>3. run' = [run EXCEPT ![p][c] = r]
    BY <1>1, <1>9 DEF TriggerReindex, Goes
  <2>4. lock[c] = p
    BY <1>9, HolderIsAlone DEF TriggerReindex, At
  <2>5. Wanted(c) => r.wanted
    BY <1>4, <1>9, <2>2 DEF TriggerReindex, At
  <2> HIDE DEF r
  <2> QED
    BY <1>2, <1>9, <2>1, <2>2, <2>3, <2>4, <2>5, RunGoesOn DEF TriggerReindex
<1>10. CASE Unlock(p, c)
  <2>1. p \in up
    BY <1>10, RunsAreUp DEF Unlock, At
  <2>2. run' = [run EXCEPT ![p][c] = NoRun]
    BY <1>10 DEF Unlock, Stops
  <2>3. \A q \in Processes \ {p} : run[q][c].at \notin {"load", "trigger", "unlock"}
    BY <1>10, HolderIsAlone DEF Unlock, At
  <2>4. /\ lock' \in [Chatbots -> up \union {None}]
        /\ \A d \in Chatbots : d # c => lock'[d] = lock[d]
    BY <1>2, <1>10 DEF Unlock
  <2> QED
    BY <1>2, <1>5, <1>10, <2>1, <2>2, <2>3, <2>4, RunGoesOn DEF Unlock
<1> QED
  BY <1>6, <1>7, <1>8, <1>9, <1>10

\* The steps that touch registries and firings only.
LEMMA RegistrySteps ==
  ASSUME Inv, NEW p \in Processes,
         \/ ReadSchedules(p) \/ ApplySchedules(p) \/ Reload(p) \/ RegisterRequest(p)
         \/ BeginDelete(p) \/ ProcessStarts(p)
  PROVE  Inv'
<1> USE DEF dbVars, runVars
<1>1. HoldersRun' /\ WantedIsSeen' /\ OnlyWantedRunsTrigger'
  BY RunsAlone DEF ReadSchedules, ApplySchedules, Reload, RegisterRequest, BeginDelete, ProcessStarts
<1>2. TypeOK /\ RequestsOK /\ DownIsIdle
  BY DEF Inv
<1>3. Scheduled \in Registry
  BY <1>2, ScheduledType
<1>4. CASE ReadSchedules(p)
  <2>1. TypeOK'
    BY <1>2, <1>3, <1>4 DEF ReadSchedules, TypeOK, Registry, Row
  <2>2. RequestsOK' /\ DownIsIdle'
    BY <1>2, <1>4 DEF ReadSchedules, RequestsOK, DownIsIdle
  <2> QED
    BY <1>1, <2>1, <2>2 DEF Inv
<1>5. CASE ApplySchedules(p)
  <2>1. rows[p] \in Registry
    BY <1>2, <1>5 DEF ApplySchedules, TypeOK, Registry
  <2>2. Reconciled(p) \in Registry
    BY <2>1 DEF Reconciled, Registry
  <2>3. TypeOK'
    BY <1>2, <1>5, <2>2 DEF ApplySchedules, Register, TypeOK, Registry, Row
  <2>4. RequestsOK' /\ DownIsIdle'
    BY <1>2, <1>5 DEF ApplySchedules, Register, RequestsOK, DownIsIdle, TypeOK
  <2> QED
    BY <1>1, <2>3, <2>4 DEF Inv
<1>6. CASE Reload(p)
  <2>1. TypeOK'
    BY <1>2, <1>6 DEF Reload, TypeOK, Row
  <2>2. request[p] \in Request /\ request[p].bot \in Chatbots
    BY <1>2, <1>6 DEF Reload, RequestsOK, Request
  <2> DEFINE q == request[p]
             time == IF q.drop THEN None ELSE Scheduled[q.bot]
             answer == IF row[q.bot].exists
                       THEN [at |-> "register", bot |-> q.bot, time |-> time]
                       ELSE None
  <2>3. answer \in {None} \union Request
    BY <1>3, <2>2 DEF Request, Registry
  <2>4. request' = [request EXCEPT ![p] = answer]
    BY <1>6 DEF Reload
  <2> HIDE DEF answer
  <2>5. RequestsOK'
    BY <1>2, <2>3, <2>4 DEF RequestsOK
  <2>6. p \in up
    BY <1>2, <1>6 DEF Reload, DownIsIdle
  <2>7. DownIsIdle'
    BY <1>2, <1>6, <2>4, <2>6 DEF Reload, DownIsIdle, RequestsOK
  <2> QED
    BY <1>1, <2>1, <2>5, <2>7 DEF Inv
<1>7. CASE RegisterRequest(p)
  <2>1. request[p] \in Request /\ request[p].at = "register"
    BY <1>2, <1>7 DEF RegisterRequest, RequestsOK
  <2>2. request[p].time \in Times \union {None}
    BY <2>1 DEF Request
  <2>3. registry' \in [Processes -> [Chatbots -> Times \union {None}]]
    BY <1>2, <1>7, <2>2 DEF RegisterRequest, TypeOK
  <2>4. due' \in [Processes -> SUBSET Chatbots] /\ \A q \in Processes : due'[q] \subseteq due[q]
    BY <1>2, <1>7 DEF RegisterRequest, TypeOK
  <2>5. TypeOK'
    BY <1>2, <1>7, <2>3, <2>4 DEF RegisterRequest, TypeOK, Row
  <2>6. RequestsOK'
    BY <1>2, <1>7 DEF RegisterRequest, RequestsOK
  <2>7. DownIsIdle'
    BY <1>2, <1>7, <2>4 DEF RegisterRequest, DownIsIdle, RequestsOK
  <2> QED
    BY <1>1, <2>5, <2>6, <2>7 DEF Inv
<1>8. CASE BeginDelete(p)
  <2>1. PICK c \in Chatbots :
          /\ Serves(p, c)
          /\ registry' = [registry EXCEPT ![p][c] = None]
          /\ due' = [due EXCEPT ![p] = @ \ {c}]
          /\ request' = [request EXCEPT ![p] = [at |-> "delete", bot |-> c]]
          /\ UNCHANGED <<dbVars, runVars, up, rows, clock, deaths>>
    BY <1>8 DEF BeginDelete
  <2>2. TypeOK'
    BY <1>2, <2>1 DEF TypeOK, Row
  <2>3. [at |-> "delete", bot |-> c] \in Request
    BY DEF Request
  <2>4. RequestsOK'
    BY <1>2, <2>1, <2>3 DEF RequestsOK
  <2>5. DownIsIdle'
    BY <1>2, <2>1 DEF DownIsIdle, Serves, TypeOK, RequestsOK
  <2> QED
    BY <1>1, <2>2, <2>4, <2>5 DEF Inv
<1>9. CASE ProcessStarts(p)
  <2>1. TypeOK'
    BY <1>2, <1>3, <1>9 DEF ProcessStarts, TypeOK, Registry, Row
  <2>2. RequestsOK' /\ DownIsIdle'
    BY <1>2, <1>9 DEF ProcessStarts, RequestsOK, DownIsIdle
  <2> QED
    BY <1>1, <2>1, <2>2 DEF Inv
<1> QED
  BY <1>4, <1>5, <1>6, <1>7, <1>8, <1>9

LEMMA TickStep == ASSUME Inv, Tick PROVE Inv'
<1> USE DEF Tick, dbVars
<1>1. HoldersRun' /\ WantedIsSeen' /\ OnlyWantedRunsTrigger'
  BY RunsAlone
<1>2. TypeOK'
  BY BoundsAreNumbers DEF Inv, TypeOK, Row
<1>3. RequestsOK' /\ DownIsIdle'
  BY DEF Inv, RequestsOK, DownIsIdle
<1> QED
  BY <1>1, <1>2, <1>3 DEF Inv

\* A commit by the request of a process that is up.
LEMMA CommitSteps ==
  ASSUME Inv, NEW p \in Processes, NEW c \in Chatbots, NEW r \in Row, Commit(c, r),
         p \in up, request' \in [Processes -> {None} \union Request],
         \A q \in Processes : q # p => request'[q] = request[q],
         UNCHANGED <<lock, up, registry, due, rows, clock, deaths>>
  PROVE  Inv'
<1>1. TypeOK /\ RequestsOK /\ DownIsIdle
  BY DEF Inv
<1>2. /\ row' \in [Chatbots -> Row]
      /\ edits' \in Nat
      /\ run' \in [Processes -> [Chatbots -> Run]]
      /\ \A q \in Processes, d \in Chatbots : run'[q][d].at = run[q][d].at
      /\ HoldersRun' /\ WantedIsSeen' /\ OnlyWantedRunsTrigger'
  BY CommitKeeps
<1>3. TypeOK'
  BY <1>1, <1>2 DEF TypeOK, Run, Stages, Row
<1>4. RequestsOK'
  BY DEF RequestsOK
<1>5. DownIsIdle'
  BY <1>1, <1>2 DEF DownIsIdle
<1> QED
  BY <1>2, <1>3, <1>4, <1>5 DEF Inv

\* The requests that commit.
LEMMA RequestSteps ==
  ASSUME Inv, NEW p \in Processes, SetSchedule(p) \/ SwitchOff(p) \/ DeleteChatbot(p)
  PROVE  Inv'
<1>1. TypeOK /\ RequestsOK /\ DownIsIdle
  BY DEF Inv
<1>2. request \in [Processes -> {None} \union Request]
  BY <1>1 DEF RequestsOK
<1>3. CASE SetSchedule(p)
  <2>1. PICK c \in Chatbots, t \in Times :
          /\ Serves(p, c)
          /\ row[c].useful
          /\ Commit(c, [row[c] EXCEPT !.enabled = TRUE, !.time = t])
          /\ request' = [request EXCEPT ![p] = [at |-> "reload", bot |-> c, drop |-> FALSE]]
          /\ UNCHANGED <<lock, up, registry, due, rows, clock, deaths>>
    BY <1>3 DEF SetSchedule
  <2>2. [row[c] EXCEPT !.enabled = TRUE, !.time = t] \in Row
    <3>1. row[c] \in Row
      BY <1>1 DEF TypeOK
    <3> QED
      BY <3>1 DEF Row
  <2>3. [at |-> "reload", bot |-> c, drop |-> FALSE] \in Request
    BY DEF Request
  <2> QED
    BY <1>2, <2>1, <2>2, <2>3, CommitSteps DEF Serves
<1>4. CASE SwitchOff(p)
  <2>1. PICK c \in Chatbots, drop \in BOOLEAN :
          /\ Serves(p, c)
          /\ Commit(c, [row[c] EXCEPT !.enabled = FALSE])
          /\ request' = [request EXCEPT ![p] = [at |-> "reload", bot |-> c, drop |-> drop]]
          /\ UNCHANGED <<lock, up, registry, due, rows, clock, deaths>>
    BY <1>4 DEF SwitchOff
  <2>2. [row[c] EXCEPT !.enabled = FALSE] \in Row
    <3>1. row[c] \in Row
      BY <1>1 DEF TypeOK
    <3> QED
      BY <3>1 DEF Row
  <2>3. [at |-> "reload", bot |-> c, drop |-> drop] \in Request
    BY DEF Request
  <2> QED
    BY <1>2, <2>1, <2>2, <2>3, CommitSteps DEF Serves
<1>5. CASE DeleteChatbot(p)
  <2> DEFINE c == request[p].bot
  <2>1. c \in Chatbots
    BY <1>2, <1>5 DEF DeleteChatbot, Request
  <2>2. [row[c] EXCEPT !.exists = FALSE] \in Row
    <3>1. row[c] \in Row
      BY <1>1, <2>1 DEF TypeOK
    <3> QED
      BY <3>1 DEF Row
  <2>3. p \in up
    BY <1>1, <1>5 DEF DeleteChatbot, DownIsIdle
  <2>4. /\ Commit(c, [row[c] EXCEPT !.exists = FALSE])
        /\ request' = [request EXCEPT ![p] = None]
        /\ UNCHANGED <<lock, up, registry, due, rows, clock, deaths>>
    BY <1>5 DEF DeleteChatbot
  <2>5. /\ request' \in [Processes -> {None} \union Request]
        /\ \A q \in Processes : q # p => request'[q] = request[q]
    BY <1>2, <2>4
  <2> HIDE DEF c
  <2> QED
    BY <2>1, <2>2, <2>3, <2>4, <2>5, CommitSteps
<1> QED
  BY <1>3, <1>4, <1>5

LEMMA ToggleStep == ASSUME Inv, NEW c \in Chatbots, ToggleUseful(c) PROVE Inv'
<1> USE DEF ToggleUseful, runVars
<1>1. TypeOK /\ RequestsOK /\ DownIsIdle
  BY DEF Inv
<1>2. /\ row' \in [Chatbots -> Row]
      /\ \A d \in Chatbots : /\ row'[d].exists = row[d].exists
                             /\ row'[d].enabled = row[d].enabled
  BY <1>1 DEF TypeOK, Row
<1>3. TypeOK'
  BY <1>1, <1>2 DEF TypeOK, Row
<1>4. RequestsOK' /\ DownIsIdle' /\ HoldersRun' /\ OnlyWantedRunsTrigger'
  BY DEF Inv, RequestsOK, DownIsIdle, HoldersRun, OnlyWantedRunsTrigger, At
<1>5. WantedIsSeen'
  BY <1>2 DEF Inv, WantedIsSeen, Wanted
<1> QED
  BY <1>3, <1>4, <1>5 DEF Inv

\* A process takes everything it holds with it when it stops.
LEMMA DeathStep == ASSUME Inv, NEW p \in Processes, ProcessDies(p) PROVE Inv'
<1> USE DEF ProcessDies, dbVars
<1>1. TypeOK /\ RequestsOK /\ DownIsIdle
  BY DEF Inv
<1>2. NoTimes \in Registry /\ [c \in Chatbots |-> NoRun] \in [Chatbots -> Run]
  BY IdleRun DEF NoTimes, Registry
<1>3. /\ run' \in [Processes -> [Chatbots -> Run]]
      /\ \A c \in Chatbots : run'[p][c].at = "idle"
      /\ \A q \in Processes, c \in Chatbots : q # p => run'[q][c] = run[q][c]
  BY <1>1, <1>2, IdleRun DEF TypeOK, Run, Stages
<1>4. LocksWithout(p) \in [Chatbots -> (up \ {p}) \union {None}]
  BY <1>1 DEF LocksWithout, TypeOK
<1>5. TypeOK'
  BY <1>1, <1>2, <1>3, <1>4 DEF TypeOK, Run, Stages, Registry, Row
<1>6. RequestsOK'
  BY <1>1 DEF RequestsOK
<1>7. DownIsIdle'
  BY <1>1, <1>3 DEF DownIsIdle, TypeOK, RequestsOK
<1>8. HoldersRun'
  BY <1>3 DEF Inv, HoldersRun, Holding, LocksWithout
<1>9. WantedIsSeen'
  BY <1>3 DEF Inv, WantedIsSeen, Wanted
<1>10. OnlyWantedRunsTrigger'
  BY <1>3 DEF Inv, OnlyWantedRunsTrigger, At
<1> QED
  BY <1>5, <1>6, <1>7, <1>8, <1>9, <1>10 DEF Inv

LEMMA InvStep == Inv /\ [Next]_vars => Inv'
<1> SUFFICES ASSUME Inv, [Next]_vars PROVE Inv'
  OBVIOUS
<1>1. CASE Tick
  BY <1>1, TickStep
<1>2. ASSUME NEW c \in Chatbots, ToggleUseful(c) PROVE Inv'
  BY <1>2, ToggleStep
<1>3. ASSUME NEW p \in Processes,
             \/ ReadSchedules(p) \/ ApplySchedules(p) \/ Reload(p) \/ RegisterRequest(p)
             \/ BeginDelete(p) \/ ProcessStarts(p)
      PROVE  Inv'
  BY <1>3, RegistrySteps
<1>4. ASSUME NEW p \in Processes, SetSchedule(p) \/ SwitchOff(p) \/ DeleteChatbot(p)
      PROVE  Inv'
  BY <1>4, RequestSteps
<1>5. ASSUME NEW p \in Processes, ProcessDies(p) PROVE Inv'
  BY <1>5, DeathStep
<1>6. ASSUME NEW p \in Processes, NEW c \in Chatbots,
             \/ Fire(p, c) \/ TryLock(p, c) \/ LoadChatbot(p, c)
             \/ TriggerReindex(p, c) \/ Unlock(p, c)
      PROVE  Inv'
  BY <1>6, RunSteps
<1>7. CASE UNCHANGED vars
  <2>1. HoldersRun' /\ WantedIsSeen' /\ OnlyWantedRunsTrigger'
    BY <1>7, RunsAlone DEF vars, dbVars, runVars
  <2>2. TypeOK' /\ RequestsOK' /\ DownIsIdle'
    BY <1>7 DEF Inv, TypeOK, RequestsOK, DownIsIdle, Row, vars, dbVars, runVars
  <2> QED
    BY <2>1, <2>2 DEF Inv
<1> QED
  BY <1>1, <1>2, <1>3, <1>4, <1>5, <1>6, <1>7 DEF Next

-----------------------------------------------------------------------------
\* Every state the schedules, registries, firings and locks get into is one
\* the code gives them, and only running processes hold locks.
THEOREM SchedulesTypeCorrect == Spec => []TypeOK
<1>1. Inv => TypeOK
  BY DEF Inv
<1> QED
  BY <1>1, InvInit, InvStep, PTL DEF Spec

\* At any time at most one process handles a firing of a chatbot, whatever
\* processes fire, stop and start again.
THEOREM OneRunCorrect == Spec => []OneRunAtATime
<1>1. Inv => OneRunAtATime
  <2> SUFFICES ASSUME Inv, NEW c \in Chatbots, NEW p \in Processes, NEW q \in Processes,
                      run[p][c].at \notin {"idle", "fired"},
                      run[q][c].at \notin {"idle", "fired"}
               PROVE  p = q /\ lock[c] = p
    BY DEF OneRunAtATime
  <2>1. run[p][c].at \in Holding /\ run[q][c].at \in Holding
    BY DEF Inv, TypeOK, Holding
  <2> QED
    BY <2>1 DEF Inv, HoldersRun
<1> QED
  BY <1>1, InvInit, InvStep, PTL DEF Spec

\* However old the registration that fired, no process reindexes a chatbot
\* that was not to be reindexed at any moment of the firing.
THEOREM OnlyWantedCorrect == Spec => []OnlyWantedRunsTrigger
<1>1. Inv => OnlyWantedRunsTrigger
  BY DEF Inv
<1> QED
  BY <1>1, InvInit, InvStep, PTL DEF Spec

=============================================================================
