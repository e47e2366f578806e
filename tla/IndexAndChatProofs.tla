------------------------- MODULE IndexAndChatProofs -------------------------
(***************************************************************************)
(* Proofs about the index, as its syncs build it and as a chat queries it. *)
(*                                                                         *)
(* The index (IndexSync), for any files, versions, configs, failures and   *)
(* edits: every state of the index and its syncs is well typed, what a     *)
(* sync reports is indexed, a completed sync serves nothing that is not    *)
(* selected, and configs are not mixed, but for the failures that each     *)
(* property names.  None of this is inductive.  SyncOK accounts for the    *)
(* files of a sync at each phase, RemoteOK for the pipeline jobs; both     *)
(* hold whatever fails.  On top of them ConfigOK, IndexedOK and            *)
(* SelectionOK say what holds as long as nothing goes wrong unnoticed: a   *)
(* collection that still has to be recreated may hold anything, and once   *)
(* it no longer has to, it holds what this sync wrote.  A recreation that  *)
(* is already done while the sync does not know it yet needs a conjunct of *)
(* its own in each.                                                        *)
(*                                                                         *)
(* The conversation (Chat), for any names, questions, answers, chunks and  *)
(* bounds: names neither leave nor stay away, and a query has the config   *)
(* of the collection it is put to.  Most of it is about texts of any       *)
(* length: that a substitution goes text by text where no placeholder is   *)
(* cut, and what it makes of a text in which names are spelled as          *)
(* placeholders.                                                           *)
(***************************************************************************)
EXTENDS IndexSync, Chat, FiniteSetTheorems, SequenceTheorems, WellFoundedInduction, TLAPS

-----------------------------------------------------------------------------
(* The index.                                                              *)


\* What a sync has in hand at each of its phases: every file collected is still
\* to be ingested, being ingested, or counted, and a collection to be recreated
\* has none that succeeded.
SyncOK ==
    /\ sync.phase \in {"idle", "collect", "compare"} =>
          sync.todo = {} /\ sync.ok = {} /\ sync.skipped = {} /\ sync.bad = {}
    /\ sync.phase = "prepare" => sync.ok = {} /\ sync.bad = {}
    /\ sync.phase \in {"collect", "compare"} => sync.recreate = sync.force
    /\ sync.phase \in {"submit", "await"} =>
          /\ sync.job \in Jobs
          /\ sync.job.file \in Stored(sync.wanted)
          /\ sync.job.file \notin sync.todo \cup sync.ok \cup sync.skipped
          /\ sync.job.version = sync.wanted[sync.job.file]
          /\ sync.job.config = sync.config
          /\ sync.job.recreate => sync.recreate
    /\ sync.phase \notin {"submit", "await"} => sync.job = NoJob
    /\ sync.todo \cup sync.ok \cup sync.skipped \subseteq Stored(sync.wanted)
    /\ sync.todo \cap (sync.ok \cup sync.skipped) = {}
    /\ sync.recreate => sync.force /\ sync.ok = {}
    /\ sync.force => sync.skipped = {}
    /\ sync.phase \in {"prepare", "ingest", "submit", "await", "completed"} =>
          \A f \in Stored(sync.wanted) :
             \/ f \in sync.todo \cup sync.ok \cup sync.skipped \cup sync.bad
             \/ sync.phase \in {"submit", "await"} /\ f = sync.job.file
    /\ sync.phase = "completed" => sync.todo = {}
    /\ sync.phase = "completed" /\ sync.ok \cup sync.skipped = {} => Stored(sync.wanted) = {}

\* No pipeline job but the one waited for, unless one outlived its wait.
RemoteOK ==
    "outlive" \notin unseen => remote \subseteq {h \in {sync.job} : sync.phase = "await"}

SyncInv == TypeOK /\ SyncOK /\ RemoteOK

-----------------------------------------------------------------------------
(* Types and shapes.                                                       *)

LEMMA NoSyncType == NoSync \in Syncs
  BY IndexAssumption DEF NoSync, Syncs, Phases, Configs, Versions

LEMMA IdleOK == ASSUME sync' = NoSync PROVE SyncOK'
  BY DEF SyncOK, NoSync, Stored

LEMMA SyncInit == Init => SyncInv
  BY NoSyncType, IndexAssumption
  DEF Init, SyncInv, TypeOK, SyncOK, RemoteOK, Versions, Configs, NoSync, Stored

LEMMA FaultType ==
  ASSUME TypeOK,
         \/ Fault \/ UNCHANGED faultVars
         \/ \E what \in Unseen : UnseenFault(what)
  PROVE  faults' \in 0 .. MaxFaults /\ unseen' \subseteq Unseen /\ unseen \subseteq unseen'
  BY IndexAssumption DEF TypeOK, Fault, UnseenFault, faultVars

\* The edits around a sync.
LEMMA EditSteps ==
  ASSUME SyncInv, Redeploy \/ \E f \in Files : EditFile(f)
  PROVE  SyncInv'
<1> USE DEF SyncInv
<1>1. ASSUME NEW f \in Files, EditFile(f) PROVE SyncInv'
  <2>1. TypeOK'
    BY <1>1, IndexAssumption DEF TypeOK, EditFile, faultVars, indexVars
  <2> QED
    BY <1>1, <2>1 DEF EditFile, SyncOK, RemoteOK, faultVars
<1>2. CASE Redeploy
  <2>1. faults' \in 0 .. MaxFaults /\ unseen' \subseteq Unseen /\ unseen \subseteq unseen'
    BY <1>2, FaultType DEF Redeploy, Unseen
  <2>2. TypeOK'
    BY <1>2, <2>1, IndexAssumption DEF TypeOK, Redeploy, indexVars, Configs
  <2> QED
    BY <1>2, <2>1, <2>2 DEF Redeploy, SyncOK, RemoteOK
<1> QED
  BY <1>1, <1>2

LEMMA TriggerStep == ASSUME SyncInv, Trigger PROVE SyncInv'
<1> USE DEF SyncInv
<1>1. PICK asked \in BOOLEAN, selected \in BOOLEAN :
        /\ \/ asked /\ edits < MaxEdits /\ edits' = edits + 1
           \/ ~asked /\ UNCHANGED edits
        /\ LET force == asked \/ RebuildNeeded IN
           sync' = [NoSync EXCEPT !.phase = "collect",
                                  !.force = force,
                                  !.config = IF force THEN desired ELSE manifest,
                                  !.selected = selected,
                                  !.wanted = storage,
                                  !.recreate = force]
  BY DEF Trigger
<1> DEFINE force == asked \/ RebuildNeeded
<1>2. force \in BOOLEAN /\ (~force => manifest \in Configs)
  BY DEF RebuildNeeded, TypeOK
<1> HIDE DEF force
<1>3. sync' = [phase |-> "collect", force |-> force,
               config |-> IF force THEN desired ELSE manifest, selected |-> selected,
               wanted |-> storage, todo |-> {}, replace |-> {}, recreate |-> force,
               job |-> NoJob, ok |-> {}, skipped |-> {}, bad |-> {}]
  BY <1>1 DEF NoSync, force
<1>4. sync' \in Syncs
  BY <1>2, <1>3 DEF TypeOK, Syncs, Phases
<1>5. edits' \in 0 .. MaxEdits
  BY <1>1, IndexAssumption DEF TypeOK
<1>6. TypeOK'
  BY <1>4, <1>5 DEF TypeOK, Trigger, faultVars, indexVars
<1>7. SyncOK'
  BY <1>2, <1>3 DEF SyncOK, Stored
<1>8. RemoteOK'
  BY DEF RemoteOK, Trigger, faultVars
<1> QED
  BY <1>6, <1>7, <1>8

LEMMA CollectStep == ASSUME SyncInv, Collect PROVE SyncInv'
<1> USE DEF SyncInv
<1>1. PICK objects \in [Files -> Versions \cup {Gone}] :
        /\ UNCHANGED faultVars \/ UnseenFault("listing")
        /\ sync' = [sync EXCEPT !.phase = "compare", !.wanted = objects]
  BY DEF Collect
<1>2. faults' \in 0 .. MaxFaults /\ unseen' \subseteq Unseen /\ unseen \subseteq unseen'
  BY <1>1, FaultType DEF Unseen
<1>3. sync' \in Syncs
  BY <1>1 DEF TypeOK, Syncs, Phases
<1>4. chunks' \subseteq Chunks
  BY DEF Collect, TypeOK
<1>5. TypeOK'
  BY <1>2, <1>3, <1>4 DEF TypeOK, Collect
<1>6. SyncOK'
  BY <1>1 DEF SyncOK, Collect, TypeOK, Syncs
<1>7. RemoteOK'
  BY <1>2 DEF RemoteOK, Collect
<1> QED
  BY <1>5, <1>6, <1>7

LEMMA CompareSteps ==
  ASSUME SyncInv, CompareNothing \/ ClearIndex \/ CompareForced
  PROVE  SyncInv'
<1> USE DEF SyncInv, indexVars, faultVars
<1>1. unseen' \subseteq Unseen /\ unseen \subseteq unseen'
  BY DEF CompareNothing, ClearIndex, CompareForced, NothingBuilt, TypeOK, Unseen
<1>2. faults' \in 0 .. MaxFaults /\ chunks' \subseteq Chunks
  BY IndexAssumption DEF CompareNothing, ClearIndex, CompareForced, TypeOK, ChunksUnder
<1>3. CASE CompareForced
  <2>1. TypeOK'
    BY <1>1, <1>2, <1>3 DEF CompareForced, TypeOK, Syncs, Phases, Stored
  <2>2. SyncOK'
    BY <1>3 DEF CompareForced, SyncOK, TypeOK, Syncs
  <2> QED
    BY <1>1, <1>3, <2>1, <2>2 DEF RemoteOK, CompareForced
<1>4. CASE CompareNothing \/ ClearIndex
  <2>1. sync' = [sync EXCEPT !.phase = "ingest"] /\ Stored(sync.wanted) = {}
    BY <1>4 DEF CompareNothing, ClearIndex
  <2>2. TypeOK'
    BY <1>1, <1>2, <1>4, <2>1 DEF CompareNothing, ClearIndex, TypeOK, Syncs, Phases
  <2>3. SyncOK'
    BY <1>4, <2>1 DEF CompareNothing, ClearIndex, SyncOK, TypeOK, Syncs
  <2> QED
    BY <1>1, <1>4, <2>2, <2>3 DEF RemoteOK, CompareNothing, ClearIndex
<1> QED
  BY <1>3, <1>4

LEMMA IncrementalStep == ASSUME SyncInv, CompareIncremental PROVE SyncInv'
<1> USE DEF SyncInv
<1>1. PICK inventory \in [Keys -> Versions \cup {Gone}] :
        /\ LET todo == Stored(sync.wanted) \ Unchanged(inventory) IN
           sync' = [sync EXCEPT !.phase = "prepare",
                                !.todo = todo,
                                !.skipped = Unchanged(inventory),
                                !.replace = {k \in Keys : /\ inventory[k] # Gone
                                                          /\ \E f \in todo : Key[f] = k}]
        /\ UNCHANGED faultVars \/ UnseenFault("orphanDelete")
  BY DEF CompareIncremental
<1>2. faults' \in 0 .. MaxFaults /\ unseen' \subseteq Unseen /\ unseen \subseteq unseen'
  BY <1>1, FaultType DEF Unseen
<1>3. sync' \in Syncs
  BY <1>1 DEF TypeOK, Syncs, Phases, Stored, Unchanged
<1>4. chunks' \subseteq Chunks
  BY DEF CompareIncremental, TypeOK
<1>5. TypeOK'
  BY <1>2, <1>3, <1>4 DEF TypeOK, CompareIncremental
<1>6. SyncOK'
  BY <1>1 DEF SyncOK, CompareIncremental, TypeOK, Syncs, Unchanged
<1>7. RemoteOK'
  BY <1>2 DEF RemoteOK, CompareIncremental
<1> QED
  BY <1>5, <1>6, <1>7

LEMMA PrepareStep == ASSUME SyncInv, Prepare PROVE SyncInv'
<1> USE DEF SyncInv
<1>1. PICK lost \in SUBSET sync.todo :
        sync' = [sync EXCEPT !.phase = "ingest", !.todo = @ \ lost, !.bad = lost]
  BY DEF Prepare
<1>2. faults' \in 0 .. MaxFaults /\ unseen' \subseteq Unseen /\ unseen \subseteq unseen'
  BY FaultType DEF Prepare
<1>3. TypeOK'
  BY <1>1, <1>2 DEF TypeOK, Prepare, indexVars, Syncs, Phases
<1>4. SyncOK'
  <2>1. sync.phase = "prepare"
    BY DEF Prepare
  <2> QED
    BY <1>1, <2>1 DEF SyncOK, TypeOK, Syncs
<1>5. RemoteOK'
  BY <1>2 DEF RemoteOK, Prepare
<1> QED
  BY <1>3, <1>4, <1>5

\* A file whose ingestion starts is no longer to be ingested and not yet counted.
LEMMA StartStep == ASSUME SyncInv, NEW f \in Files, StartFile(f) PROVE SyncInv'
<1> USE DEF SyncInv
<1> DEFINE job == [file |-> f, version |-> sync.wanted[f],
                   config |-> sync.config, recreate |-> sync.recreate]
<1>1. faults' \in 0 .. MaxFaults /\ unseen' \subseteq Unseen /\ unseen \subseteq unseen'
  BY FaultType DEF StartFile, Unseen
<1>2. chunks' \subseteq Chunks
  BY DEF StartFile, TypeOK
<1>3. sync \in Syncs /\ sync.phase = "ingest" /\ f \in sync.todo
  BY DEF StartFile, TypeOK
<1>4. f \in Stored(sync.wanted) /\ sync.wanted[f] \in Versions
  BY <1>3 DEF SyncOK, Stored, Syncs
<1>5. job \in Jobs
  BY <1>3, <1>4 DEF Jobs, Syncs
<1>6. \/ sync' = [sync EXCEPT !.todo = @ \ {f}, !.bad = @ \cup {f}]
      \/ \E replace \in SUBSET Keys :
            sync' = [sync EXCEPT !.todo = @ \ {f}, !.phase = "submit", !.job = job,
                                 !.replace = replace]
  <2> DEFINE Started(replace) == [sync EXCEPT !.todo = @ \ {f}, !.phase = "submit",
                                              !.job = job, !.replace = replace]
  <2>1. \/ sync' = [sync EXCEPT !.todo = @ \ {f}, !.bad = @ \cup {f}]
        \/ sync' = Started(sync.replace)
        \/ sync' = Started(sync.replace \ {Key[f]})
    BY <1>3 DEF StartFile, Syncs
  <2>2. sync.replace \in SUBSET Keys /\ sync.replace \ {Key[f]} \in SUBSET Keys
    BY <1>3 DEF Syncs
  <2> QED
    BY <2>1, <2>2
<1>7. CASE sync' = [sync EXCEPT !.todo = @ \ {f}, !.bad = @ \cup {f}]
  <2>1. sync' \in Syncs
    BY <1>3, <1>7 DEF Syncs
  <2>2. SyncOK'
    BY <1>3, <1>7 DEF SyncOK, Syncs
  <2>3. TypeOK'
    BY <1>1, <1>2, <2>1 DEF TypeOK, StartFile
  <2>4. RemoteOK'
    BY <1>1, <1>3, <1>7 DEF RemoteOK, StartFile, Syncs
  <2> QED
    BY <2>2, <2>3, <2>4
<1>8. ASSUME NEW replace \in SUBSET Keys,
             sync' = [sync EXCEPT !.todo = @ \ {f}, !.phase = "submit", !.job = job,
                                  !.replace = replace]
      PROVE  SyncInv'
  <2> HIDE DEF job
  <2>1. sync' \in Syncs
    BY <1>3, <1>5, <1>8 DEF Syncs, Phases
  <2>2. /\ job.file = f /\ job.version = sync.wanted[f]
        /\ job.config = sync.config /\ job.recreate = sync.recreate
    BY DEF job
  <2>3. SyncOK'
    BY <1>3, <1>4, <1>5, <1>8, <2>2 DEF SyncOK, Syncs
  <2>4. TypeOK'
    BY <1>1, <1>2, <2>1 DEF TypeOK, StartFile
  <2>5. RemoteOK'
    BY <1>1, <1>3, <1>8 DEF RemoteOK, StartFile, Syncs
  <2> QED
    BY <2>3, <2>4, <2>5
<1> QED
  BY <1>6, <1>7, <1>8

\* However the file in hand ends, the next one may start.
LEMMA FileEndsOK ==
  ASSUME SyncInv, sync.phase \in {"submit", "await"}
  PROVE  sync' \in {FileFails, Succeeds} => /\ sync' \in Syncs /\ SyncOK'
                                           /\ sync'.phase = "ingest"
<1>1. sync \in Syncs /\ sync.job \in Jobs /\ SyncOK
  BY DEF SyncInv, SyncOK, TypeOK
<1>2. sync.job.file \in Files
  BY <1>1 DEF Jobs
<1>3. CASE sync' = FileFails
  <2>1. sync' = [sync EXCEPT !.phase = "ingest", !.job = NoJob,
                             !.bad = @ \cup {sync.job.file}]
    BY <1>1, <1>3 DEF FileFails, FileEnds, Syncs
  <2>2. sync' \in Syncs
    BY <1>1, <1>2, <2>1 DEF Syncs, Phases
  <2> QED
    BY <1>1, <2>1, <2>2 DEF SyncOK, Syncs
<1>4. CASE sync' = Succeeds
  <2>1. sync' = [sync EXCEPT !.phase = "ingest", !.job = NoJob, !.recreate = FALSE,
                             !.ok = @ \cup {sync.job.file}]
    BY <1>1, <1>4 DEF Succeeds, FileEnds, Syncs
  <2>2. sync' \in Syncs
    BY <1>1, <1>2, <2>1 DEF Syncs, Phases
  <2> QED
    BY <1>1, <2>1, <2>2 DEF SyncOK, Syncs
<1> QED
  BY <1>3, <1>4

LEMMA SubmitSteps == ASSUME SyncInv, Submit \/ GiveUp \/ EndSync PROVE SyncInv'
<1> USE DEF SyncInv, indexVars
<1>1. faults' \in 0 .. MaxFaults /\ unseen' \subseteq Unseen /\ unseen \subseteq unseen'
  BY FaultType DEF Submit, GiveUp, EndSync, Unseen
<1>2. sync \in Syncs
  BY DEF TypeOK
<1>3. CASE Submit
  <2>1. sync.phase = "submit" /\ sync.job \in Jobs
    BY <1>3 DEF Submit, SyncOK
  <2>2. CASE sync' = FileFails
    <3>1. sync' \in Syncs /\ SyncOK' /\ sync'.phase = "ingest"
      BY <2>1, <2>2, FileEndsOK
    <3>2. TypeOK'
      BY <1>1, <1>3, <2>1, <3>1 DEF TypeOK, Submit
    <3>3. RemoteOK'
      <4>1. \/ UNCHANGED unseen /\ UNCHANGED remote
            \/ "outlive" \in unseen'
        BY <1>2, <1>3, <3>1 DEF Submit, Fault, UnseenFault, Syncs
      <4> QED
        BY <2>1, <4>1 DEF RemoteOK
    <3> QED
      BY <3>1, <3>2, <3>3
  <2>3. CASE sync' = [sync EXCEPT !.phase = "await"] /\ remote' = remote \cup {sync.job}
    <3>1. sync' \in Syncs
      BY <1>2, <2>3 DEF Syncs, Phases
    <3>2. SyncOK'
      BY <1>2, <2>1, <2>3 DEF SyncOK, Syncs
    <3>3. TypeOK'
      BY <1>1, <1>3, <2>1, <2>3, <3>1 DEF TypeOK, Submit
    <3>4. RemoteOK'
      BY <1>1, <1>2, <2>1, <2>3 DEF RemoteOK, Syncs
    <3> QED
      BY <3>2, <3>3, <3>4
  <2> QED
    BY <1>3, <2>2, <2>3 DEF Submit
<1>4. CASE GiveUp
  <2>1. sync' \in Syncs /\ SyncOK'
    BY <1>4, FileEndsOK DEF GiveUp
  <2>2. TypeOK'
    BY <1>1, <1>4, <2>1 DEF TypeOK, GiveUp
  <2>3. RemoteOK'
    BY <1>4 DEF RemoteOK, GiveUp, Fault, UnseenFault, TypeOK
  <2> QED
    BY <2>1, <2>2, <2>3
<1>5. CASE EndSync
  <2>1. sync' \in Syncs /\ SyncOK'
    BY <1>5, NoSyncType, IdleOK DEF EndSync
  <2>2. TypeOK'
    BY <1>1, <1>5, <2>1 DEF TypeOK, EndSync
  <2>3. RemoteOK'
    BY <1>5 DEF RemoteOK, EndSync, Fault, UnseenFault, TypeOK
  <2> QED
    BY <2>1, <2>2, <2>3
<1> QED
  BY <1>3, <1>4, <1>5

LEMMA ReportSteps == ASSUME SyncInv, Report \/ Stamp \/ InventoryFails PROVE SyncInv'
<1> USE DEF SyncInv, indexVars
<1>1. faults' \in 0 .. MaxFaults /\ unseen' \subseteq Unseen /\ unseen \subseteq unseen'
  BY FaultType DEF Report, Stamp, InventoryFails
<1>2. CASE sync' = NoSync
  <2>1. sync' \in Syncs /\ SyncOK'
    BY <1>2, NoSyncType, IdleOK
  <2>2. TypeOK'
    BY <1>1, <2>1 DEF TypeOK, Report, Stamp, InventoryFails
  <2>3. remote' = remote /\ sync.phase # "await"
    BY DEF Report, Stamp, InventoryFails
  <2>4. RemoteOK'
    BY <1>1, <2>3 DEF RemoteOK
  <2> QED
    BY <2>1, <2>2, <2>4
<1>3. CASE Report /\ sync' # NoSync
  <2>1. /\ sync' = [sync EXCEPT !.phase = "completed"] /\ sync.phase = "ingest"
        /\ sync.todo = {} /\ (sync.ok \cup sync.skipped # {} \/ sync.bad = {})
    BY <1>3 DEF Report
  <2>2. sync' \in Syncs
    BY <2>1 DEF TypeOK, Syncs, Phases
  <2>3. SyncOK'
    BY <2>1 DEF SyncOK, TypeOK, Syncs
  <2>4. TypeOK'
    BY <1>1, <1>3, <2>2 DEF TypeOK, Report
  <2>5. RemoteOK'
    BY <1>1, <1>3, <2>1 DEF RemoteOK, Report
  <2> QED
    BY <2>3, <2>4, <2>5
<1> QED
  BY <1>2, <1>3 DEF Stamp, InventoryFails

\* What a pipeline job writes.
LEMMA WriteType ==
  ASSUME TypeOK, NEW h \in remote, NEW parts, Write(h, parts)
  PROVE  chunks' \subseteq Chunks /\ built' \in Configs \cup {NoConfig} /\ remote' \subseteq Jobs
  BY DEF TypeOK, Write, Jobs

LEMMA RemoteSteps ==
  ASSUME SyncInv, NEW h \in remote,
         RemoteRecreate(h) \/ RemoteWrite(h) \/ RemoteFail(h) \/ RemoteFailMidway(h)
  PROVE  SyncInv'
<1> USE DEF SyncInv, indexVars
<1>1. faults' \in 0 .. MaxFaults /\ unseen' \subseteq Unseen /\ unseen \subseteq unseen'
  BY FaultType DEF RemoteRecreate, RemoteWrite, RemoteFail, RemoteFailMidway, Unseen
<1>2. sync \in Syncs /\ h \in Jobs
  BY DEF TypeOK
<1>3. "outlive" \notin unseen => Awaited(h)
  BY DEF RemoteOK, Awaited
<1>4. CASE RemoteRecreate(h)
  <2> DEFINE g == [h EXCEPT !.recreate = FALSE]
  <2>1. g \in Jobs
    BY <1>2 DEF Jobs
  <2>2. /\ chunks' = {} /\ built' = h.config /\ remote' = (remote \ {h}) \cup {g}
        /\ sync' = IF Awaited(h) THEN [sync EXCEPT !.job.recreate = FALSE] ELSE sync
    BY <1>4 DEF RemoteRecreate, Result
  <2>3. Awaited(h) => sync' = [sync EXCEPT !.job = g]
    BY <1>2, <2>2 DEF Awaited, Syncs
  <2>4. /\ g.file = h.file /\ g.version = h.version
        /\ g.config = h.config /\ g.recreate = FALSE
    BY <1>2 DEF Jobs
  <2> HIDE DEF g
  <2>5. sync' \in Syncs
    BY <1>2, <2>1, <2>2, <2>3 DEF Syncs
  <2>6. SyncOK'
    <3>1. CASE Awaited(h)
      BY <1>2, <2>1, <2>3, <2>4, <3>1 DEF SyncOK, Syncs, Awaited
    <3>2. CASE ~Awaited(h)
      BY <2>2, <3>2 DEF SyncOK
    <3> QED
      BY <3>1, <3>2
  <2>7. TypeOK'
    BY <1>1, <1>2, <1>4, <2>1, <2>2, <2>5 DEF TypeOK, RemoteRecreate, Jobs
  <2>8. RemoteOK'
    BY <1>1, <1>2, <1>3, <2>2, <2>3 DEF RemoteOK, Awaited, Syncs
  <2> QED
    BY <2>6, <2>7, <2>8
<1>5. CASE RemoteWrite(h) \/ RemoteFail(h) \/ RemoteFailMidway(h)
  <2>1. /\ sync' = sync \/ (sync.phase = "await" /\ (sync' = FileFails \/ sync' = Succeeds))
        /\ remote' = remote \ {h}
    BY <1>5 DEF RemoteWrite, RemoteFail, RemoteFailMidway, Result, Awaited, Write
  <2>2. sync' \in Syncs /\ SyncOK'
    <3>1. CASE sync' = sync
      BY <1>2, <3>1 DEF SyncOK
    <3>2. CASE sync' # sync
      BY <2>1, <3>2, FileEndsOK
    <3> QED
      BY <3>1, <3>2
  <2>3. chunks' \subseteq Chunks /\ built' \in Configs \cup {NoConfig}
    BY <1>5, WriteType DEF RemoteWrite, RemoteFail, RemoteFailMidway, TypeOK
  <2>4. TypeOK'
    BY <1>1, <1>5, <2>1, <2>2, <2>3
    DEF TypeOK, RemoteWrite, RemoteFail, RemoteFailMidway
  <2>5. RemoteOK'
    BY <1>1, <1>3, <2>1 DEF RemoteOK, Awaited
  <2> QED
    BY <2>2, <2>4, <2>5
<1> QED
  BY <1>4, <1>5

LEMMA SyncStepOK == SyncInv /\ [Next]_vars => SyncInv'
<1> SUFFICES ASSUME SyncInv, [Next]_vars PROVE SyncInv'
  OBVIOUS
<1>1. CASE UNCHANGED vars
  BY <1>1 DEF SyncInv, TypeOK, SyncOK, RemoteOK, vars, indexVars, faultVars
<1>2. CASE Next
  BY <1>2, EditSteps, TriggerStep, CollectStep, CompareSteps, IncrementalStep, PrepareStep,
     StartStep, SubmitSteps, ReportSteps, RemoteSteps
  DEF Next, SyncStep
<1> QED
  BY <1>1, <1>2

-----------------------------------------------------------------------------
(* One config per collection.                                              *)

Matches(x) == built \in {x, NoConfig} /\ \A c \in chunks : c.config = x

\* While nothing goes wrong unnoticed: a KB that has not drifted serves vectors
\* of the desired config, every sync works with that config, and a forced one
\* has recreated the collection by the time it no longer has to.
ConfigOK ==
    unseen \cap {"nothingBuilt", "redeploy", "outlive"} = {} =>
        /\ manifest = desired => Matches(desired)
        /\ sync.phase # "idle" =>
              sync.config = desired /\ (~sync.force => manifest = desired)
        /\ sync.force /\ sync.phase \notin {"idle", "collect", "compare"} =>
              /\ ~sync.recreate => Matches(desired)
              /\ Stored(sync.wanted) # {}
        /\ sync.phase \in {"submit", "await"} /\ ~sync.job.recreate => Matches(desired)
        /\ sync.phase = "completed" => ~sync.recreate

ConfigInv == SyncInv /\ manifest <= desired /\ ConfigOK

Harmless == unseen' \cap {"nothingBuilt", "redeploy", "outlive"} = {}

LEMMA ConfigInit == Init => ConfigInv
  BY SyncInit DEF ConfigInv, ConfigOK, Init, NoSync, NoConfig, Matches

LEMMA UnseenGrows == TypeOK /\ [Next]_vars => unseen \subseteq unseen'
<1> SUFFICES ASSUME TypeOK, [Next]_vars PROVE unseen \subseteq unseen'
  OBVIOUS
<1> USE DEF faultVars, Fault, UnseenFault
<1>1. CASE UNCHANGED vars
  BY <1>1 DEF vars
<1>2. CASE SyncStep
  <2>1. CASE Collect \/ CompareNothing \/ ClearIndex \/ CompareForced \/ CompareIncremental
    BY <2>1
    DEF Collect, CompareNothing, ClearIndex, CompareForced, CompareIncremental, NothingBuilt
  <2>2. CASE Prepare \/ (\E f \in Files : StartFile(f)) \/ Submit \/ Report \/ Stamp
    BY <2>2 DEF Prepare, StartFile, Submit, Report, Stamp
  <2> QED
    BY <1>2, <2>1, <2>2 DEF SyncStep
<1>3. CASE Trigger \/ InventoryFails \/ GiveUp \/ EndSync \/ Redeploy \/ \E f \in Files : EditFile(f)
  BY <1>3 DEF Trigger, InventoryFails, GiveUp, EndSync, Redeploy, EditFile
<1>4. ASSUME NEW h \in remote,
             RemoteRecreate(h) \/ RemoteWrite(h) \/ RemoteFail(h) \/ RemoteFailMidway(h)
      PROVE  unseen \subseteq unseen'
  BY <1>4 DEF RemoteRecreate, RemoteWrite, RemoteFail, RemoteFailMidway
<1> QED
  BY <1>1, <1>2, <1>3, <1>4 DEF Next

LEMMA ManifestStep == SyncInv /\ manifest <= desired /\ [Next]_vars => (manifest <= desired)'
<1> SUFFICES ASSUME SyncInv, manifest <= desired, [Next]_vars PROVE (manifest <= desired)'
  OBVIOUS
<1>1. CASE Stamp
  BY <1>1 DEF Stamp, SyncInv, TypeOK, Configs, NoConfig
<1>2. CASE Redeploy
  BY <1>2 DEF Redeploy, SyncInv, TypeOK, Configs, NoConfig
<1>3. CASE UNCHANGED <<manifest, desired>>
  BY <1>3
<1>4. Stamp \/ Redeploy \/ UNCHANGED <<manifest, desired>>
  BY DEF Next, SyncStep, vars, EditFile, Trigger, Collect, CompareNothing, ClearIndex,
         CompareForced, CompareIncremental, Prepare, StartFile, Submit, Report,
         InventoryFails, GiveUp, EndSync, RemoteRecreate, RemoteWrite, RemoteFail,
         RemoteFailMidway
<1> QED
  BY <1>1, <1>2, <1>3, <1>4

\* Fewer chunks still match, and so do those a pipeline job of the same config
\* writes into a collection that matched or that it recreates.
LEMMA MatchesShrinks ==
  ASSUME NEW x, Matches(x), chunks' \subseteq chunks, built' = built
  PROVE  Matches(x)'
  BY DEF Matches

LEMMA MatchesWritten ==
  ASSUME NEW x, NEW h, NEW parts, Write(h, parts), h.config = x,
         h.recreate \/ Matches(x)
  PROVE  Matches(x)'
  BY DEF Matches, Write

\* The steps that neither write nor change what a sync works with.
LEMMA ConfigKept ==
  ASSUME ConfigInv, unseen \subseteq unseen', UNCHANGED <<desired, manifest, built>>,
         chunks' \subseteq chunks,
         \/ sync' = sync
         \/ sync' = NoSync
         \/ /\ sync'.config = sync.config /\ sync'.force = sync.force
            /\ sync'.recreate = sync.recreate /\ sync'.wanted = sync.wanted
            /\ sync.phase \notin {"idle", "collect", "compare"}
            /\ sync'.phase \in {"ingest", "submit", "await"}
            /\ sync'.phase \in {"submit", "await"} =>
                  \/ sync.phase \in {"submit", "await"} /\ sync'.job = sync.job
                  \/ sync'.job.recreate = sync.recreate
  PROVE  ConfigOK'
<1> SUFFICES ASSUME Harmless
             PROVE  /\ manifest' = desired' => Matches(desired)'
                    /\ sync'.phase # "idle" =>
                          sync'.config = desired' /\ (~sync'.force => manifest' = desired')
                    /\ sync'.force /\ sync'.phase \notin {"idle", "collect", "compare"} =>
                          /\ ~sync'.recreate => Matches(desired)'
                          /\ Stored(sync'.wanted) # {}
                    /\ sync'.phase \in {"submit", "await"} /\ ~sync'.job.recreate =>
                          Matches(desired)'
                    /\ sync'.phase = "completed" => ~sync'.recreate
  BY DEF ConfigOK, Harmless, Stored
<1>1. unseen \cap {"nothingBuilt", "redeploy", "outlive"} = {}
  BY DEF Harmless
<1>2. ConfigOK
  BY DEF ConfigInv
<1>3. Matches(desired) => Matches(desired)'
  BY DEF Matches
<1>4. NoSync.phase = "idle" /\ ~NoSync.force
  BY DEF NoSync
<1>5. CASE sync' = sync
  BY <1>1, <1>2, <1>3, <1>5 DEF ConfigOK
<1>6. CASE sync' = NoSync
  BY <1>1, <1>2, <1>3, <1>4, <1>6 DEF ConfigOK
<1>7. CASE sync' # sync /\ sync' # NoSync
  <2>1. sync.force \in BOOLEAN /\ (~sync.recreate => Matches(desired))
    BY <1>1, <1>2, <1>7 DEF ConfigOK, ConfigInv, SyncInv, SyncOK, TypeOK, Syncs
  <2> QED
    BY <1>1, <1>2, <1>3, <1>7, <2>1 DEF ConfigOK
<1> QED
  BY <1>5, <1>6, <1>7

LEMMA ConfigKeptSteps ==
  ASSUME ConfigInv, [Next]_vars,
         \/ Prepare \/ (\E f \in Files : StartFile(f) \/ EditFile(f)) \/ Submit
         \/ GiveUp \/ EndSync \/ InventoryFails \/ UNCHANGED vars
  PROVE  ConfigOK'
<1>1. SyncInv /\ sync \in Syncs /\ unseen \subseteq unseen'
  BY UnseenGrows DEF ConfigInv, SyncInv, TypeOK
<1> USE DEF indexVars
<1>2. CASE Prepare
  <2>1. /\ sync'.config = sync.config /\ sync'.force = sync.force
        /\ sync'.recreate = sync.recreate /\ sync'.wanted = sync.wanted
        /\ sync.phase = "prepare" /\ sync'.phase = "ingest"
    BY <1>1, <1>2 DEF Prepare, Syncs
  <2> QED
    BY <1>1, <1>2, <2>1, ConfigKept DEF Prepare
<1>3. ASSUME NEW f \in Files, StartFile(f) PROVE ConfigOK'
  <2> DEFINE job == [file |-> f, version |-> sync.wanted[f],
                     config |-> sync.config, recreate |-> sync.recreate]
             Started(replace) == [sync EXCEPT !.todo = @ \ {f}, !.phase = "submit",
                                              !.job = job, !.replace = replace]
  <2>a. \/ sync' = [sync EXCEPT !.todo = @ \ {f}, !.bad = @ \cup {f}]
        \/ \E replace \in {sync.replace, sync.replace \ {Key[f]}} : sync' = Started(replace)
    BY <1>1, <1>3 DEF StartFile, Syncs
  <2>b. job.recreate = sync.recreate /\ sync.phase = "ingest"
    BY <1>3 DEF StartFile
  <2> HIDE DEF job
  <2>1. /\ sync'.config = sync.config /\ sync'.force = sync.force
        /\ sync'.recreate = sync.recreate /\ sync'.wanted = sync.wanted
        /\ sync.phase = "ingest" /\ sync'.phase \in {"ingest", "submit"}
        /\ sync'.phase = "submit" => sync'.job.recreate = sync.recreate
    BY <1>1, <2>a, <2>b DEF Syncs
  <2>2. chunks' \subseteq chunks
    BY <1>3 DEF StartFile
  <2> QED
    BY <1>1, <1>3, <2>1, <2>2, ConfigKept DEF StartFile
<1>4. CASE Submit \/ GiveUp
  <2>1. sync.phase \in {"submit", "await"} /\ sync.job \in Jobs
    BY <1>1, <1>4 DEF Submit, GiveUp, SyncInv, SyncOK
  <2>2. /\ sync'.config = sync.config /\ sync'.force = sync.force
        /\ sync'.recreate = sync.recreate /\ sync'.wanted = sync.wanted
        /\ \/ sync'.phase = "ingest"
           \/ sync'.phase = "await" /\ sync'.job = sync.job
    BY <1>1, <1>4, <2>1 DEF Submit, GiveUp, FileFails, FileEnds, Syncs
  <2>3. UNCHANGED <<desired, manifest, built, chunks>>
    BY <1>4 DEF Submit, GiveUp
  <2> QED
    BY <1>1, <2>1, <2>2, <2>3, ConfigKept
<1>5. CASE EndSync \/ InventoryFails \/ (\E f \in Files : EditFile(f)) \/ UNCHANGED vars
  <2>1. UNCHANGED <<desired, manifest, built, chunks>> /\ sync' \in {sync, NoSync}
    BY <1>5 DEF EndSync, InventoryFails, EditFile, vars
  <2> QED
    BY <1>1, <2>1, ConfigKept
<1> QED
  BY <1>2, <1>3, <1>4, <1>5

\* The steps before the files: the trigger fixes the config, and a forced sync
\* that gets as far as its files has some.
LEMMA ConfigEarlySteps ==
  ASSUME ConfigInv, [Next]_vars,
         \/ Redeploy \/ Trigger \/ Collect \/ CompareNothing \/ ClearIndex
         \/ CompareForced \/ CompareIncremental
  PROVE  ConfigOK'
<1>1. SyncInv /\ SyncOK /\ sync \in Syncs /\ unseen \subseteq unseen'
  BY UnseenGrows DEF ConfigInv, SyncInv, TypeOK
<1> SUFFICES ASSUME Harmless PROVE ConfigOK'
  BY DEF ConfigOK, Harmless
<1> USE DEF indexVars
<1>2. /\ unseen \cap {"nothingBuilt", "redeploy", "outlive"} = {}
      /\ manifest <= desired /\ ConfigOK
  BY <1>1 DEF Harmless, ConfigInv
<1>3. CASE Redeploy
  <2>1. sync.phase = "idle" /\ sync' = sync
    BY <1>3 DEF Redeploy, UnseenFault, Harmless
  <2>2. manifest' # desired'
    BY <1>1, <1>2, <1>3 DEF Redeploy, SyncInv, TypeOK, Configs, NoConfig
  <2> QED
    BY <2>1, <2>2 DEF ConfigOK
<1>4. CASE Trigger
  <2>1. PICK asked \in BOOLEAN, selected \in BOOLEAN :
          LET force == asked \/ RebuildNeeded IN
             sync' = [NoSync EXCEPT !.phase = "collect",
                                    !.force = force,
                                    !.config = IF force THEN desired ELSE manifest,
                                    !.selected = selected,
                                    !.wanted = storage,
                                    !.recreate = force]
    BY <1>4 DEF Trigger
  <2>2. /\ sync'.phase = "collect" /\ sync'.config = desired
        /\ ~sync'.force => manifest = desired
    BY <2>1 DEF NoSync, RebuildNeeded
  <2>3. UNCHANGED <<desired, manifest, built, chunks>>
    BY <1>4 DEF Trigger
  <2> QED
    BY <1>2, <2>2, <2>3 DEF ConfigOK, Matches
<1>5. CASE Collect
  <2>1. /\ sync'.phase = "compare" /\ sync'.config = sync.config
        /\ sync'.force = sync.force /\ sync.phase = "collect"
    BY <1>1, <1>5 DEF Collect, Syncs
  <2>2. UNCHANGED <<desired, manifest, built>> /\ chunks' \subseteq chunks
    BY <1>5 DEF Collect
  <2> QED
    BY <1>2, <2>1, <2>2 DEF ConfigOK, Matches
<1>6. CASE CompareNothing \/ ClearIndex
  <2>1. /\ sync'.phase = "ingest" /\ sync'.config = sync.config
        /\ sync'.force = sync.force /\ sync.phase = "compare"
    BY <1>1, <1>6 DEF CompareNothing, ClearIndex, Syncs
  <2>2. ~sync.force
    BY <1>1, <1>6 DEF CompareNothing, ClearIndex, NothingBuilt, Harmless, Syncs
  <2>3. UNCHANGED <<desired, manifest, built>> /\ chunks' \subseteq chunks
    BY <1>6 DEF CompareNothing, ClearIndex, ChunksUnder
  <2> QED
    BY <1>2, <2>1, <2>2, <2>3 DEF ConfigOK, Matches
<1>7. CASE CompareForced
  <2>1. /\ sync'.phase = "prepare" /\ sync'.config = sync.config /\ sync.force
        /\ sync'.force = sync.force /\ sync.phase = "compare"
        /\ sync'.recreate = sync.recreate /\ sync'.wanted = sync.wanted
        /\ Stored(sync.wanted) # {} /\ sync.recreate
    BY <1>1, <1>7 DEF CompareForced, Syncs, SyncOK
  <2>2. UNCHANGED <<desired, manifest, built, chunks>>
    BY <1>7 DEF CompareForced
  <2> QED
    BY <1>2, <2>1, <2>2 DEF ConfigOK, Matches, Stored
<1>8. CASE CompareIncremental
  <2>1. /\ sync'.phase = "prepare" /\ sync'.config = sync.config
        /\ sync'.force = sync.force /\ ~sync.force /\ sync.phase = "compare"
    BY <1>1, <1>8 DEF CompareIncremental, Syncs
  <2>2. UNCHANGED <<desired, manifest, built>> /\ chunks' \subseteq chunks
    BY <1>8 DEF CompareIncremental
  <2> QED
    BY <1>2, <2>1, <2>2 DEF ConfigOK, Matches
<1> QED
  BY <1>3, <1>4, <1>5, <1>6, <1>7, <1>8

\* The end of a sync: it completes only if it recreated what it had to.
LEMMA ConfigLateSteps ==
  ASSUME ConfigInv, [Next]_vars, Report \/ Stamp
  PROVE  ConfigOK'
<1>1. SyncInv /\ SyncOK /\ sync \in Syncs /\ unseen \subseteq unseen'
  BY UnseenGrows DEF ConfigInv, SyncInv, TypeOK
<1> SUFFICES ASSUME Harmless PROVE ConfigOK'
  BY DEF ConfigOK, Harmless
<1> USE DEF indexVars
<1>2. unseen \cap {"nothingBuilt", "redeploy", "outlive"} = {} /\ ConfigOK
  BY <1>1 DEF Harmless, ConfigInv
<1>3. CASE Report
  <2>1. UNCHANGED <<desired, manifest, built, chunks>> /\ sync.phase = "ingest"
    BY <1>3 DEF Report
  <2>2. CASE sync' = NoSync
    BY <1>1, <2>1, <2>2, ConfigKept
  <2>3. CASE sync' # NoSync
    <3>1. /\ sync' = [sync EXCEPT !.phase = "completed"] /\ sync.todo = {}
          /\ sync.ok \cup sync.skipped # {} \/ sync.bad = {}
      BY <1>3, <2>3 DEF Report
    <3>2. ~sync.recreate
      <4> SUFFICES ASSUME sync.recreate PROVE FALSE
        OBVIOUS
      <4>1. sync.force /\ sync.ok \cup sync.skipped \cup sync.bad = {}
        BY <1>1, <3>1 DEF SyncOK
      <4>2. Stored(sync.wanted) = {}
        BY <1>1, <2>1, <3>1, <4>1 DEF SyncOK
      <4> QED
        BY <1>2, <2>1, <4>1, <4>2 DEF ConfigOK
    <3>3. /\ sync'.phase = "completed" /\ sync'.config = sync.config
          /\ sync'.force = sync.force /\ sync'.recreate = sync.recreate
          /\ sync'.wanted = sync.wanted
      BY <1>1, <3>1 DEF Syncs
    <3> QED
      BY <1>2, <2>1, <3>2, <3>3 DEF ConfigOK, Matches, Stored
  <2> QED
    BY <2>2, <2>3
<1>4. CASE Stamp
  <2>1. UNCHANGED <<desired, built, chunks>> /\ sync.phase = "completed" /\ sync' = NoSync
    BY <1>4 DEF Stamp
  <2>2. Matches(desired)
    <3>1. ~sync.recreate
      BY <1>2, <2>1 DEF ConfigOK
    <3> QED
      BY <1>1, <1>2, <2>1, <3>1 DEF ConfigOK, Syncs
  <2>3. Matches(desired)'
    BY <2>1, <2>2 DEF Matches
  <2>4. sync'.phase = "idle"
    BY <2>1 DEF NoSync
  <2> QED
    BY <2>3, <2>4 DEF ConfigOK
<1> QED
  BY <1>3, <1>4

LEMMA ConfigRemoteSteps ==
  ASSUME ConfigInv, [Next]_vars, NEW h \in remote,
         RemoteRecreate(h) \/ RemoteWrite(h) \/ RemoteFail(h) \/ RemoteFailMidway(h)
  PROVE  ConfigOK'
<1>1. SyncInv /\ SyncOK /\ sync \in Syncs /\ unseen \subseteq unseen'
  BY UnseenGrows DEF ConfigInv, SyncInv, TypeOK
<1> SUFFICES ASSUME Harmless PROVE ConfigOK'
  BY DEF ConfigOK, Harmless
<1> USE DEF indexVars
<1>2. unseen \cap {"nothingBuilt", "redeploy", "outlive"} = {} /\ ConfigOK
  BY <1>1 DEF Harmless, ConfigInv
<1>3. /\ Awaited(h) /\ sync.phase = "await" /\ h = sync.job /\ h \in Jobs
      /\ h.config = desired /\ sync.config = desired
      /\ h.recreate \/ Matches(desired)
      /\ ~sync.force => manifest = desired
  BY <1>1, <1>2 DEF SyncInv, RemoteOK, Awaited, SyncOK, ConfigOK, Jobs
<1>4. UNCHANGED <<desired, manifest>>
  BY DEF RemoteRecreate, RemoteWrite, RemoteFail, RemoteFailMidway
<1>5. sync.force => Stored(sync.wanted) # {}
  BY <1>2, <1>3 DEF ConfigOK
<1>6. CASE RemoteRecreate(h)
  <2>1. Matches(desired)'
    BY <1>3, <1>4, <1>6 DEF RemoteRecreate, Matches
  <2>2. sync' = [sync EXCEPT !.job.recreate = FALSE]
    BY <1>3, <1>6 DEF RemoteRecreate, Result
  <2>3. /\ sync'.phase = "await" /\ sync'.config = sync.config
        /\ sync'.force = sync.force /\ sync'.recreate = sync.recreate
        /\ sync'.wanted = sync.wanted
    BY <1>1, <1>3, <2>2 DEF Syncs
  <2> QED
    BY <1>3, <1>4, <1>5, <2>1, <2>3 DEF ConfigOK, Stored
<1>7. CASE RemoteWrite(h) \/ RemoteFailMidway(h)
  <2>1. Matches(desired)'
    BY <1>3, <1>4, <1>7, MatchesWritten DEF RemoteWrite, RemoteFailMidway
  <2>2. sync' \in {FileFails, Succeeds}
    BY <1>3, <1>7 DEF RemoteWrite, RemoteFailMidway, Result
  <2>3. /\ sync'.phase = "ingest" /\ sync'.config = sync.config
        /\ sync'.force = sync.force /\ sync'.wanted = sync.wanted
    BY <1>1, <2>2 DEF FileFails, Succeeds, FileEnds, Syncs
  <2> QED
    BY <1>3, <1>4, <1>5, <2>1, <2>3 DEF ConfigOK, Stored
<1>8. CASE RemoteFail(h)
  <2>1. sync' = FileFails /\ UNCHANGED <<built, chunks>>
    BY <1>3, <1>8 DEF RemoteFail, Result
  <2>2. /\ sync'.phase = "ingest" /\ sync'.config = sync.config
        /\ sync'.force = sync.force /\ sync'.wanted = sync.wanted
        /\ sync'.recreate = sync.recreate
    BY <1>1, <2>1 DEF FileFails, FileEnds, Syncs
  <2> QED
    BY <1>1, <1>3, <1>4, <2>1, <2>2, ConfigKept
<1> QED
  BY <1>6, <1>7, <1>8

LEMMA ConfigStep == ConfigInv /\ [Next]_vars => ConfigInv'
<1> SUFFICES ASSUME ConfigInv, [Next]_vars PROVE ConfigInv'
  OBVIOUS
<1>1. SyncInv' /\ (manifest <= desired)'
  BY SyncStepOK, ManifestStep DEF ConfigInv
<1>2. ConfigOK'
  BY ConfigKeptSteps, ConfigEarlySteps, ConfigLateSteps, ConfigRemoteSteps DEF Next, SyncStep
<1> QED
  BY <1>1, <1>2 DEF ConfigInv

LEMMA ConfigMatches == ConfigInv => IncrementalMatchesCollection
<1> SUFFICES ASSUME ConfigInv, sync.phase # "idle", ~sync.force,
                    unseen \cap {"nothingBuilt", "redeploy", "outlive"} = {}
             PROVE  built \in {sync.config, NoConfig} /\ \A c \in chunks : c.config = sync.config
  BY DEF IncrementalMatchesCollection
<1> QED
  BY DEF ConfigInv, ConfigOK, Matches

-----------------------------------------------------------------------------
(* What is reported is indexed.                                            *)

\* The files have keys of their own: ids, or file names that differ.
KeysDiffer == \A f, g \in Files : Key[f] = Key[g] => f = g

Empty(f) == ChunksOf(f) = {}
Complete(f, v) ==
    /\ \A c \in ChunksOf(f) : c.version = v
    /\ \A p \in Parts : \E c \in ChunksOf(f) : c.part = p

\* While no write stops midway, no delete fails unnoticed and no job outlives its
\* wait: a file is indexed as a whole or not at all, one that counts as indexed is
\* so, and one about to be written is not there, or will not be by then.
IndexedOK ==
    unseen \cap {"staleDelete", "partialWrite", "outlive"} = {} =>
        /\ \A f \in Files : Empty(f) \/ \E v \in Versions : Complete(f, v)
        /\ \A f \in sync.ok \cup sync.skipped : Complete(f, sync.wanted[f])
        /\ \A f \in sync.todo : sync.recreate \/ Key[f] \in sync.replace \/ Empty(f)
        /\ sync.phase \in {"submit", "await"} =>
              /\ sync.job.recreate \/ Empty(sync.job.file)
              /\ sync.recreate /\ ~sync.job.recreate => chunks = {}

Intact == unseen' \cap {"staleDelete", "partialWrite", "outlive"} = {}

IndexedInv == SyncInv /\ IndexedOK

LEMMA IndexedInit == Init => IndexedInv
  BY SyncInit DEF Init, IndexedInv, IndexedOK, NoSync, Empty, ChunksOf

\* A file whose chunks stay as they are stays as it is.
LEMMA SameFile ==
  ASSUME NEW f, ChunksOf(f)' = ChunksOf(f)
  PROVE  /\ Empty(f)' <=> Empty(f)
         /\ \A v : Complete(f, v) => /\ \A c \in ChunksOf(f)' : c.version = v
                                     /\ \A p \in Parts : \E c \in ChunksOf(f)' : c.part = p
  BY DEF Empty, Complete

\* The steps that leave the collection alone and count no file.
LEMMA IndexedKept ==
  ASSUME IndexedInv, unseen \subseteq unseen', chunks' = chunks,
         \/ sync' = sync
         \/ sync' = NoSync
         \/ /\ sync'.ok = sync.ok /\ sync'.skipped = sync.skipped
            /\ sync'.wanted = sync.wanted /\ sync'.todo \subseteq sync.todo
            /\ sync'.recreate = sync.recreate /\ sync'.replace = sync.replace
            /\ sync'.phase \in {"submit", "await"} =>
                  sync.phase \in {"submit", "await"} /\ sync'.job = sync.job
  PROVE  IndexedOK'
<1> SUFFICES ASSUME Intact PROVE IndexedOK'
  BY DEF IndexedOK, Intact
<1>1. unseen \cap {"staleDelete", "partialWrite", "outlive"} = {} /\ IndexedOK
  BY DEF Intact, IndexedInv
<1>2. CASE sync' = sync
  BY <1>1, <1>2 DEF IndexedOK, Empty, Complete, ChunksOf
<1>3. CASE sync' = NoSync
  <2>1. NoSync.ok = {} /\ NoSync.skipped = {} /\ NoSync.todo = {} /\ NoSync.phase = "idle"
    BY DEF NoSync
  <2> QED
    BY <1>1, <1>3, <2>1 DEF IndexedOK, Empty, Complete, ChunksOf
<1>4. CASE sync' # sync /\ sync' # NoSync
  BY <1>1, <1>4 DEF IndexedOK, Empty, Complete, ChunksOf
<1> QED
  BY <1>2, <1>3, <1>4

LEMMA IndexedKeptSteps ==
  ASSUME IndexedInv, [Next]_vars,
         \/ Prepare \/ (\E f \in Files : EditFile(f)) \/ Redeploy \/ Submit \/ Report
         \/ GiveUp \/ EndSync \/ InventoryFails \/ Stamp \/ CompareNothing
         \/ UNCHANGED vars
  PROVE  IndexedOK'
<1>1. SyncInv /\ sync \in Syncs /\ unseen \subseteq unseen'
  BY UnseenGrows DEF IndexedInv, SyncInv, TypeOK
<1> USE DEF indexVars
<1>2. chunks' = chunks
  BY DEF Prepare, EditFile, Redeploy, Submit, Report, GiveUp, EndSync, InventoryFails,
         Stamp, CompareNothing, vars
<1>3. CASE Prepare \/ Report \/ CompareNothing
  <2>1. sync' # NoSync =>
          /\ sync'.ok = sync.ok /\ sync'.skipped = sync.skipped
          /\ sync'.wanted = sync.wanted /\ sync'.todo \subseteq sync.todo
          /\ sync'.recreate = sync.recreate /\ sync'.replace = sync.replace
          /\ sync'.phase \notin {"submit", "await"}
    <3>1. CASE Prepare
      <4>1. PICK lost \in SUBSET sync.todo :
              sync' = [sync EXCEPT !.phase = "ingest", !.todo = @ \ lost, !.bad = lost]
        BY <3>1 DEF Prepare
      <4> QED
        BY <1>1, <4>1 DEF Syncs
    <3>2. CASE Report
      BY <1>1, <3>2 DEF Report, Syncs
    <3>3. CASE CompareNothing
      BY <1>1, <3>3 DEF CompareNothing, Syncs
    <3> QED
      BY <1>3, <3>1, <3>2, <3>3
  <2> QED
    BY <1>1, <1>2, <2>1, IndexedKept
<1>4. CASE Submit \/ GiveUp
  <2>1. sync.phase \in {"submit", "await"} /\ sync.job \in Jobs
    BY <1>1, <1>4 DEF Submit, GiveUp, SyncInv, SyncOK
  <2>2. /\ sync'.ok = sync.ok /\ sync'.skipped = sync.skipped
        /\ sync'.wanted = sync.wanted /\ sync'.todo = sync.todo
        /\ sync'.recreate = sync.recreate /\ sync'.replace = sync.replace
        /\ sync'.phase = "ingest" \/ sync'.job = sync.job
    BY <1>1, <1>4, <2>1 DEF Submit, GiveUp, FileFails, FileEnds, Syncs
  <2> QED
    BY <1>1, <1>2, <2>1, <2>2, IndexedKept
<1>5. CASE EndSync \/ InventoryFails \/ Stamp \/ (\E f \in Files : EditFile(f))
           \/ Redeploy \/ UNCHANGED vars
  <2>1. sync' \in {sync, NoSync}
    BY <1>5 DEF EndSync, InventoryFails, Stamp, EditFile, Redeploy, vars
  <2> QED
    BY <1>1, <1>2, <2>1, IndexedKept
<1> QED
  BY <1>3, <1>4, <1>5

\* The steps before the files.
LEMMA IndexedEarlySteps ==
  ASSUME IndexedInv, [Next]_vars, Trigger \/ Collect \/ ClearIndex \/ CompareForced
  PROVE  IndexedOK'
<1>1. SyncInv /\ SyncOK /\ sync \in Syncs /\ unseen \subseteq unseen'
  BY UnseenGrows DEF IndexedInv, SyncInv, TypeOK
<1> SUFFICES ASSUME Intact PROVE IndexedOK'
  BY DEF IndexedOK, Intact
<1> USE DEF indexVars
<1>2. \A f \in Files : Empty(f) \/ \E v \in Versions : Complete(f, v)
  BY <1>1 DEF Intact, IndexedInv, IndexedOK
<1>3. \A f \in Files : ChunksOf(f)' \in {ChunksOf(f), {}}
  <2>1. CASE Collect
    <3>1. PICK pruned \in SUBSET {f \in Files : storage[f] = Gone} :
            chunks' = {c \in chunks : c.file \notin pruned}
      BY <2>1 DEF Collect
    <3> QED
      BY <3>1 DEF ChunksOf
  <2>2. CASE ClearIndex
    <3>1. chunks' = {} \/ \E left \in SUBSET Keys : chunks' = ChunksUnder(left)
      BY <2>2 DEF ClearIndex
    <3>2. ASSUME NEW left \in SUBSET Keys, NEW f \in Files, chunks' = ChunksUnder(left)
          PROVE  ChunksOf(f)' \in {ChunksOf(f), {}}
      <4>1. CASE Key[f] \in left
        BY <3>2, <4>1 DEF ChunksOf, ChunksUnder
      <4>2. CASE Key[f] \notin left
        BY <3>2, <4>2 DEF ChunksOf, ChunksUnder
      <4> QED
        BY <4>1, <4>2
    <3> QED
      BY <3>1, <3>2 DEF ChunksOf
  <2>3. CASE Trigger \/ CompareForced
    BY <2>3 DEF Trigger, CompareForced, ChunksOf
  <2> QED
    BY <2>1, <2>2, <2>3
<1>4. \A f \in Files : Empty(f)' \/ \E v \in Versions : Complete(f, v)'
  BY <1>2, <1>3 DEF Empty, Complete
<1>5. /\ sync'.ok = {} /\ sync'.skipped = {}
      /\ sync'.todo = {} \/ sync'.recreate
      /\ sync'.phase \notin {"submit", "await"}
  <2>1. CASE Trigger
    BY <2>1 DEF Trigger, NoSync
  <2>2. CASE Collect
    BY <1>1, <2>2 DEF Collect, SyncOK, Syncs
  <2>3. CASE ClearIndex
    BY <1>1, <2>3 DEF ClearIndex, SyncOK, Syncs
  <2>4. CASE CompareForced
    BY <1>1, <2>4 DEF CompareForced, SyncOK, Syncs
  <2> QED
    BY <2>1, <2>2, <2>3, <2>4
<1> QED
  BY <1>4, <1>5 DEF IndexedOK

\* A file whose inventory has a version is complete in it, and one that is not to
\* be replaced is not there.
LEMMA IndexedIncremental ==
  ASSUME KeysDiffer, IndexedInv, [Next]_vars, CompareIncremental
  PROVE  IndexedOK'
<1>1. SyncInv /\ SyncOK /\ sync \in Syncs /\ unseen \subseteq unseen' /\ chunks \subseteq Chunks
  BY UnseenGrows DEF IndexedInv, SyncInv, TypeOK
<1> SUFFICES ASSUME Intact PROVE IndexedOK'
  BY DEF IndexedOK, Intact
<1>2. \A f \in Files : Empty(f) \/ \E v \in Versions : Complete(f, v)
  BY <1>1 DEF Intact, IndexedInv, IndexedOK
<1>3. PICK inventory \in [Keys -> Versions \cup {Gone}] :
        /\ IsInventory(inventory)
        /\ LET todo == Stored(sync.wanted) \ Unchanged(inventory) IN
           sync' = [sync EXCEPT !.phase = "prepare",
                                !.todo = todo,
                                !.skipped = Unchanged(inventory),
                                !.replace = {k \in Keys : /\ inventory[k] # Gone
                                                          /\ \E f \in todo : Key[f] = k}]
        /\ \E deleted \in SUBSET Orphans(inventory) :
              chunks' = chunks \ ChunksUnder(deleted)
  BY DEF CompareIncremental
<1>4. PICK deleted \in SUBSET Orphans(inventory) : chunks' = chunks \ ChunksUnder(deleted)
  BY <1>3
<1>5. \A f \in Files : ChunksOf(f)' = IF Key[f] \in deleted THEN {} ELSE ChunksOf(f)
  BY <1>4 DEF ChunksOf, ChunksUnder
<1>6. \A f \in Files : ChunksUnder({Key[f]}) = ChunksOf(f)
  BY <1>1 DEF ChunksOf, ChunksUnder, KeysDiffer, Chunks
<1>7. \A f \in Stored(sync.wanted) : f \in Files /\ ChunksOf(f)' = ChunksOf(f)
  BY <1>5 DEF Orphans, Stored
<1>8. \A f \in Files : Key[f] \in Keys
  BY IndexAssumption
<1>9. \A f \in Files : Empty(f)' \/ \E v \in Versions : Complete(f, v)'
  BY <1>2, <1>5 DEF Empty, Complete
<1>10. /\ sync'.ok = {} /\ sync'.skipped = Unchanged(inventory)
       /\ sync'.todo = Stored(sync.wanted) \ Unchanged(inventory)
       /\ sync'.wanted = sync.wanted /\ sync'.phase = "prepare"
       /\ \A f \in sync'.todo : inventory[Key[f]] # Gone => Key[f] \in sync'.replace
  <2>1. sync.ok = {}
    BY <1>1 DEF CompareIncremental, SyncOK
  <2> QED
    BY <1>1, <1>3, <1>8, <2>1 DEF Syncs, Stored
<1>11. ASSUME NEW f \in Unchanged(inventory) PROVE Complete(f, sync.wanted[f])'
  <2>1. /\ f \in Stored(sync.wanted) /\ f \in Files
        /\ inventory[Key[f]] = sync.wanted[f] /\ sync.wanted[f] # Gone
    BY <1>11 DEF Unchanged, Stored
  <2>2. PICK c \in ChunksOf(f) : sync.wanted[f] = c.version
    BY <1>3, <1>6, <1>8, <2>1 DEF IsInventory
  <2>3. Complete(f, sync.wanted[f])
    BY <1>2, <2>1, <2>2 DEF Empty, Complete
  <2>4. sync'.wanted[f] = sync.wanted[f] /\ ChunksOf(f)' = ChunksOf(f)
    BY <1>7, <1>10, <2>1
  <2> QED
    BY <2>3, <2>4 DEF Complete
<1>12. ASSUME NEW f \in sync'.todo PROVE Key[f] \in sync'.replace \/ Empty(f)'
  <2>1. f \in Stored(sync.wanted) /\ f \in Files
    BY <1>10, <1>12 DEF Stored
  <2>2. CASE inventory[Key[f]] = Gone
    <3>1. ChunksOf(f) = {}
      <4>1. \A c \in ChunksOf(f) : c.version # Gone
        BY <1>1 DEF ChunksOf, Chunks, Versions, Gone
      <4> QED
        BY <1>3, <1>6, <1>8, <2>1, <2>2, <4>1 DEF IsInventory
    <3> QED
      BY <1>7, <2>1, <3>1 DEF Empty
  <2> QED
    BY <1>10, <2>2
<1> QED
  BY <1>9, <1>10, <1>11, <1>12 DEF IndexedOK

\* What is deleted for a file is its own, and it is gone when it is written.
LEMMA IndexedStart ==
  ASSUME KeysDiffer, IndexedInv, [Next]_vars, NEW f \in Files, StartFile(f)
  PROVE  IndexedOK'
<1>1. SyncInv /\ SyncOK /\ sync \in Syncs /\ unseen \subseteq unseen' /\ chunks \subseteq Chunks
  BY UnseenGrows DEF IndexedInv, SyncInv, TypeOK
<1> SUFFICES ASSUME Intact PROVE IndexedOK'
  BY DEF IndexedOK, Intact
<1>2. unseen \cap {"staleDelete", "partialWrite", "outlive"} = {} /\ IndexedOK
  BY <1>1 DEF Intact, IndexedInv
<1> DEFINE job == [file |-> f, version |-> sync.wanted[f],
                   config |-> sync.config, recreate |-> sync.recreate]
           Started(replace) == [sync EXCEPT !.todo = @ \ {f}, !.phase = "submit",
                                            !.job = job, !.replace = replace]
<1>3. sync.phase = "ingest" /\ f \in sync.todo /\ f \notin sync.ok \cup sync.skipped
  BY <1>1 DEF StartFile, SyncOK
<1>4. \/ /\ sync' = [sync EXCEPT !.todo = @ \ {f}, !.bad = @ \cup {f}]
         /\ chunks' = chunks
      \/ Key[f] \notin sync.replace /\ sync' = Started(sync.replace) /\ chunks' = chunks
      \/ /\ sync' = Started(sync.replace \ {Key[f]})
         /\ chunks' = chunks \ ChunksUnder({Key[f]})
  BY <1>1 DEF StartFile, Syncs, UnseenFault, Intact
<1>5. job.file = f /\ job.recreate = sync.recreate
  OBVIOUS
<1> HIDE DEF job
<1>6. /\ \A g \in Files : g # f => ChunksOf(g)' = ChunksOf(g)
      /\ ChunksOf(f)' \in {ChunksOf(f), {}}
  <2>1. CASE chunks' = chunks
    BY <2>1 DEF ChunksOf
  <2>2. CASE chunks' = chunks \ ChunksUnder({Key[f]})
    BY <2>2 DEF ChunksOf, ChunksUnder, KeysDiffer
  <2> QED
    BY <1>4, <2>1, <2>2
<1>7. /\ sync'.ok = sync.ok /\ sync'.skipped = sync.skipped
      /\ sync'.wanted = sync.wanted /\ sync'.todo = sync.todo \ {f}
      /\ sync'.recreate = sync.recreate
      /\ \A g \in Files : g # f /\ Key[g] \in sync.replace => Key[g] \in sync'.replace
  BY <1>1, <1>4 DEF Syncs, KeysDiffer
<1>8. sync.todo \cup sync.ok \cup sync.skipped \subseteq Files
  BY <1>1 DEF Syncs
<1>9. \A g \in Files : Empty(g)' \/ \E v \in Versions : Complete(g, v)'
  BY <1>2, <1>6 DEF IndexedOK, Empty, Complete
<1>10. \A g \in sync'.ok \cup sync'.skipped : Complete(g, sync.wanted[g])'
  <2>1. \A g \in sync.ok \cup sync.skipped : Complete(g, sync.wanted[g]) /\ ChunksOf(g)' = ChunksOf(g)
    BY <1>2, <1>3, <1>6, <1>8 DEF IndexedOK
  <2> QED
    BY <1>7, <2>1 DEF Complete
<1>11. \A g \in sync'.todo : sync'.recreate \/ Key[g] \in sync'.replace \/ Empty(g)'
  BY <1>2, <1>6, <1>7, <1>8 DEF IndexedOK, Empty
<1>12. sync'.phase \in {"submit", "await"} =>
         /\ (sync.job.recreate \/ Empty(sync.job.file))'
         /\ sync'.recreate => sync'.job.recreate
  <2>1. CASE sync' = [sync EXCEPT !.todo = @ \ {f}, !.bad = @ \cup {f}]
    BY <1>1, <1>3, <2>1 DEF Syncs
  <2>2. ASSUME NEW replace, sync' = Started(replace) PROVE sync'.job = job
    BY <1>1, <2>2 DEF Syncs
  <2>3. CASE Key[f] \notin sync.replace /\ sync' = Started(sync.replace) /\ chunks' = chunks
    <3>1. sync.recreate \/ Empty(f)
      BY <1>2, <1>3, <2>3 DEF IndexedOK
    <3>2. Empty(f) => Empty(f)'
      BY <2>3 DEF Empty, ChunksOf
    <3>3. sync'.job = job
      BY <2>2, <2>3
    <3> QED
      BY <1>5, <1>7, <3>1, <3>2, <3>3 DEF Empty, ChunksOf
  <2>4. CASE /\ sync' = Started(sync.replace \ {Key[f]})
             /\ chunks' = chunks \ ChunksUnder({Key[f]})
    <3>1. ChunksOf(f)' = {}
      BY <2>4 DEF ChunksOf, ChunksUnder
    <3>2. sync'.job = job
      BY <2>2, <2>4
    <3> QED
      BY <1>5, <1>7, <3>1, <3>2 DEF Empty, ChunksOf
  <2> QED
    BY <1>4, <2>1, <2>3, <2>4
<1> QED
  BY <1>7, <1>9, <1>10, <1>11, <1>12 DEF IndexedOK, Complete

\* What a pipeline job that is waited for writes is the whole of its file, which
\* was not there or goes with the collection it recreates.
LEMMA WriteCompletes ==
  ASSUME TypeOK, NEW h \in Jobs, Write(h, Parts), h.recreate \/ Empty(h.file)
  PROVE  /\ Complete(h.file, h.version)'
         /\ \A f \in Files \ {h.file} :
               ChunksOf(f)' = IF h.recreate THEN {} ELSE ChunksOf(f)
<1> DEFINE kept == IF h.recreate THEN {} ELSE chunks
           written == {c \in Chunks : /\ c.file = h.file /\ c.version = h.version
                                      /\ c.config = h.config /\ c.part \in Parts
                                      /\ ~\E d \in kept : [d EXCEPT !.config = c.config] = c}
<1>1. chunks' = kept \cup written /\ kept \subseteq Chunks
  BY DEF Write, TypeOK
<1>2. \A d \in kept : d.file # h.file
  BY DEF Empty, ChunksOf
<1>3. ASSUME NEW p \in Parts
      PROVE  [file |-> h.file, version |-> h.version, config |-> h.config, part |-> p] \in written
  <2> DEFINE c == [file |-> h.file, version |-> h.version, config |-> h.config, part |-> p]
  <2>1. c \in Chunks /\ c.file = h.file /\ c.version = h.version /\ c.config = h.config /\ c.part = p
    BY DEF Chunks, Jobs
  <2> HIDE DEF c
  <2>2. ASSUME NEW d \in kept PROVE [d EXCEPT !.config = c.config] # c
    <3>1. [d EXCEPT !.config = c.config].file = d.file
      BY <1>1 DEF Chunks
    <3> QED
      BY <1>2, <2>1, <3>1
  <2>3. c \in written
    BY <2>1, <2>2
  <2> QED
    BY <2>3 DEF c
<1> HIDE DEF kept
<1>4. Complete(h.file, h.version)'
  <2>1. \A c \in ChunksOf(h.file)' : c.version = h.version
    BY <1>1, <1>2 DEF ChunksOf
  <2>2. ASSUME NEW p \in Parts PROVE \E c \in ChunksOf(h.file)' : c.part = p
    <3> DEFINE c == [file |-> h.file, version |-> h.version, config |-> h.config, part |-> p]
    <3>1. c \in chunks' /\ c.file = h.file /\ c.part = p
      BY <1>1, <1>3
    <3> HIDE DEF c
    <3> QED
      BY <3>1 DEF ChunksOf
  <2> QED
    BY <2>1, <2>2 DEF Complete
<1>5. ASSUME NEW f \in Files \ {h.file}
      PROVE  ChunksOf(f)' = IF h.recreate THEN {} ELSE ChunksOf(f)
  <2>1. ChunksOf(f)' = {c \in kept : c.file = f}
    BY <1>1, <1>5 DEF ChunksOf
  <2> QED
    BY <2>1 DEF kept, ChunksOf
<1> QED
  BY <1>4, <1>5

LEMMA IndexedRemote ==
  ASSUME IndexedInv, [Next]_vars, NEW h \in remote,
         RemoteRecreate(h) \/ RemoteWrite(h) \/ RemoteFail(h) \/ RemoteFailMidway(h)
  PROVE  IndexedOK'
<1>1. SyncInv /\ SyncOK /\ sync \in Syncs /\ unseen \subseteq unseen' /\ TypeOK
  BY UnseenGrows DEF IndexedInv, SyncInv, TypeOK
<1> SUFFICES ASSUME Intact PROVE IndexedOK'
  BY DEF IndexedOK, Intact
<1> USE DEF indexVars
<1>2. unseen \cap {"staleDelete", "partialWrite", "outlive"} = {} /\ IndexedOK
  BY <1>1 DEF Intact, IndexedInv
<1>3. Awaited(h) /\ sync.phase = "await" /\ h = sync.job /\ h \in Jobs
  BY <1>1, <1>2 DEF SyncInv, RemoteOK, Awaited, SyncOK
<1>4. /\ sync.recreate => sync.ok \cup sync.skipped = {}
      /\ h.recreate => sync.recreate
      /\ h.recreate \/ Empty(h.file)
      /\ sync.recreate /\ ~h.recreate => chunks = {}
  BY <1>1, <1>2, <1>3 DEF IndexedOK, SyncOK
<1>5. /\ h.file \in Files /\ h.file \notin sync.todo \cup sync.ok \cup sync.skipped
      /\ h.version = sync.wanted[h.file] /\ h.version \in Versions
      /\ sync.todo \cup sync.ok \cup sync.skipped \subseteq Files
  BY <1>1, <1>3 DEF SyncOK, Jobs, Syncs
<1>6. CASE RemoteRecreate(h)
  <2>1. chunks' = {} /\ sync' = [sync EXCEPT !.job.recreate = FALSE]
    BY <1>3, <1>6 DEF RemoteRecreate, Result
  <2>2. /\ sync'.ok = sync.ok /\ sync'.skipped = sync.skipped
        /\ sync'.todo = sync.todo /\ sync'.recreate = sync.recreate
    BY <1>1, <1>3, <2>1 DEF Syncs
  <2>3. sync.recreate
    BY <1>4, <1>6 DEF RemoteRecreate
  <2>4. \A f : Empty(f)'
    BY <2>1 DEF Empty, ChunksOf
  <2> QED
    BY <1>4, <2>1, <2>2, <2>3, <2>4 DEF IndexedOK
<1>7. CASE RemoteWrite(h)
  <2>1. Write(h, Parts) /\ sync' = Succeeds
    BY <1>3, <1>7 DEF RemoteWrite, Result
  <2>2. /\ sync'.ok = sync.ok \cup {h.file} /\ sync'.skipped = sync.skipped
        /\ sync'.todo = sync.todo /\ sync'.recreate = FALSE
        /\ sync'.wanted = sync.wanted /\ sync'.replace = sync.replace
        /\ sync'.phase = "ingest"
    BY <1>1, <1>3, <2>1 DEF Succeeds, FileEnds, Syncs
  <2>3. /\ Complete(h.file, h.version)'
        /\ \A f \in Files \ {h.file} :
              ChunksOf(f)' = IF h.recreate THEN {} ELSE ChunksOf(f)
    BY <1>1, <1>3, <1>4, <2>1, WriteCompletes
  <2>4. \A f \in Files : Empty(f)' \/ \E v \in Versions : Complete(f, v)'
    <3> SUFFICES ASSUME NEW f \in Files PROVE Empty(f)' \/ \E v \in Versions : Complete(f, v)'
      OBVIOUS
    <3>1. CASE f = h.file
      BY <1>5, <2>3, <3>1
    <3>2. CASE f # h.file
      BY <1>2, <2>3, <3>2 DEF IndexedOK, Empty, Complete
    <3> QED
      BY <3>1, <3>2
  <2>5. ASSUME NEW f \in sync'.ok \cup sync'.skipped PROVE Complete(f, sync.wanted[f])'
    <3>1. CASE f = h.file
      BY <1>5, <2>2, <2>3, <3>1 DEF Complete
    <3>2. CASE f # h.file
      <4>1. f \in sync.ok \cup sync.skipped /\ f \in Files
        BY <1>5, <2>2, <2>5, <3>2
      <4>2. ~h.recreate
        BY <1>4, <4>1
      <4>3. ChunksOf(f)' = ChunksOf(f) /\ Complete(f, sync.wanted[f])
        BY <1>2, <2>3, <3>2, <4>1, <4>2 DEF IndexedOK
      <4> QED
        BY <2>2, <4>3 DEF Complete
    <3> QED
      BY <3>1, <3>2
  <2>6. ASSUME NEW f \in sync'.todo PROVE Key[f] \in sync'.replace \/ Empty(f)'
    <3>1. f \in sync.todo /\ f \in Files /\ f # h.file
      BY <1>5, <2>2, <2>6
    <3>2. ChunksOf(f)' = IF h.recreate THEN {} ELSE ChunksOf(f)
      BY <2>3, <3>1
    <3>3. CASE sync.recreate
      BY <1>4, <3>2, <3>3 DEF Empty, ChunksOf
    <3>4. CASE ~sync.recreate
      BY <1>2, <1>4, <2>2, <3>1, <3>2, <3>4 DEF IndexedOK, Empty
    <3> QED
      BY <3>3, <3>4
  <2> QED
    BY <2>2, <2>4, <2>5, <2>6 DEF IndexedOK
<1>8. CASE RemoteFail(h)
  <2>1. sync' = FileFails /\ chunks' = chunks
    BY <1>3, <1>8 DEF RemoteFail, Result
  <2>2. /\ sync'.ok = sync.ok /\ sync'.skipped = sync.skipped
        /\ sync'.wanted = sync.wanted /\ sync'.todo = sync.todo
        /\ sync'.recreate = sync.recreate /\ sync'.replace = sync.replace
        /\ sync'.phase = "ingest"
    BY <1>1, <1>3, <2>1 DEF FileFails, FileEnds, Syncs
  <2> QED
    BY <1>1, <2>1, <2>2, IndexedKept
<1>9. CASE RemoteFailMidway(h)
  BY <1>9 DEF RemoteFailMidway, UnseenFault, Intact
<1> QED
  BY <1>6, <1>7, <1>8, <1>9

LEMMA IndexedStep == ASSUME KeysDiffer PROVE IndexedInv /\ [Next]_vars => IndexedInv'
<1> SUFFICES ASSUME IndexedInv, [Next]_vars PROVE IndexedInv'
  OBVIOUS
<1>1. SyncInv'
  BY SyncStepOK DEF IndexedInv
<1>2. IndexedOK'
  BY IndexedKeptSteps, IndexedEarlySteps, IndexedIncremental, IndexedStart, IndexedRemote
  DEF Next, SyncStep
<1> QED
  BY <1>1, <1>2 DEF IndexedInv

LEMMA IndexedReported == IndexedInv => ReportedIsIndexed
<1> SUFFICES ASSUME IndexedInv,
                    unseen \cap {"staleDelete", "partialWrite", "outlive"} = {},
                    NEW f \in sync.ok \cup sync.skipped
             PROVE  Serves(f, sync.wanted)
  BY DEF ReportedIsIndexed
<1>1. Complete(f, sync.wanted[f])
  BY DEF IndexedInv, IndexedOK
<1>2. f \in Stored(sync.wanted) /\ chunks \subseteq Chunks
  BY DEF IndexedInv, SyncInv, SyncOK, TypeOK
<1>3. sync.wanted[f] # Gone
  BY <1>2 DEF Stored
<1>4. \A c \in ChunksOf(f) : c.version = sync.wanted[f] /\ c.part \in Parts
  BY <1>1, <1>2 DEF Complete, ChunksOf, Chunks
<1>5. {<<c.version, c.part>> : c \in ChunksOf(f)} = {sync.wanted[f]} \X Parts
  <2>1. {<<c.version, c.part>> : c \in ChunksOf(f)} \subseteq {sync.wanted[f]} \X Parts
    BY <1>4
  <2>2. ASSUME NEW p \in Parts
        PROVE  <<sync.wanted[f], p>> \in {<<c.version, c.part>> : c \in ChunksOf(f)}
    <3>1. PICK c \in ChunksOf(f) : c.part = p
      BY <1>1 DEF Complete
    <3> QED
      BY <1>4, <3>1
  <2> QED
    BY <2>1, <2>2
<1> QED
  BY <1>3, <1>5 DEF Serves

-----------------------------------------------------------------------------
(* Nothing else is served.                                                 *)

Selected == \A c \in chunks : c.file \in Stored(sync.wanted)

\* While orphans are deleted and no job outlives its wait: from the comparison on
\* the collection has the files collected only, unless it is yet to be recreated,
\* and nothing if nothing is selected.
SelectionOK ==
    unseen \cap {"orphanDelete", "outlive"} = {} =>
        /\ sync.phase \notin {"idle", "collect", "compare"} =>
              IF Stored(sync.wanted) # {} THEN sync.recreate \/ Selected
                                          ELSE sync.selected \/ chunks = {}
        /\ sync.phase \in {"submit", "await"} => sync.job.recreate \/ Selected

SelectionInv == SyncInv /\ SelectionOK

Complied == unseen' \cap {"orphanDelete", "outlive"} = {}

LEMMA SelectionInit == Init => SelectionInv
  BY SyncInit DEF Init, SelectionInv, SelectionOK, NoSync

\* The steps that add no chunk and keep what was collected.
LEMMA SelectionKept ==
  ASSUME SelectionInv, unseen \subseteq unseen', chunks' \subseteq chunks,
         \/ sync' = sync
         \/ sync'.phase \in {"idle", "collect", "compare"}
         \/ /\ sync.phase \notin {"idle", "collect", "compare"}
            /\ sync'.wanted = sync.wanted /\ sync'.recreate = sync.recreate
            /\ sync'.selected = sync.selected
            /\ sync'.phase \in {"submit", "await"} =>
                  /\ Stored(sync.wanted) # {}
                  /\ \/ sync.phase \in {"submit", "await"} /\ sync'.job = sync.job
                     \/ sync'.job.recreate = sync.recreate
  PROVE  SelectionOK'
<1> SUFFICES ASSUME Complied PROVE SelectionOK'
  BY DEF SelectionOK, Complied
<1>1. unseen \cap {"orphanDelete", "outlive"} = {} /\ SelectionOK
  BY DEF Complied, SelectionInv
<1>2. CASE sync' = sync
  BY <1>1, <1>2 DEF SelectionOK, Selected, Stored
<1>3. CASE sync'.phase \in {"idle", "collect", "compare"}
  BY <1>3 DEF SelectionOK
<1>4. CASE sync' # sync /\ sync'.phase \notin {"idle", "collect", "compare"}
  <2>1. Stored(sync.wanted)' = Stored(sync.wanted)
    BY <1>4 DEF Stored
  <2> QED
    BY <1>1, <1>4, <2>1 DEF SelectionOK, Selected
<1> QED
  BY <1>2, <1>3, <1>4

LEMMA SelectionKeptSteps ==
  ASSUME SelectionInv, [Next]_vars,
         \/ Prepare \/ (\E f \in Files : StartFile(f) \/ EditFile(f)) \/ Redeploy
         \/ Submit \/ GiveUp \/ EndSync \/ InventoryFails \/ Report \/ Stamp
         \/ Trigger \/ Collect \/ UNCHANGED vars
  PROVE  SelectionOK'
<1>1. SyncInv /\ SyncOK /\ sync \in Syncs /\ unseen \subseteq unseen'
  BY UnseenGrows DEF SelectionInv, SyncInv, TypeOK
<1> USE DEF indexVars
<1>2. chunks' \subseteq chunks
  BY DEF Prepare, StartFile, EditFile, Redeploy, Submit, GiveUp, EndSync, InventoryFails,
         Report, Stamp, Trigger, Collect, vars
<1>3. NoSync.phase = "idle"
  BY DEF NoSync
<1>4. CASE Prepare
  <2>1. PICK lost \in SUBSET sync.todo :
          sync' = [sync EXCEPT !.phase = "ingest", !.todo = @ \ lost, !.bad = lost]
    BY <1>4 DEF Prepare
  <2>2. /\ sync.phase = "prepare" /\ sync'.phase = "ingest"
        /\ sync'.wanted = sync.wanted /\ sync'.recreate = sync.recreate
        /\ sync'.selected = sync.selected
    BY <1>1, <1>4, <2>1 DEF Prepare, Syncs
  <2> QED
    BY <1>1, <1>2, <2>2, SelectionKept
<1>5. ASSUME NEW f \in Files, StartFile(f) PROVE SelectionOK'
  <2> DEFINE job == [file |-> f, version |-> sync.wanted[f],
                     config |-> sync.config, recreate |-> sync.recreate]
             Started(replace) == [sync EXCEPT !.todo = @ \ {f}, !.phase = "submit",
                                              !.job = job, !.replace = replace]
  <2>1. \/ sync' = [sync EXCEPT !.todo = @ \ {f}, !.bad = @ \cup {f}]
        \/ \E replace \in {sync.replace, sync.replace \ {Key[f]}} : sync' = Started(replace)
    BY <1>1, <1>5 DEF StartFile, Syncs
  <2>2. /\ job.recreate = sync.recreate /\ sync.phase = "ingest"
        /\ f \in Stored(sync.wanted)
    BY <1>1, <1>5 DEF StartFile, SyncOK
  <2> HIDE DEF job
  <2>3. /\ sync'.wanted = sync.wanted /\ sync'.recreate = sync.recreate
        /\ sync'.selected = sync.selected
        /\ sync'.phase \in {"submit", "await"} => sync'.job.recreate = sync.recreate
    BY <1>1, <2>1, <2>2 DEF Syncs
  <2> QED
    BY <1>1, <1>2, <2>2, <2>3, SelectionKept
<1>6. CASE Submit \/ GiveUp
  <2>1. /\ sync.phase \in {"submit", "await"} /\ sync.job \in Jobs
        /\ Stored(sync.wanted) # {}
    BY <1>1, <1>6 DEF Submit, GiveUp, SyncOK
  <2>2. /\ sync'.wanted = sync.wanted /\ sync'.recreate = sync.recreate
        /\ sync'.selected = sync.selected
        /\ sync'.phase = "ingest" \/ sync'.job = sync.job
    BY <1>1, <1>6, <2>1 DEF Submit, GiveUp, FileFails, FileEnds, Syncs
  <2> QED
    BY <1>1, <1>2, <2>1, <2>2, SelectionKept
<1>7. CASE Report
  <2>1. /\ sync.phase = "ingest"
        /\ sync' \in {NoSync, [sync EXCEPT !.phase = "completed"]}
    BY <1>7 DEF Report
  <2>2. \/ sync'.phase = "idle"
        \/ /\ sync'.phase = "completed" /\ sync'.wanted = sync.wanted
           /\ sync'.recreate = sync.recreate /\ sync'.selected = sync.selected
    BY <1>1, <1>3, <2>1 DEF Syncs
  <2> QED
    BY <1>1, <1>2, <2>1, <2>2, SelectionKept
<1>8. CASE Trigger \/ Collect
  <2>1. sync'.phase \in {"collect", "compare"}
    BY <1>1, <1>8 DEF Trigger, Collect, NoSync, Syncs
  <2> QED
    BY <1>1, <1>2, <2>1, SelectionKept
<1>9. CASE \/ EndSync \/ InventoryFails \/ Stamp \/ (\E f \in Files : EditFile(f))
           \/ Redeploy \/ UNCHANGED vars
  <2>1. sync' \in {sync, NoSync}
    BY <1>9 DEF EndSync, InventoryFails, Stamp, EditFile, Redeploy, vars
  <2> QED
    BY <1>1, <1>2, <1>3, <2>1, SelectionKept
<1> QED
  BY <1>4, <1>5, <1>6, <1>7, <1>8, <1>9

\* After the comparison what is not selected is gone, or goes with the collection.
LEMMA SelectionCompare ==
  ASSUME KeysDiffer, SelectionInv, [Next]_vars,
         CompareNothing \/ ClearIndex \/ CompareForced \/ CompareIncremental
  PROVE  SelectionOK'
<1>1. SyncInv /\ SyncOK /\ sync \in Syncs /\ unseen \subseteq unseen' /\ chunks \subseteq Chunks
  BY UnseenGrows DEF SelectionInv, SyncInv, TypeOK
<1> SUFFICES ASSUME Complied PROVE SelectionOK'
  BY DEF SelectionOK, Complied
<1> USE DEF indexVars
<1>2. CASE CompareNothing
  <2>1. /\ sync'.phase = "ingest" /\ sync'.wanted = sync.wanted
        /\ sync'.selected = sync.selected /\ sync.selected /\ Stored(sync.wanted) = {}
    BY <1>1, <1>2 DEF CompareNothing, Syncs
  <2> QED
    BY <2>1 DEF SelectionOK, Stored
<1>3. CASE ClearIndex
  <2>1. /\ sync'.phase = "ingest" /\ sync'.wanted = sync.wanted
        /\ Stored(sync.wanted) = {} /\ chunks' = {}
    BY <1>1, <1>3 DEF ClearIndex, Syncs, Complied
  <2> QED
    BY <2>1 DEF SelectionOK, Stored
<1>4. CASE CompareForced
  <2>1. /\ sync'.phase = "prepare" /\ sync'.wanted = sync.wanted
        /\ Stored(sync.wanted) # {} /\ sync'.recreate = sync.recreate
        /\ sync.recreate
    BY <1>1, <1>4 DEF CompareForced, Syncs, SyncOK
  <2> QED
    BY <2>1 DEF SelectionOK, Stored
<1>5. CASE CompareIncremental
  <2>1. PICK inventory \in [Keys -> Versions \cup {Gone}] :
          /\ IsInventory(inventory)
          /\ chunks' = chunks \ ChunksUnder(Orphans(inventory))
    BY <1>5 DEF CompareIncremental, UnseenFault, Complied
  <2>2. /\ sync'.phase = "prepare" /\ sync'.wanted = sync.wanted
        /\ Stored(sync.wanted) # {}
    BY <1>1, <1>5 DEF CompareIncremental, Syncs
  <2>3. ASSUME NEW c \in chunks' PROVE c.file \in Stored(sync.wanted)
    <3>1. c \in chunks /\ c.file \in Files /\ Key[c.file] \in Keys /\ c.version # Gone
      BY <1>1, <2>1, <2>3, IndexAssumption DEF Chunks, Versions, Gone
    <3>2. Key[c.file] \notin Orphans(inventory)
      BY <2>1, <2>3, <3>1 DEF ChunksUnder
    <3>3. inventory[Key[c.file]] # Gone
      <4>1. c \in ChunksUnder({Key[c.file]})
        BY <3>1 DEF ChunksUnder
      <4>2. \A d \in ChunksUnder({Key[c.file]}) : d.version # Gone
        BY <1>1 DEF ChunksUnder, Chunks, Versions, Gone
      <4> QED
        BY <2>1, <3>1, <4>1, <4>2 DEF IsInventory
    <3>4. PICK f \in Stored(sync.wanted) : Key[f] = Key[c.file]
      BY <3>1, <3>2, <3>3 DEF Orphans
    <3> QED
      BY <3>1, <3>4 DEF KeysDiffer, Stored
  <2> QED
    BY <2>2, <2>3 DEF SelectionOK, Selected, Stored
<1> QED
  BY <1>2, <1>3, <1>4, <1>5

LEMMA SelectionRemote ==
  ASSUME SelectionInv, [Next]_vars, NEW h \in remote,
         RemoteRecreate(h) \/ RemoteWrite(h) \/ RemoteFail(h) \/ RemoteFailMidway(h)
  PROVE  SelectionOK'
<1>1. SyncInv /\ SyncOK /\ sync \in Syncs /\ unseen \subseteq unseen'
  BY UnseenGrows DEF SelectionInv, SyncInv, TypeOK
<1> SUFFICES ASSUME Complied PROVE SelectionOK'
  BY DEF SelectionOK, Complied
<1> USE DEF indexVars
<1>2. unseen \cap {"orphanDelete", "outlive"} = {} /\ SelectionOK
  BY <1>1 DEF Complied, SelectionInv
<1>3. /\ Awaited(h) /\ sync.phase = "await" /\ h = sync.job /\ h \in Jobs
      /\ h.file \in Stored(sync.wanted)
      /\ h.recreate \/ Selected
  BY <1>1, <1>2 DEF SyncInv, RemoteOK, Awaited, SyncOK, SelectionOK
<1>4. Stored(sync.wanted)' = Stored(sync.wanted)
  <2>1. sync'.wanted = sync.wanted
    <3>1. sync' \in {FileFails, Succeeds, [sync EXCEPT !.job.recreate = FALSE]}
      BY <1>3
      DEF RemoteRecreate, RemoteWrite, RemoteFail, RemoteFailMidway, Result
    <3> QED
      BY <1>1, <3>1 DEF FileFails, Succeeds, FileEnds, Syncs
  <2> QED
    BY <2>1 DEF Stored
<1>5. CASE RemoteRecreate(h) \/ RemoteWrite(h) \/ RemoteFailMidway(h)
  <2>1. Selected'
    <3>1. \A c \in chunks' : c.file = h.file \/ (~h.recreate /\ c \in chunks)
      BY <1>5 DEF RemoteRecreate, RemoteWrite, RemoteFailMidway, Write
    <3> QED
      BY <1>3, <1>4, <3>1 DEF Selected
  <2> QED
    BY <1>3, <1>4, <2>1 DEF SelectionOK
<1>6. CASE RemoteFail(h)
  <2>1. sync' = FileFails /\ chunks' = chunks
    BY <1>3, <1>6 DEF RemoteFail, Result
  <2>2. /\ sync'.wanted = sync.wanted /\ sync'.recreate = sync.recreate
        /\ sync'.selected = sync.selected /\ sync'.phase = "ingest"
    BY <1>1, <2>1 DEF FileFails, FileEnds, Syncs
  <2> QED
    BY <1>1, <1>3, <2>1, <2>2, SelectionKept
<1> QED
  BY <1>5, <1>6

LEMMA SelectionStep == ASSUME KeysDiffer PROVE SelectionInv /\ [Next]_vars => SelectionInv'
<1> SUFFICES ASSUME SelectionInv, [Next]_vars PROVE SelectionInv'
  OBVIOUS
<1>1. SyncInv'
  BY SyncStepOK DEF SelectionInv
<1>2. SelectionOK'
  BY SelectionKeptSteps, SelectionCompare, SelectionRemote DEF Next, SyncStep
<1> QED
  BY <1>1, <1>2 DEF SelectionInv

LEMMA SelectionServed == SelectionInv => CompletedServesOnlySelection
<1> SUFFICES ASSUME SelectionInv, sync.phase = "completed",
                    Stored(sync.wanted) # {} \/ ~sync.selected,
                    unseen \cap {"orphanDelete", "outlive"} = {},
                    NEW c \in chunks
             PROVE  sync.wanted[c.file] # Gone
  BY DEF CompletedServesOnlySelection
<1>1. Stored(sync.wanted) # {} => ~sync.recreate
  BY DEF SelectionInv, SyncInv, SyncOK
<1>2. c.file \in Stored(sync.wanted)
  BY <1>1 DEF SelectionInv, SelectionOK, Selected
<1> QED
  BY <1>2 DEF Stored

-----------------------------------------------------------------------------
\* Whatever fails, dies or outlives its wait, every state of a sync, of the
\* pipeline jobs and of the collection is one that the code gives it.
THEOREM IndexTypeCorrect == Spec => []TypeOK
<1>1. SyncInv => TypeOK
  BY DEF SyncInv
<1> QED
  BY <1>1, SyncInit, SyncStepOK, PTL DEF Spec

\* An incremental sync only ever adds to a collection of its own config, unless
\* one of three things went wrong unnoticed.
THEOREM IncrementalMatchesCorrect == Spec => []IncrementalMatchesCollection
  BY ConfigInit, ConfigStep, ConfigMatches, PTL DEF Spec

\* What a sync counts as succeeded or skipped is in the index, whole and in that
\* version only, whatever the sync before it failed at, if no two files share a
\* key.
THEOREM ReportedCorrect == ASSUME KeysDiffer PROVE Spec => []ReportedIsIndexed
  BY IndexedInit, IndexedStep, IndexedReported, PTL DEF Spec

\* A completed sync leaves nothing to be cited that is not selected, if no two
\* files share a key.
THEOREM ServesSelectionCorrect == ASSUME KeysDiffer PROVE Spec => []CompletedServesOnlySelection
  BY SelectionInit, SelectionStep, SelectionServed, PTL DEF Spec

-----------------------------------------------------------------------------
(* Induction, over the elements of a set: a property of numbers or of       *)
(* sequences is the set of those that have it.                             *)

\* The least-number principle.
LEMMA LeastNumber ==
    ASSUME NEW T, T \subseteq Nat, T # {}
    PROVE  \E n \in T : \A k \in T : n <= k
  <1> DEFINE R == {ss \in Nat \X Nat : ss[1] < ss[2]}
  <1>1. IsWellFoundedOn(R, Nat)
    BY NatLessThanWellFounded DEF OpToRel
  <1>2. PICK n \in T : \A k \in T : <<k, n>> \notin R
    <2> HIDE DEF R
    <2> QED
      BY <1>1, WFMin
  <1>3. ASSUME NEW k \in T PROVE n <= k
    <2>1. k \in Nat /\ n \in Nat /\ ~(<<k, n>>[1] < <<k, n>>[2])
      BY <1>2
    <2> QED
      BY <2>1
  <1> QED
    BY <1>3

LEMMA NumberInduction ==
    ASSUME NEW P, 0 \in P, \A n \in Nat : n \in P => n + 1 \in P
    PROVE  Nat \subseteq P
  <1> SUFFICES ASSUME Nat \ P # {} PROVE FALSE
    OBVIOUS
  <1> DEFINE T == Nat \ P
  <1>1. PICK n \in T : \A k \in T : n <= k
    <2>1. T \subseteq Nat /\ T # {}
      OBVIOUS
    <2> HIDE DEF T
    <2> QED
      BY <2>1, LeastNumber
  <1>2. n \in Nat /\ n # 0 /\ n - 1 \in Nat
    OBVIOUS
  <1>3. n - 1 \in P
    BY <1>1, <1>2
  <1>4. (n - 1) + 1 = n
    BY <1>2
  <1> QED
    BY <1>2, <1>3, <1>4

LEMMA SequenceInduction ==
    ASSUME NEW S, NEW P, <<>> \in P,
           \A s \in Seq(S), e \in S : s \in P => Append(s, e) \in P
    PROVE  Seq(S) \subseteq P
  <1> DEFINE N == {n \in Nat : \A s \in Seq(S) : Len(s) = n => s \in P}
  <1>1. 0 \in N
    <2>1. \A s \in Seq(S) : Len(s) = 0 => s = <<>>
      BY EmptySeq
    <2> QED
      BY <2>1
  <1>2. ASSUME NEW n \in Nat, n \in N PROVE n + 1 \in N
    <2> SUFFICES ASSUME NEW s \in Seq(S), Len(s) = n + 1 PROVE s \in P
      OBVIOUS
    <2>1. s # <<>>
      BY EmptySeq
    <2>2. PICK r \in Seq(S), e \in S : s = Append(r, e)
      BY <2>1, SequenceEmptyOrAppend
    <2>3. Len(r) = n
      <3>1. Len(s) = Len(r) + 1 /\ Len(r) \in Nat
        BY <2>2, AppendProperties, LenProperties
      <3> QED
        BY <3>1
    <2>4. r \in P
      BY <1>2, <2>3
    <2> QED
      BY <2>2, <2>4
  <1>3. Nat \subseteq N
    <2> HIDE DEF N
    <2> QED
      BY <1>1, <1>2, NumberInduction
  <1>4. \A s \in Seq(S) : Len(s) \in Nat
    BY LenProperties
  <1> QED
    BY <1>3, <1>4

-----------------------------------------------------------------------------
(* FlattenSeq, which is defined by a recursive function.                   *)

Run(ss) ==
    CHOOSE run : run = [i \in 1 .. Len(ss) |-> IF i = 1 THEN ss[i] ELSE run[i - 1] \o ss[i]]

LEMMA FlattenIsRun ==
    ASSUME NEW ss
    PROVE  FlattenSeq(ss) = IF Len(ss) = 0 THEN ss ELSE Run(ss)[Len(ss)]
  BY DEF FlattenSeq, Run

\* The recursive function exists.
LEMMA RunExists ==
    ASSUME NEW S, NEW ss \in Seq(S)
    PROVE  Run(ss) = [i \in 1 .. Len(ss) |->
                          IF i = 1 THEN ss[i] ELSE Run(ss)[i - 1] \o ss[i]]
  <1> DEFINE IsRun(run, s) ==
                run = [i \in 1 .. Len(s) |-> IF i = 1 THEN s[i] ELSE run[i - 1] \o s[i]]
             P == {s \in Seq(S) : \E run : IsRun(run, s)}
  <1>1. <<>> \in P
    <2> DEFINE nothing == [i \in 1 .. 0 |-> i]
    <2>1. 1 .. Len(<<>>) = {} /\ 1 .. 0 = {}
      OBVIOUS
    <2>2. nothing = [i \in 1 .. Len(<<>>) |->
                        IF i = 1 THEN <<>>[i] ELSE nothing[i - 1] \o <<>>[i]]
      BY <2>1
    <2>3. <<>> \in Seq(S)
      BY EmptySeq
    <2>4. IsRun(nothing, <<>>)
      BY <2>2
    <2> QED
      BY <2>3, <2>4
  <1>2. ASSUME NEW s \in Seq(S), NEW e \in S, s \in P PROVE Append(s, e) \in P
    <2>1. PICK run : IsRun(run, s)
      BY <1>2
    <2> DEFINE t == Append(s, e)
               n == Len(s) + 1
               longer == [i \in 1 .. n |-> IF i = n THEN IF i = 1 THEN e ELSE run[i - 1] \o e
                                                    ELSE run[i]]
    <2>2. /\ t \in Seq(S) /\ Len(t) = n /\ Len(s) \in Nat /\ t[n] = e
          /\ \A i \in 1 .. Len(s) : t[i] = s[i]
      BY AppendProperties, LenProperties
    <2>3. ASSUME NEW i \in 1 .. n
          PROVE  longer[i] = IF i = 1 THEN t[i] ELSE longer[i - 1] \o t[i]
      <3>1. CASE i = n
        BY <2>2, <3>1
      <3>2. CASE i # n
        <4>1. i \in 1 .. Len(s) /\ longer[i] = run[i] /\ t[i] = s[i]
          BY <2>2, <3>2
        <4>2. run[i] = IF i = 1 THEN s[i] ELSE run[i - 1] \o s[i]
          BY <2>1, <4>1
        <4>3. i # 1 => longer[i - 1] = run[i - 1]
          BY <2>2, <4>1
        <4> QED
          BY <4>1, <4>2, <4>3
      <3> QED
        BY <3>1, <3>2
    <2>4. IsRun(longer, t)
      <3> HIDE DEF t
      <3> QED
        BY <2>2, <2>3
    <2> QED
      BY <2>2, <2>4
  <1>3. ss \in P
    <2> HIDE DEF P
    <2> QED
      BY <1>1, <1>2, SequenceInduction
  <1>4. PICK run : IsRun(run, ss)
    BY <1>3
  <1> QED
    BY <1>4 DEF Run

LEMMA FlattenEmpty == FlattenSeq(<<>>) = <<>>
  BY FlattenIsRun, EmptySeq

LEMMA FlattenAppend ==
    ASSUME NEW S, NEW ss \in Seq(Seq(S)), NEW s \in Seq(S)
    PROVE  /\ FlattenSeq(ss) \in Seq(S)
           /\ FlattenSeq(Append(ss, s)) = FlattenSeq(ss) \o s
  <1> DEFINE Agree(r, e) == \A i \in 1 .. Len(r) : Run(Append(r, e))[i] = Run(r)[i]
  <1>1. ASSUME NEW r \in Seq(Seq(S)), NEW e \in Seq(S) PROVE Agree(r, e)
    <2> DEFINE t == Append(r, e)
               P == {n \in Nat : n \in 1 .. Len(r) => Run(t)[n] = Run(r)[n]}
    <2>1. /\ t \in Seq(Seq(S)) /\ Len(t) = Len(r) + 1 /\ Len(r) \in Nat
          /\ \A i \in 1 .. Len(r) : t[i] = r[i]
      BY AppendProperties, LenProperties
    <2>2. /\ Run(t) = [i \in 1 .. Len(t) |-> IF i = 1 THEN t[i] ELSE Run(t)[i - 1] \o t[i]]
          /\ Run(r) = [i \in 1 .. Len(r) |-> IF i = 1 THEN r[i] ELSE Run(r)[i - 1] \o r[i]]
      <3> HIDE DEF t
      <3> QED
        BY <2>1, RunExists
    <2>3. 0 \in P
      OBVIOUS
    <2>4. ASSUME NEW n \in Nat, n \in P PROVE n + 1 \in P
      <3> SUFFICES ASSUME n + 1 \in 1 .. Len(r) PROVE Run(t)[n + 1] = Run(r)[n + 1]
        OBVIOUS
      <3> HIDE DEF t
      <3>1. n + 1 \in 1 .. Len(t) /\ t[n + 1] = r[n + 1]
        BY <2>1
      <3>2. Run(t)[n + 1] = IF n + 1 = 1 THEN t[n + 1] ELSE Run(t)[(n + 1) - 1] \o t[n + 1]
        BY <2>2, <3>1
      <3>3. Run(r)[n + 1] = IF n + 1 = 1 THEN r[n + 1] ELSE Run(r)[(n + 1) - 1] \o r[n + 1]
        BY <2>2
      <3>4. n + 1 # 1 => Run(t)[(n + 1) - 1] = Run(r)[(n + 1) - 1]
        BY <2>4
      <3> QED
        BY <3>1, <3>2, <3>3, <3>4
    <2>5. Nat \subseteq P
      <3> HIDE DEF P
      <3> QED
        BY <2>3, <2>4, NumberInduction
    <2> QED
      BY <2>1, <2>5
  <1>2. ASSUME NEW r \in Seq(Seq(S)), NEW e \in Seq(S), FlattenSeq(r) \in Seq(S)
        PROVE  FlattenSeq(Append(r, e)) = FlattenSeq(r) \o e
    <2> DEFINE t == Append(r, e)
    <2>1. /\ t \in Seq(Seq(S)) /\ Len(t) = Len(r) + 1 /\ Len(r) \in Nat
          /\ t[Len(r) + 1] = e
      BY AppendProperties, LenProperties
    <2>2. Agree(r, e)
      BY <1>1
    <2> HIDE DEF t
    <2>3. Run(t) = [i \in 1 .. Len(t) |-> IF i = 1 THEN t[i] ELSE Run(t)[i - 1] \o t[i]]
      BY <2>1, RunExists
    <2>4. FlattenSeq(t) = Run(t)[Len(t)]
      BY <2>1, FlattenIsRun
    <2>5. CASE Len(r) = 0
      <3>1. r = <<>> /\ FlattenSeq(r) = <<>>
        BY <2>5, EmptySeq, FlattenEmpty
      <3>2. FlattenSeq(t) = e
        BY <2>1, <2>3, <2>4, <2>5
      <3> QED
        BY <3>1, <3>2, ConcatEmptySeq DEF t
    <2>6. CASE Len(r) # 0
      <3>1. FlattenSeq(t) = Run(t)[Len(r)] \o e
        <4>1. /\ Len(t) \in 1 .. Len(t) /\ Len(t) # 1 /\ Len(t) - 1 = Len(r)
              /\ t[Len(t)] = e
          BY <2>1, <2>6
        <4>2. Run(t)[Len(t)] = IF Len(t) = 1 THEN t[Len(t)]
                               ELSE Run(t)[Len(t) - 1] \o t[Len(t)]
          BY <2>3, <4>1
        <4> QED
          BY <2>4, <4>1, <4>2
      <3>2. Run(t)[Len(r)] = Run(r)[Len(r)]
        BY <2>1, <2>2, <2>6 DEF t
      <3>3. FlattenSeq(r) = Run(r)[Len(r)]
        BY <2>6, FlattenIsRun
      <3> QED
        BY <3>1, <3>2, <3>3 DEF t
    <2> QED
      BY <2>5, <2>6
  <1> DEFINE P == {r \in Seq(Seq(S)) : FlattenSeq(r) \in Seq(S)}
  <1>3. <<>> \in P
    BY FlattenEmpty, EmptySeq
  <1>4. ASSUME NEW r \in Seq(Seq(S)), NEW e \in Seq(S), r \in P PROVE Append(r, e) \in P
    <2>1. FlattenSeq(r) \o e \in Seq(S)
      BY <1>4, ConcatProperties
    <2> QED
      BY <1>2, <1>4, <2>1, AppendProperties
  <1>5. ss \in P
    <2> HIDE DEF P
    <2> QED
      BY <1>3, <1>4, SequenceInduction
  <1> QED
    BY <1>2, <1>5

LEMMA FlattenConcat ==
    ASSUME NEW S, NEW ss \in Seq(Seq(S)), NEW tt \in Seq(Seq(S))
    PROVE  FlattenSeq(ss \o tt) = FlattenSeq(ss) \o FlattenSeq(tt)
  <1> DEFINE P == {t \in Seq(Seq(S)) :
                      FlattenSeq(ss \o t) = FlattenSeq(ss) \o FlattenSeq(t)}
  <1>0. FlattenSeq(ss) \in Seq(S)
    BY FlattenAppend, EmptySeq
  <1>1. <<>> \in P
    BY <1>0, FlattenEmpty, ConcatEmptySeq, EmptySeq
  <1>2. ASSUME NEW t \in Seq(Seq(S)), NEW e \in Seq(S), t \in P
        PROVE  Append(t, e) \in P
    <2>1. ss \o t \in Seq(Seq(S)) /\ <<e>> \in Seq(Seq(S))
      BY ConcatProperties
    <2>2. ss \o Append(t, e) = Append(ss \o t, e)
      <3>1. Append(t, e) = t \o <<e>> /\ Append(ss \o t, e) = (ss \o t) \o <<e>>
        BY <2>1, AppendIsConcat
      <3> QED
        BY <2>1, <3>1, ConcatAssociative
    <2>3. FlattenSeq(Append(ss \o t, e)) = FlattenSeq(ss \o t) \o e
      BY <2>1, FlattenAppend
    <2>4. FlattenSeq(Append(t, e)) = FlattenSeq(t) \o e /\ FlattenSeq(t) \in Seq(S)
      BY FlattenAppend
    <2>5. FlattenSeq(ss \o t) = FlattenSeq(ss) \o FlattenSeq(t)
      BY <1>2
    <2>6. (FlattenSeq(ss) \o FlattenSeq(t)) \o e = FlattenSeq(ss) \o (FlattenSeq(t) \o e)
      BY ONLY <1>0, <2>4, e \in Seq(S), ConcatAssociative, SMTT(40)
    <2> QED
      BY <2>2, <2>3, <2>4, <2>5, <2>6, AppendProperties
  <1>3. tt \in P
    <2> HIDE DEF P
    <2> QED
      BY <1>1, <1>2, SequenceInduction
  <1> QED
    BY <1>3

-----------------------------------------------------------------------------
(* Placeholders.                                                           *)

LEMMA PlaceholderIsText ==
    ASSUME NEW n \in DOMAIN Digits
    PROVE  /\ Placeholder(n) \in Seq(Characters)
           /\ Len(Placeholder(n)) = 4
           /\ Placeholder(n)[1] = "[" /\ Placeholder(n)[2] = "N"
           /\ Placeholder(n)[3] = Digits[n] /\ Placeholder(n)[4] = "]"
           /\ Digits[n] \in Range(Digits)
           /\ Digits[n] \notin {"[", "N", "]"}
           /\ \A i \in 1 .. 4 : Placeholder(n)[i] \in Characters \ Names
  <1>1. Digits[n] \in Range(Digits)
    BY DEF Range
  <1>2. {"[", "N", "]", Digits[n]} \subseteq Characters \ Names
    BY <1>1, PlaceholdersAreClear DEF Characters
  <1>3. Placeholder(n) \in Seq(Characters)
    BY <1>2 DEF Placeholder
  <1> QED
    BY <1>1, <1>2, <1>3, PlaceholdersAreClear DEF Placeholder

\* A placeholder is where its characters are.
LEMMA PlaceholderCharacters ==
    ASSUME NEW text \in Seq(Characters), NEW i \in Nat \ {0}, NEW n \in DOMAIN Digits
    PROVE  PlaceholderAt(text, i, n) <=>
              /\ i + 3 <= Len(text)
              /\ text[i] = "[" /\ text[i + 1] = "N"
              /\ text[i + 2] = Digits[n] /\ text[i + 3] = "]"
  <1>1. SUFFICES ASSUME i + 3 <= Len(text)
                 PROVE  SubSeq(text, i, i + 3) = Placeholder(n) <=>
                           /\ text[i] = "[" /\ text[i + 1] = "N"
                           /\ text[i + 2] = Digits[n] /\ text[i + 3] = "]"
    BY LenProperties DEF PlaceholderAt
  <1> DEFINE part == SubSeq(text, i, i + 3)
  <1>2. /\ part \in Seq(Characters) /\ Len(part) = 4
        /\ part[1] = text[i] /\ part[2] = text[i + 1]
        /\ part[3] = text[i + 2] /\ part[4] = text[i + 3]
    <2>1. \A j \in i .. i + 3 : text[j] \in Characters
      <3>1. \A j \in i .. i + 3 : j \in 1 .. Len(text)
        BY <1>1, LenProperties
      <3> QED
        BY <3>1, ElementOfSeq
    <2>2. /\ part \in Seq(Characters)
          /\ Len(part) = IF i <= i + 3 THEN (i + 3) - i + 1 ELSE 0
          /\ \A j \in 1 .. (i + 3) - i + 1 : part[j] = text[i + j - 1]
      BY <2>1, SubSeqProperties
    <2>3. (i + 3) - i + 1 = 4 /\ i <= i + 3
      OBVIOUS
    <2>4. \A j \in 1 .. 4 : part[j] = text[i + j - 1]
      BY <2>2, <2>3
    <2>5. /\ i + 1 - 1 = i /\ i + 2 - 1 = i + 1 /\ i + 3 - 1 = i + 2 /\ i + 4 - 1 = i + 3
          /\ 1 \in 1 .. 4 /\ 2 \in 1 .. 4 /\ 3 \in 1 .. 4 /\ 4 \in 1 .. 4
      OBVIOUS
    <2> HIDE DEF part
    <2> QED
      BY <2>2, <2>3, <2>4, <2>5
  <1> HIDE DEF part
  <1>3. ASSUME part[1] = "[", part[2] = "N", part[3] = Digits[n], part[4] = "]"
        PROVE  part = Placeholder(n)
    <2>1. \A j \in 1 .. 4 : j \in {1, 2, 3, 4}
      OBVIOUS
    <2>2. \A j \in 1 .. Len(part) : part[j] = Placeholder(n)[j]
      BY <1>2, <1>3, <2>1, PlaceholderIsText
    <2> QED
      BY ONLY <1>2, <2>2, n \in DOMAIN Digits, PlaceholderIsText, SeqEqual, SMTT(40)
  <1>4. part = Placeholder(n) =>
            part[1] = "[" /\ part[2] = "N" /\ part[3] = Digits[n] /\ part[4] = "]"
    BY PlaceholderIsText
  <1> QED
    BY <1>2, <1>3, <1>4 DEF part

\* Where one begins, no other one does.
LEMMA OnePlaceholder ==
    ASSUME NEW text \in Seq(Characters), NEW i \in Nat \ {0},
           NEW n \in DOMAIN Digits, NEW m \in DOMAIN Digits,
           PlaceholderAt(text, i, n), PlaceholderAt(text, i, m)
    PROVE  n = m
  BY PlaceholderCharacters, PlaceholdersAreClear DEF IsInjective

-----------------------------------------------------------------------------
(* Substitute, piece by piece.                                             *)

Starts(text, by) == {i \in DOMAIN text : \E n \in DOMAIN by : PlaceholderAt(text, i, n)}
Piece(text, by, i) ==
    IF i \in Starts(text, by) THEN by[CHOOSE n \in DOMAIN by : PlaceholderAt(text, i, n)]
    ELSE IF \E d \in 1 .. 3 : i - d \in Starts(text, by) THEN <<>>
    ELSE <<text[i]>>
Pieces(text, by) == [i \in DOMAIN text |-> Piece(text, by, i)]

LEMMA SubstituteIsPieces ==
    ASSUME NEW text, NEW by
    PROVE  Substitute(text, by) = FlattenSeq(Pieces(text, by))
  BY DEF Substitute, Pieces, Piece, Starts

\* Replacements for the first numbers.
Replacements(S) == {by \in Seq(Seq(S)) : Len(by) <= Len(Digits)}

LEMMA ReplacementNumbers ==
    ASSUME NEW S, NEW by \in Replacements(S)
    PROVE  /\ by \in Seq(Seq(S)) /\ DOMAIN by = 1 .. Len(by) /\ Len(by) \in Nat
           /\ DOMAIN by \subseteq DOMAIN Digits
           /\ \A n \in DOMAIN by : by[n] \in Seq(S)
  <1>1. by \in Seq(Seq(S)) /\ Len(by) \in Nat /\ DOMAIN by = 1 .. Len(by)
    BY LenProperties DEF Replacements
  <1>2. Len(Digits) \in Nat /\ DOMAIN Digits = 1 .. Len(Digits)
    BY TextsAreSequences, LenProperties
  <1>3. \A n \in DOMAIN by : by[n] \in Seq(S)
    BY <1>1, ElementOfSeq
  <1> QED
    BY <1>1, <1>2, <1>3 DEF Replacements

LEMMA PieceAtStart ==
    ASSUME NEW S, NEW by \in Replacements(S), NEW text \in Seq(Characters),
           NEW i \in DOMAIN text, NEW n \in DOMAIN by, PlaceholderAt(text, i, n)
    PROVE  i \in Starts(text, by) /\ Piece(text, by, i) = by[n]
  <1> DEFINE m == CHOOSE k \in DOMAIN by : PlaceholderAt(text, i, k)
  <1>1. m \in DOMAIN by /\ PlaceholderAt(text, i, m)
    OBVIOUS
  <1>2. i \in Nat \ {0}
    BY LenProperties
  <1>3. m = n
    <2> HIDE DEF m
    <2> QED
      BY <1>1, <1>2, ReplacementNumbers, OnePlaceholder
  <1> QED
    BY <1>3 DEF Piece, Starts

LEMMA PiecesAreTexts ==
    ASSUME NEW by \in Replacements(Characters), NEW text \in Seq(Characters)
    PROVE  /\ Pieces(text, by) \in Seq(Seq(Characters))
           /\ Len(Pieces(text, by)) = Len(text)
           /\ DOMAIN Pieces(text, by) = 1 .. Len(text)
           /\ Substitute(text, by) \in Seq(Characters)
  <1>1. DOMAIN text = 1 .. Len(text) /\ Len(text) \in Nat
    BY LenProperties
  <1>2. ASSUME NEW i \in 1 .. Len(text) PROVE Piece(text, by, i) \in Seq(Characters)
    <2>1. CASE i \in Starts(text, by)
      <3>1. PICK n \in DOMAIN by : PlaceholderAt(text, i, n)
        BY <2>1 DEF Starts
      <3>2. Piece(text, by, i) = by[n]
        BY <1>1, <3>1, PieceAtStart
      <3> QED
        BY <3>2, ReplacementNumbers
    <2>2. CASE i \notin Starts(text, by)
      <3>1. <<>> \in Seq(Characters) /\ <<text[i]>> \in Seq(Characters)
        BY EmptySeq, ElementOfSeq
      <3> QED
        BY <2>2, <3>1 DEF Piece
    <2> QED
      BY <2>1, <2>2
  <1>3. Pieces(text, by) \in [1 .. Len(text) -> Seq(Characters)]
    BY <1>1, <1>2 DEF Pieces
  <1>4. Pieces(text, by) \in Seq(Seq(Characters))
    BY <1>1, <1>3, SeqDef
  <1>5. FlattenSeq(Pieces(text, by)) \in Seq(Characters)
    BY <1>4, EmptySeq, FlattenAppend
  <1> QED
    BY <1>1, <1>3, <1>4, <1>5, SubstituteIsPieces, LenProperties

LEMMA SubstituteEmpty ==
    ASSUME NEW by \in Replacements(Characters)
    PROVE  Substitute(<<>>, by) = <<>>
  <1>1. Pieces(<<>>, by) \in Seq(Seq(Characters)) /\ Len(Pieces(<<>>, by)) = 0
    BY PiecesAreTexts, EmptySeq
  <1>2. Pieces(<<>>, by) = <<>>
    BY <1>1, EmptySeq
  <1> QED
    BY <1>2, SubstituteIsPieces, FlattenEmpty

\* A placeholder that a cut between two texts goes through.
Straddles(t, u, n) ==
    \E i \in DOMAIN t : i + 3 > Len(t) /\ PlaceholderAt(t \o u, i, n)

LEMMA StraddlingCharacters ==
    ASSUME NEW t \in Seq(Characters), NEW u \in Seq(Characters), NEW n \in DOMAIN Digits,
           Straddles(t, u, n)
    PROVE  \E i \in 1 .. Len(t) :
              /\ i + 3 > Len(t) /\ i + 3 <= Len(t) + Len(u)
              /\ t[i] = "["
              /\ \A j \in i + 1 .. Len(t) : t[j] \in Body
              /\ u # <<>> /\ u[1] \in Body \union {"]"}
              /\ i + 3 = Len(t) + 1 =>
                    t[i + 1] = "N" /\ t[i + 2] = Digits[n] /\ u[1] = "]"
  <1>1. PICK i \in DOMAIN t : i + 3 > Len(t) /\ PlaceholderAt(t \o u, i, n)
    BY DEF Straddles
  <1>2. Len(t) \in Nat /\ Len(u) \in Nat /\ i \in 1 .. Len(t) /\ i \in Nat \ {0}
    BY LenProperties
  <1>3. /\ t \o u \in Seq(Characters)
        /\ Len(t \o u) = Len(t) + Len(u)
        /\ \A j \in 1 .. Len(t) : (t \o u)[j] = t[j]
        /\ \A j \in 1 .. Len(u) : (t \o u)[Len(t) + j] = u[j]
    <2>1. /\ t \o u \in Seq(Characters)
          /\ Len(t \o u) = Len(t) + Len(u)
          /\ \A j \in 1 .. Len(t) + Len(u) :
                (t \o u)[j] = IF j <= Len(t) THEN t[j] ELSE u[j - Len(t)]
      BY ConcatProperties
    <2>2. ASSUME NEW j \in 1 .. Len(u) PROVE (t \o u)[Len(t) + j] = u[j]
      <3>1. /\ Len(t) + j \in 1 .. Len(t) + Len(u) /\ ~(Len(t) + j <= Len(t))
            /\ (Len(t) + j) - Len(t) = j
        BY <1>2
      <3> QED
        BY <2>1, <3>1
    <2> QED
      BY <1>2, <2>1, <2>2
  <1>4. /\ i + 3 <= Len(t) + Len(u)
        /\ (t \o u)[i] = "[" /\ (t \o u)[i + 1] = "N"
        /\ (t \o u)[i + 2] = Digits[n] /\ (t \o u)[i + 3] = "]"
    <2> DEFINE w == t \o u
    <2>1. w \in Seq(Characters) /\ Len(w) = Len(t) + Len(u) /\ PlaceholderAt(w, i, n)
      BY <1>1, <1>3
    <2> HIDE DEF w
    <2>2. /\ i + 3 <= Len(w) /\ w[i] = "[" /\ w[i + 1] = "N"
          /\ w[i + 2] = Digits[n] /\ w[i + 3] = "]"
      BY ONLY <1>2, <2>1, n \in DOMAIN Digits, PlaceholderCharacters, SMTT(40)
    <2>3. i + 3 <= Len(t) + Len(u)
      BY <2>1, <2>2
    <2> QED
      BY <2>2, <2>3 DEF w
  <1>5. 1 \in 1 .. Len(u) /\ u # <<>>
    BY <1>1, <1>2, <1>4, EmptySeq
  <1>6. Digits[n] \in Body /\ "N" \in Body
    BY PlaceholderIsText DEF Body
  <1>7. ASSUME NEW j \in i + 1 .. Len(t) PROVE t[j] \in Body
    <2>1. j \in {i + 1, i + 2} /\ j \in 1 .. Len(t)
      BY <1>1, <1>2
    <2> QED
      BY <1>3, <1>4, <1>6, <2>1
  <1>8. u[1] \in Body \union {"]"}
    <2>1. Len(t) + 1 \in {i + 1, i + 2, i + 3}
      BY <1>1, <1>2
    <2>2. (t \o u)[Len(t) + 1] = u[1]
      BY <1>3, <1>5
    <2> QED
      BY <1>4, <1>6, <2>1, <2>2
  <1>9. i + 3 = Len(t) + 1 => t[i + 1] = "N" /\ t[i + 2] = Digits[n] /\ u[1] = "]"
    <2> SUFFICES ASSUME i + 3 = Len(t) + 1
                 PROVE  t[i + 1] = "N" /\ t[i + 2] = Digits[n] /\ u[1] = "]"
      OBVIOUS
    <2>1. i + 1 \in 1 .. Len(t) /\ i + 2 \in 1 .. Len(t)
      BY <1>2
    <2>2. (t \o u)[Len(t) + 1] = u[1]
      BY <1>3, <1>5
    <2> QED
      BY <1>3, <1>4, <2>1, <2>2
  <1>10. t[i] = "["
    BY <1>2, <1>3, <1>4
  <1> QED
    BY <1>1, <1>2, <1>4, <1>5, <1>7, <1>8, <1>9, <1>10

\* Substitution goes text by text, unless a placeholder lies across the cut.
LEMMA SubstituteConcat ==
    ASSUME NEW t \in Seq(Characters), NEW u \in Seq(Characters),
           NEW by \in Replacements(Characters),
           \A n \in DOMAIN by : ~Straddles(t, u, n)
    PROVE  Substitute(t \o u, by) = Substitute(t, by) \o Substitute(u, by)
  <1> DEFINE w == t \o u
  <1>1. /\ Len(t) \in Nat /\ Len(u) \in Nat
        /\ DOMAIN t = 1 .. Len(t) /\ DOMAIN u = 1 .. Len(u)
        /\ DOMAIN by \subseteq DOMAIN Digits
    BY LenProperties, ReplacementNumbers
  <1>2. /\ w \in Seq(Characters) /\ Len(w) = Len(t) + Len(u)
        /\ DOMAIN w = 1 .. Len(t) + Len(u)
        /\ \A i \in 1 .. Len(t) + Len(u) : w[i] = IF i <= Len(t) THEN t[i] ELSE u[i - Len(t)]
    BY ConcatProperties, LenProperties
  <1>3. \A j \in 1 .. Len(t) : w[j] = t[j]
    BY <1>1, <1>2
  <1>4. ASSUME NEW j \in 1 .. Len(u) PROVE w[Len(t) + j] = u[j]
    <2>1. /\ Len(t) + j \in 1 .. Len(t) + Len(u) /\ ~(Len(t) + j <= Len(t))
          /\ (Len(t) + j) - Len(t) = j
      BY <1>1
    <2> QED
      BY <1>2, <2>1
  <1>5. ASSUME NEW i \in 1 .. Len(t), NEW n \in DOMAIN by
        PROVE  PlaceholderAt(w, i, n) <=> PlaceholderAt(t, i, n)
    <2>1. i \in Nat \ {0} /\ n \in DOMAIN Digits
      BY <1>1
    <2>2. CASE i + 3 <= Len(t)
      <3>1. \A j \in {i, i + 1, i + 2, i + 3} : j \in 1 .. Len(t)
        BY <1>1, <2>2
      <3>2. i + 3 <= Len(w)
        BY <1>1, <1>2, <2>2
      <3>3. /\ w[i] = t[i] /\ w[i + 1] = t[i + 1]
            /\ w[i + 2] = t[i + 2] /\ w[i + 3] = t[i + 3]
        <4> HIDE DEF w
        <4> QED
          BY <1>3, <3>1
      <3> HIDE DEF w
      <3>4. PlaceholderAt(w, i, n) <=>
              /\ i + 3 <= Len(w) /\ w[i] = "[" /\ w[i + 1] = "N"
              /\ w[i + 2] = Digits[n] /\ w[i + 3] = "]"
        BY ONLY <1>2, <2>1, PlaceholderCharacters, SMTT(40)
      <3>5. PlaceholderAt(t, i, n) <=>
              /\ i + 3 <= Len(t) /\ t[i] = "[" /\ t[i + 1] = "N"
              /\ t[i + 2] = Digits[n] /\ t[i + 3] = "]"
        BY ONLY <2>1, t \in Seq(Characters), PlaceholderCharacters
      <3> QED
        BY <2>2, <3>2, <3>3, <3>4, <3>5
    <2>3. CASE ~(i + 3 <= Len(t))
      <3>1. ~PlaceholderAt(t, i, n)
        BY <2>3 DEF PlaceholderAt
      <3>2. i + 3 > Len(t)
        BY <1>1, <2>3
      <3>3. ~PlaceholderAt(w, i, n)
        BY <1>1, <3>2 DEF Straddles
      <3> QED
        BY <3>1, <3>3
    <2> QED
      BY <2>2, <2>3
  <1>6. ASSUME NEW j \in 1 .. Len(u), NEW n \in DOMAIN by
        PROVE  PlaceholderAt(w, Len(t) + j, n) <=> PlaceholderAt(u, j, n)
    <2>1. j \in Nat \ {0} /\ Len(t) + j \in Nat \ {0} /\ n \in DOMAIN Digits
      BY <1>1
    <2>2. (Len(t) + j) + 3 <= Len(w) <=> j + 3 <= Len(u)
      BY <1>1, <1>2
    <2>3. ASSUME j + 3 <= Len(u)
          PROVE  /\ w[Len(t) + j] = u[j] /\ w[(Len(t) + j) + 1] = u[j + 1]
                 /\ w[(Len(t) + j) + 2] = u[j + 2] /\ w[(Len(t) + j) + 3] = u[j + 3]
      <3> HIDE DEF w
      <3>1. j \in Nat /\ Len(t) \in Nat /\ Len(u) \in Nat
        BY <1>1
      <3>2. j + 1 \in 1 .. Len(u) /\ j + 2 \in 1 .. Len(u) /\ j + 3 \in 1 .. Len(u)
        BY <2>3, <3>1
      <3>3. /\ w[Len(t) + (j + 1)] = u[j + 1] /\ w[Len(t) + (j + 2)] = u[j + 2]
            /\ w[Len(t) + (j + 3)] = u[j + 3] /\ w[Len(t) + j] = u[j]
        BY <1>4, <3>2
      <3>4. (Len(t) + j) + 1 = Len(t) + (j + 1) /\ (Len(t) + j) + 2 = Len(t) + (j + 2)
        BY <3>1
      <3>5. (Len(t) + j) + 3 = Len(t) + (j + 3)
        BY <3>1
      <3> QED
        BY <3>3, <3>4, <3>5
    <2> DEFINE i == Len(t) + j
    <2> HIDE DEF w, i
    <2>4. PlaceholderAt(w, i, n) <=>
              /\ i + 3 <= Len(w) /\ w[i] = "[" /\ w[i + 1] = "N"
              /\ w[i + 2] = Digits[n] /\ w[i + 3] = "]"
      <3>1. \A k \in Nat \ {0} :
                PlaceholderAt(w, k, n) <=>
                    /\ k + 3 <= Len(w) /\ w[k] = "[" /\ w[k + 1] = "N"
                    /\ w[k + 2] = Digits[n] /\ w[k + 3] = "]"
        BY ONLY <1>2, <2>1, PlaceholderCharacters, SMTT(40)
      <3>2. i \in Nat \ {0}
        BY <2>1 DEF i
      <3> QED
        BY <3>1, <3>2
    <2>5. PlaceholderAt(u, j, n) <=>
              /\ j + 3 <= Len(u) /\ u[j] = "[" /\ u[j + 1] = "N"
              /\ u[j + 2] = Digits[n] /\ u[j + 3] = "]"
      BY ONLY <2>1, u \in Seq(Characters), PlaceholderCharacters
    <2> QED
      BY <2>2, <2>3, <2>4, <2>5 DEF i
  <1>7. \A i \in 1 .. Len(t) : i \in Starts(w, by) <=> i \in Starts(t, by)
    BY <1>1, <1>2, <1>5 DEF Starts
  <1>8. ASSUME NEW j \in 1 .. Len(u)
        PROVE  Len(t) + j \in Starts(w, by) <=> j \in Starts(u, by)
    <2>1. Len(t) + j \in DOMAIN w
      BY <1>1, <1>2
    <2> HIDE DEF w
    <2> QED
      BY <1>1, <1>6, <2>1 DEF Starts
  <1>9. ASSUME NEW i \in 1 .. Len(t) PROVE Piece(w, by, i) = Piece(t, by, i)
    <2>1. CASE i \in Starts(t, by)
      <3>1. PICK n \in DOMAIN by : PlaceholderAt(t, i, n)
        BY <2>1 DEF Starts
      <3>2. PlaceholderAt(w, i, n) /\ i \in DOMAIN w
        BY <1>1, <1>2, <1>5, <3>1
      <3> HIDE DEF w
      <3>3. Piece(t, by, i) = by[n]
        BY <1>1, <3>1, PieceAtStart
      <3>4. Piece(w, by, i) = by[n]
        BY <1>2, <3>2, PieceAtStart
      <3> QED
        BY <3>3, <3>4
    <2>2. CASE i \notin Starts(t, by)
      <3>1. i \notin Starts(w, by)
        BY <1>7, <2>2
      <3>2. ASSUME NEW d \in 1 .. 3
            PROVE  i - d \in Starts(w, by) <=> i - d \in Starts(t, by)
        <4>1. CASE i - d \in 1 .. Len(t)
          BY <1>7, <4>1
        <4>2. CASE i - d \notin 1 .. Len(t)
          <5>1. i - d \notin DOMAIN w /\ i - d \notin DOMAIN t
            BY <1>1, <1>2, <4>2
          <5> QED
            BY <5>1 DEF Starts
        <4> QED
          BY <4>1, <4>2
      <3>3. w[i] = t[i]
        BY <1>3
      <3> HIDE DEF w
      <3> QED
        BY <2>2, <3>1, <3>2, <3>3 DEF Piece
    <2> QED
      BY <2>1, <2>2
  <1>10. ASSUME NEW j \in 1 .. Len(u) PROVE Piece(w, by, Len(t) + j) = Piece(u, by, j)
    <2> DEFINE i == Len(t) + j
    <2>0. i \in DOMAIN w /\ i \in Nat
      BY <1>1, <1>2
    <2>1. CASE j \in Starts(u, by)
      <3>1. PICK n \in DOMAIN by : PlaceholderAt(u, j, n)
        BY <2>1 DEF Starts
      <3>2. PlaceholderAt(w, i, n)
        BY <1>6, <3>1
      <3> HIDE DEF w, i
      <3>3. Piece(u, by, j) = by[n]
        BY <1>1, <3>1, PieceAtStart
      <3>4. Piece(w, by, i) = by[n]
        BY <1>2, <2>0, <3>2, PieceAtStart
      <3> QED
        BY <3>3, <3>4 DEF i
    <2>2. CASE j \notin Starts(u, by)
      <3>1. i \notin Starts(w, by)
        BY <1>8, <2>2
      <3>2. ASSUME NEW d \in 1 .. 3
            PROVE  i - d \in Starts(w, by) <=> j - d \in Starts(u, by)
        <4>1. CASE j - d \in 1 .. Len(u)
          <5>1. i - d = Len(t) + (j - d)
            BY <1>1
          <5> HIDE DEF w, i
          <5> QED
            BY <1>8, <4>1, <5>1
        <4>2. CASE j - d \notin 1 .. Len(u)
          <5>1. j - d \notin Starts(u, by)
            BY <1>1, <4>2 DEF Starts
          <5>2. ASSUME i - d \in Starts(w, by) PROVE FALSE
            <6>1. PICK n \in DOMAIN by : PlaceholderAt(w, i - d, n)
              BY <5>2 DEF Starts
            <6>2. i - d \in DOMAIN w
              BY <5>2 DEF Starts
            <6>3. i - d \in 1 .. Len(t) /\ (i - d) + 3 > Len(t)
              BY <1>1, <1>2, <4>2, <6>2
            <6>4. Straddles(t, u, n)
              BY <1>1, <6>1, <6>3 DEF Straddles
            <6> QED
              BY <6>4
          <5> QED
            BY <5>1, <5>2
        <4> QED
          BY <4>1, <4>2
      <3>3. w[i] = u[j]
        BY <1>4
      <3> HIDE DEF w, i
      <3>4. Piece(w, by, i) = Piece(u, by, j)
        BY <2>2, <3>1, <3>2, <3>3 DEF Piece
      <3> QED
        BY <3>4 DEF i
    <2> QED
      BY <2>1, <2>2
  <1>11. Pieces(w, by) = Pieces(t, by) \o Pieces(u, by)
    <2> DEFINE pt == Pieces(t, by)
               pu == Pieces(u, by)
               pw == Pieces(w, by)
    <2>1. /\ pt \in Seq(Seq(Characters)) /\ Len(pt) = Len(t)
          /\ pu \in Seq(Seq(Characters)) /\ Len(pu) = Len(u)
      BY PiecesAreTexts
    <2>2. pw \in Seq(Seq(Characters)) /\ Len(pw) = Len(t) + Len(u)
      <3> HIDE DEF w
      <3> QED
        BY <1>2, PiecesAreTexts
    <2>3. /\ \A i \in 1 .. Len(t) : pt[i] = Piece(t, by, i)
          /\ \A i \in 1 .. Len(u) : pu[i] = Piece(u, by, i)
          /\ \A i \in 1 .. Len(t) + Len(u) : pw[i] = Piece(w, by, i)
      <3> HIDE DEF w
      <3> QED
        BY <1>1, <1>2 DEF Pieces
    <2> HIDE DEF w, pt, pu, pw
    <2>4. /\ pt \o pu \in Seq(Seq(Characters)) /\ Len(pt \o pu) = Len(t) + Len(u)
          /\ \A i \in 1 .. Len(t) + Len(u) :
                (pt \o pu)[i] = IF i <= Len(t) THEN pt[i] ELSE pu[i - Len(t)]
      <3>1. /\ pt \o pu \in Seq(Seq(Characters)) /\ Len(pt \o pu) = Len(pt) + Len(pu)
            /\ \A i \in 1 .. Len(pt) + Len(pu) :
                  (pt \o pu)[i] = IF i <= Len(pt) THEN pt[i] ELSE pu[i - Len(pt)]
        BY <2>1, ConcatProperties
      <3> QED
        BY <2>1, <3>1
    <2>5. ASSUME NEW i \in 1 .. Len(t) + Len(u) PROVE pw[i] = (pt \o pu)[i]
      <3>1. CASE i <= Len(t)
        <4>1. i \in 1 .. Len(t)
          BY <1>1, <3>1
        <4> QED
          BY <1>9, <2>3, <2>4, <3>1, <4>1
      <3>2. CASE ~(i <= Len(t))
        <4>1. i - Len(t) \in 1 .. Len(u) /\ Len(t) + (i - Len(t)) = i
          BY <1>1, <3>2
        <4>2. pw[i] = Piece(w, by, Len(t) + (i - Len(t)))
          BY <2>3, <4>1
        <4> QED
          BY <1>10, <2>3, <2>4, <3>2, <4>1, <4>2
      <3> QED
        BY <3>1, <3>2
    <2>6. pw = pt \o pu
      BY <2>2, <2>4, <2>5, SeqEqual
    <2> QED
      BY <2>6 DEF pw, pt, pu
  <1> HIDE DEF w
  <1>12. FlattenSeq(Pieces(t, by) \o Pieces(u, by))
            = FlattenSeq(Pieces(t, by)) \o FlattenSeq(Pieces(u, by))
    BY PiecesAreTexts, FlattenConcat
  <1> QED
    BY <1>11, <1>12, SubstituteIsPieces DEF w

-----------------------------------------------------------------------------
(* Restoring the names while the answer arrives.                           *)

\* No bracket is open at the end: what follows cannot make a placeholder of it.
Settled(text) ==
    \A i \in DOMAIN text : text[i] = "[" => \E j \in i + 1 .. Len(text) : text[j] \notin Body

\* A placeholder cannot lie across the cut between what has been read and the rest.
CutIsSafe(read, rest) == Settled(read) \/ (rest # <<>> /\ rest[1] = "[")

LEMMA BodyIsNoBracket == "[" \notin Body /\ "]" \notin Body
  BY PlaceholdersAreClear DEF Body

LEMMA SafeCut ==
    ASSUME NEW t \in Seq(Characters), NEW u \in Seq(Characters),
           CutIsSafe(t, u) \/ u = <<>>,
           NEW by \in Replacements(Characters)
    PROVE  Substitute(t \o u, by) = Substitute(t, by) \o Substitute(u, by)
  <1>1. ASSUME NEW n \in DOMAIN by, Straddles(t, u, n) PROVE FALSE
    <2>1. n \in DOMAIN Digits
      BY ReplacementNumbers
    <2>2. PICK i \in 1 .. Len(t) :
              /\ t[i] = "[" /\ \A j \in i + 1 .. Len(t) : t[j] \in Body
              /\ u # <<>> /\ u[1] \in Body \union {"]"}
      BY <1>1, <2>1, StraddlingCharacters
    <2>3. DOMAIN t = 1 .. Len(t)
      BY LenProperties
    <2>4. ~Settled(t)
      BY <2>2, <2>3 DEF Settled
    <2> QED
      BY <2>2, <2>4, BodyIsNoBracket DEF CutIsSafe
  <1> QED
    BY <1>1, SubstituteConcat

OpenBrackets(text) ==
    {i \in DOMAIN text : text[i] = "[" /\ \A j \in i + 1 .. Len(text) : text[j] \in Body}

LEMMA SafeLengthIsOpen ==
    ASSUME NEW text \in Seq(Characters)
    PROVE  /\ SafeLength(text) \in 0 .. Len(text)
           /\ OpenBrackets(text) = {} => SafeLength(text) = Len(text)
           /\ OpenBrackets(text) # {} => SafeLength(text) + 1 \in OpenBrackets(text)
  <1>1. Len(text) \in Nat /\ DOMAIN text = 1 .. Len(text)
    BY LenProperties
  <1>2. SafeLength(text) =
            IF OpenBrackets(text) = {} THEN Len(text)
            ELSE CHOOSE n \in 0 .. Len(text) : n + 1 \in OpenBrackets(text)
    BY DEF SafeLength, OpenBrackets
  <1>3. CASE OpenBrackets(text) = {}
    BY <1>1, <1>2, <1>3
  <1>4. CASE OpenBrackets(text) # {}
    <2>1. PICK i \in OpenBrackets(text) : TRUE
      BY <1>4
    <2>2. i - 1 \in 0 .. Len(text) /\ (i - 1) + 1 \in OpenBrackets(text)
      BY <1>1, <2>1 DEF OpenBrackets
    <2> QED
      BY <1>2, <1>4, <2>2
  <1> QED
    BY <1>3, <1>4

\* What SafeLength lets go and what it holds back.
LEMMA SafeLengthCuts ==
    ASSUME NEW text \in Seq(Characters)
    PROVE  LET head == SubSeq(text, 1, SafeLength(text))
               tail == SubSeq(text, SafeLength(text) + 1, Len(text))
           IN  /\ head \in Seq(Characters) /\ tail \in Seq(Characters)
               /\ head \o tail = text
               /\ tail # <<>> => tail[1] = "["
               /\ tail = <<>> => Settled(text)
               /\ head # <<>> => text # <<>> /\ head[1] = text[1]
  <1>1. Len(text) \in Nat /\ DOMAIN text = 1 .. Len(text)
    BY LenProperties
  <1>2. PICK L \in 0 .. Len(text) : L = SafeLength(text)
    BY SafeLengthIsOpen
  <1>3. PICK open : open = OpenBrackets(text)
    OBVIOUS
  <1>13. (open = {} => L = Len(text)) /\ (open # {} => L + 1 \in open)
    BY <1>2, <1>3, SafeLengthIsOpen
  <1> DEFINE head == SubSeq(text, 1, L)
             tail == SubSeq(text, L + 1, Len(text))
  <1>4. open = {} => Settled(text)
    BY <1>1, <1>3 DEF Settled, OpenBrackets
  <1>5. L + 1 \in open => L + 1 \in 1 .. Len(text) /\ text[L + 1] = "["
    BY <1>1, <1>3 DEF OpenBrackets
  <1>6. \A i \in 1 .. Len(text) : text[i] \in Characters
    BY ElementOfSeq
  <1>7. /\ head \in Seq(Characters) /\ Len(head) = IF 1 <= L THEN L - 1 + 1 ELSE 0
        /\ \A i \in 1 .. L - 1 + 1 : head[i] = text[1 + i - 1]
    <2>1. L \in Int /\ \A i \in 1 .. L : text[i] \in Characters
      BY <1>1, <1>2, <1>13, <1>6
    <2> QED
      BY <2>1, SubSeqProperties
  <1>8. /\ tail \in Seq(Characters)
        /\ Len(tail) = IF L + 1 <= Len(text) THEN Len(text) - (L + 1) + 1 ELSE 0
        /\ \A i \in 1 .. Len(text) - (L + 1) + 1 : tail[i] = text[L + 1 + i - 1]
    <2>1. L + 1 \in Int /\ Len(text) \in Int /\ \A i \in L + 1 .. Len(text) : text[i] \in Characters
      BY <1>1, <1>2, <1>13, <1>6
    <2> QED
      BY <2>1, SubSeqProperties
  <1>9. head \o tail = text
    <2>1. 1 \in 1 .. Len(text) + 1 /\ L \in 1 - 1 .. Len(text) /\ Len(text) \in L .. Len(text)
      BY <1>1, <1>2, <1>13
    <2> QED
      BY <2>1, ConcatAdjacentSubSeq, SubSeqFull
  <1> HIDE DEF head, tail
  <1>10. tail # <<>> => tail[1] = "["
    <2> SUFFICES ASSUME tail # <<>> PROVE tail[1] = "["
      OBVIOUS
    <2>1. Len(tail) \in Nat \ {0}
      BY <1>8, EmptySeq
    <2>2. L + 1 <= Len(text)
      BY <1>8, <2>1
    <2>3. L + 1 \in open
      BY <1>1, <1>2, <1>13, <2>2
    <2>4. 1 \in 1 .. Len(text) - (L + 1) + 1 /\ L + 1 + 1 - 1 = L + 1
      BY <1>1, <1>2, <1>13, <2>2
    <2>5. tail[1] = text[L + 1]
      BY <1>8, <2>4
    <2> QED
      BY <1>5, <2>3, <2>5
  <1>11. tail = <<>> => Settled(text)
    <2> SUFFICES ASSUME tail = <<>> PROVE open = {}
      BY <1>4
    <2>1. Len(tail) = 0
      BY EmptySeq
    <2>2. ~(L + 1 \in 1 .. Len(text))
      BY <1>1, <1>2, <1>13, <1>8, <2>1
    <2> QED
      BY <1>2, <1>13, <1>5, <2>2
  <1>12. head # <<>> => text # <<>> /\ head[1] = text[1]
    <2> SUFFICES ASSUME head # <<>> PROVE text # <<>> /\ head[1] = text[1]
      OBVIOUS
    <2>1. Len(head) \in Nat \ {0}
      BY <1>7, EmptySeq
    <2>2. 1 <= L
      BY <1>7, <2>1
    <2>3. 1 \in 1 .. L - 1 + 1 /\ 1 + 1 - 1 = 1 /\ 1 <= Len(text)
      BY <1>1, <1>2, <1>13, <2>2
    <2>4. text # <<>>
      BY <2>3, EmptySeq
    <2> QED
      BY <1>7, <2>3, <2>4
  <1> QED
    BY <1>2, <1>7, <1>8, <1>9, <1>10, <1>11, <1>12 DEF head, tail

\* Each call of feed leaves a safe cut behind it.
LEMMA CutStaysSafe ==
    ASSUME NEW read \in Seq(Characters), NEW rest \in Seq(Characters),
           NEW text \in Seq(Characters), CutIsSafe(read, rest),
           rest # <<>> => text # <<>> /\ text[1] = rest[1],
           NEW head \in Seq(Characters), NEW tail \in Seq(Characters),
           tail # <<>> => tail[1] = "[",
           tail = <<>> => head = text /\ Settled(text),
           head # <<>> => text # <<>> /\ head[1] = text[1]
    PROVE  CutIsSafe(read \o head, tail) /\ (CutIsSafe(read, head) \/ head = <<>>)
  <1>1. CutIsSafe(read, head) \/ head = <<>>
    BY DEF CutIsSafe
  <1>2. ASSUME tail = <<>> PROVE Settled(read \o text)
    <2> DEFINE w == read \o text
    <2>1. /\ w \in Seq(Characters) /\ Len(w) = Len(read) + Len(text)
          /\ Len(read) \in Nat /\ Len(text) \in Nat
          /\ DOMAIN w = 1 .. Len(read) + Len(text)
          /\ DOMAIN read = 1 .. Len(read) /\ DOMAIN text = 1 .. Len(text)
          /\ \A i \in 1 .. Len(read) + Len(text) :
                w[i] = IF i <= Len(read) THEN read[i] ELSE text[i - Len(read)]
      BY ConcatProperties, LenProperties
    <2>2. ASSUME NEW i \in 1 .. Len(text) PROVE w[Len(read) + i] = text[i]
      <3>1. /\ Len(read) + i \in 1 .. Len(read) + Len(text) /\ ~(Len(read) + i <= Len(read))
            /\ (Len(read) + i) - Len(read) = i
        BY <2>1
      <3> QED
        BY <2>1, <3>1
    <2> HIDE DEF w
    <2> SUFFICES ASSUME NEW i \in DOMAIN w, w[i] = "["
                 PROVE  \E j \in i + 1 .. Len(w) : w[j] \notin Body
      BY DEF Settled, w
    <2>3. CASE i <= Len(read)
      <3>1. i \in DOMAIN read /\ read[i] = "["
        BY <2>1, <2>3
      <3>2. CASE Settled(read)
        <4>1. PICK j \in i + 1 .. Len(read) : read[j] \notin Body
          BY <3>1, <3>2 DEF Settled
        <4>2. j \in i + 1 .. Len(w) /\ w[j] = read[j]
          BY ONLY <2>1, <3>1, <4>1
        <4> QED
          BY <4>1, <4>2
      <3>3. CASE rest # <<>> /\ rest[1] = "["
        <4>1. text # <<>> /\ text[1] = "["
          BY <3>3
        <4>2. 1 \in 1 .. Len(text)
          BY <4>1, EmptySeq
        <4>3. w[Len(read) + 1] = "[" /\ Len(read) + 1 \in i + 1 .. Len(w)
          BY <2>1, <2>2, <2>3, <4>1, <4>2
        <4> QED
          BY <4>3, BodyIsNoBracket
      <3> QED
        BY <3>2, <3>3 DEF CutIsSafe
    <2>4. CASE ~(i <= Len(read))
      <3> DEFINE k == i - Len(read)
      <3>1. k \in DOMAIN text /\ text[k] = "[" /\ i = Len(read) + k
        BY ONLY <2>1, <2>4, i \in DOMAIN w, w[i] = "["
      <3>2. PICK j \in k + 1 .. Len(text) : text[j] \notin Body
        BY <1>2, <3>1 DEF Settled
      <3>3. j \in 1 .. Len(text) /\ Len(read) + j \in i + 1 .. Len(w)
        BY <2>1, <3>1, <3>2
      <3> QED
        BY <2>2, <3>2, <3>3
    <2> QED
      BY <2>3, <2>4
  <1> QED
    BY <1>1, <1>2 DEF CutIsSafe

\* The map of one request.
LEMMA NamesReplace ==
    ASSUME NEW seq \in Seq(Names), Len(seq) <= Len(Digits)
    PROVE  /\ [n \in DOMAIN seq |-> <<seq[n]>>] \in Replacements(Characters)
           /\ DOMAIN [n \in DOMAIN seq |-> <<seq[n]>>] = DOMAIN seq
  <1> DEFINE by == [n \in DOMAIN seq |-> <<seq[n]>>]
  <1>1. Len(seq) \in Nat /\ DOMAIN seq = 1 .. Len(seq)
    BY LenProperties
  <1>2. \A n \in DOMAIN seq : seq[n] \in Characters
    BY <1>1, ElementOfSeq DEF Characters
  <1>3. by \in [1 .. Len(seq) -> Seq(Characters)]
    BY <1>1, <1>2
  <1>4. by \in Seq(Seq(Characters))
    BY <1>1, <1>3, SeqDef
  <1>5. Len(by) = Len(seq)
    <2>1. DOMAIN by = 1 .. Len(by) /\ Len(by) \in Nat /\ DOMAIN by = 1 .. Len(seq)
      BY <1>1, <1>4, LenProperties
    <2> QED
      BY <1>1, <2>1
  <1> QED
    BY <1>4, <1>5 DEF Replacements

-----------------------------------------------------------------------------
(* Numbering.                                                              *)

NameFunction(text) == [i \in FirstUses(text) |-> text[i]]
Rank(text, i) == Cardinality({j \in FirstUses(text) : j <= i})

\* A name has one first use, so there are no more of these than names.
LEMMA FirstUsesAreFew ==
    ASSUME NEW text \in Seq(Characters)
    PROVE  /\ IsFiniteSet(FirstUses(text)) /\ Cardinality(FirstUses(text)) \in Nat
           /\ Cardinality(FirstUses(text)) <= Cardinality(Names)
           /\ FirstUses(text) \subseteq 1 .. Len(text) /\ Len(text) \in Nat
           /\ \A i \in DOMAIN text : text[i] \in Names =>
                 \E j \in FirstUses(text) : text[j] = text[i]
  <1>1. Len(text) \in Nat /\ DOMAIN text = 1 .. Len(text) /\ FirstUses(text) \subseteq 1 .. Len(text)
    BY LenProperties DEF FirstUses
  <1>2. NameFunction(text) \in [FirstUses(text) -> Names]
    BY DEF NameFunction, FirstUses
  <1>3. ASSUME NEW i \in FirstUses(text), NEW j \in FirstUses(text), text[i] = text[j]
        PROVE  i = j
    <2>1. ~(i < j) /\ ~(j < i)
      <3>1. i \in 1 .. Len(text) /\ j \in 1 .. Len(text)
        BY <1>1
      <3>2. \A k \in 1 .. i - 1 : text[k] # text[i]
        BY DEF FirstUses
      <3>3. \A k \in 1 .. j - 1 : text[k] # text[j]
        BY DEF FirstUses
      <3> QED
        BY <1>1, <1>3, <3>1, <3>2, <3>3
    <2> QED
      BY <1>1, <2>1
  <1>4. NameFunction(text) \in Injection(FirstUses(text), Names)
    BY <1>2, <1>3 DEF Injection, IsInjective, NameFunction
  <1>5. IsFiniteSet(FirstUses(text)) /\ Cardinality(FirstUses(text)) <= Cardinality(Names)
    BY <1>4, EnoughDigits, FS_Injection
  <1>6. ASSUME NEW i \in DOMAIN text, text[i] \in Names
        PROVE  \E j \in FirstUses(text) : text[j] = text[i]
    <2> DEFINE T == {j \in 1 .. Len(text) : text[j] = text[i]}
    <2>1. T \subseteq Nat /\ T # {}
      BY <1>1
    <2>2. PICK j \in T : \A k \in T : j <= k
      <3> HIDE DEF T
      <3> QED
        BY <2>1, LeastNumber
    <2>3. \A k \in 1 .. j - 1 : text[k] # text[j]
      BY <1>1, <2>2
    <2>4. j \in FirstUses(text)
      BY <1>1, <1>6, <2>2, <2>3 DEF FirstUses
    <2> QED
      BY <2>2, <2>4
  <1> QED
    BY <1>1, <1>5, <1>6, FS_CardinalityType

\* Their ranks are the numbers from 1.
LEMMA RanksCount ==
    ASSUME NEW text \in Seq(Characters)
    PROVE  /\ \A i, j \in FirstUses(text) : Rank(text, i) = Rank(text, j) => i = j
           /\ \A n \in 1 .. Cardinality(FirstUses(text)) :
                 \E i \in FirstUses(text) : Rank(text, i) = n
           /\ \A i \in FirstUses(text) : Rank(text, i) \in 1 .. Cardinality(FirstUses(text))
  <1> DEFINE F == FirstUses(text)
             U(i) == {j \in F : j <= i}
             c == Cardinality(F)
  <1>1. IsFiniteSet(F) /\ c \in Nat /\ F \subseteq Nat
    BY FirstUsesAreFew
  <1> HIDE DEF F, c
  <1>2. ASSUME NEW i PROVE /\ IsFiniteSet(U(i)) /\ Cardinality(U(i)) \in Nat
                           /\ Cardinality(U(i)) <= c
    <2>1. U(i) \in SUBSET F
      OBVIOUS
    <2> HIDE DEF U
    <2>2. IsFiniteSet(U(i)) /\ Cardinality(U(i)) <= Cardinality(F)
      BY <1>1, <2>1, FS_Subset
    <2> QED
      BY <2>2, FS_CardinalityType DEF c
  <1>3. ASSUME NEW i \in F PROVE Cardinality(U(i)) \in 1 .. c
    <2>1. i \in U(i)
      BY <1>1
    <2> HIDE DEF U
    <2>2. Cardinality(U(i)) # 0
      BY <1>2, <2>1, FS_EmptySet
    <2> QED
      BY <1>1, <1>2, <2>2
  <1>4. ASSUME NEW i \in F, NEW j \in F, i < j PROVE Cardinality(U(i)) # Cardinality(U(j))
    <2>1. U(i) \in SUBSET U(j) /\ j \in U(j) /\ j \notin U(i)
      <3>1. i \in Nat /\ j \in Nat /\ ~(j <= i)
        BY <1>1, <1>4
      <3>2. ASSUME NEW k \in F, k <= i PROVE k <= j
        BY <1>1, <1>4, <3>1, <3>2
      <3>3. j <= j
        BY <3>1
      <3> QED
        BY <3>1, <3>2, <3>3
    <2> HIDE DEF U
    <2>2. Cardinality(U(j)) = Cardinality(U(i)) => U(j) = U(i)
      BY <1>2, <2>1, FS_Subset
    <2> QED
      BY <2>1, <2>2
  <1>5. ASSUME NEW i \in F, NEW j \in F, Cardinality(U(i)) = Cardinality(U(j)) PROVE i = j
    <2>1. ~(i < j) /\ ~(j < i)
      BY <1>4, <1>5
    <2> QED
      BY <1>1, <2>1
  <1> DEFINE R == [i \in F |-> Cardinality(U(i))]
  <1>6. R \in Injection(F, 1 .. c)
    <2> HIDE DEF U
    <2> QED
      BY <1>3, <1>5 DEF Injection, IsInjective
  <1>7. IsFiniteSet(1 .. c) /\ Cardinality(1 .. c) = c
    <2>1. Cardinality(1 .. c) = IF 1 > c THEN 0 ELSE c - 1 + 1
      BY <1>1, FS_Interval
    <2>2. Cardinality(1 .. c) = c
      BY <1>1, <2>1
    <2> QED
      BY <1>1, <2>2, FS_Interval
  <1>8. R \in Surjection(F, 1 .. c)
    <2> HIDE DEF R
    <2> QED
      BY <1>6, <1>7, FS_Injection DEF c
  <1>9. \A n \in 1 .. c : \E i \in F : Cardinality(U(i)) = n
    <2> HIDE DEF U
    <2> QED
      BY <1>8 DEF Surjection
  <1>10. \A i : Rank(text, i) = Cardinality(U(i))
    BY DEF Rank, F
  <1> HIDE DEF U
  <1> QED
    BY <1>3, <1>5, <1>9, <1>10 DEF F, c

LEMMA SameUpTo ==
    ASSUME NEW m \in Nat, NEW n \in Nat, 1 .. m = 1 .. n
    PROVE  m = n
  <1>1. m \in Nat \ {0} => m \in 1 .. m
    OBVIOUS
  <1>2. n \in Nat \ {0} => n \in 1 .. n
    OBVIOUS
  <1>3. m # 0 => m <= n
    BY <1>1
  <1>4. n # 0 => n <= m
    BY <1>2
  <1> QED
    BY <1>3, <1>4

\* LocalNames lists the names of a text, and has a digit for each.
LEMMA LocalNamesList ==
    ASSUME NEW text \in Seq(Characters)
    PROVE  /\ LocalNames(text) \in Seq(Names)
           /\ Len(LocalNames(text)) <= Len(Digits)
           /\ \A i \in DOMAIN text : text[i] \in Names =>
                 \E n \in DOMAIN LocalNames(text) : LocalNames(text)[n] = text[i]
           /\ \A n \in DOMAIN LocalNames(text) :
                 \E i \in DOMAIN text : text[i] = LocalNames(text)[n]
  <1> DEFINE c == Cardinality(FirstUses(text))
             list == LocalNames(text)
  <1>1. c \in Nat /\ c <= Cardinality(Names)
    BY FirstUsesAreFew
  <1> HIDE DEF c
  <1>2. ASSUME NEW n \in 1 .. c
        PROVE  NthUse(text, n) \in FirstUses(text) /\ Rank(text, NthUse(text, n)) = n
    <2>1. \E i \in FirstUses(text) : Rank(text, i) = n
      BY RanksCount DEF c
    <2> QED
      BY <2>1 DEF NthUse, Rank
  <1>3. list = [n \in 1 .. c |-> text[NthUse(text, n)]]
    BY DEF LocalNames, c
  <1> HIDE DEF list
  <1>4. \A n \in 1 .. c : text[NthUse(text, n)] \in Names
    BY <1>2 DEF FirstUses
  <1>5. list \in [1 .. c -> Names]
    BY <1>3, <1>4
  <1>6. list \in Seq(Names)
    BY <1>1, <1>5, SeqDef
  <1>7. Len(list) = c
    <2>1. DOMAIN list = 1 .. Len(list) /\ Len(list) \in Nat /\ DOMAIN list = 1 .. c
      BY <1>5, <1>6, LenProperties
    <2> QED
      BY <1>1, <2>1, SameUpTo
  <1>8. c <= Len(Digits)
    <2>1. Cardinality(Names) \in Nat /\ Len(Digits) \in Nat
      BY EnoughDigits, FS_CardinalityType, TextsAreSequences, LenProperties
    <2> QED
      BY <1>1, <2>1, EnoughDigits
  <1>9. ASSUME NEW i \in DOMAIN text, text[i] \in Names
        PROVE  \E n \in DOMAIN list : list[n] = text[i]
    <2>1. PICK j \in FirstUses(text) : text[j] = text[i]
      BY <1>9, FirstUsesAreFew
    <2>2. Rank(text, j) \in 1 .. c
      BY RanksCount DEF c
    <2>3. NthUse(text, Rank(text, j)) = j
      BY <1>2, <2>2, RanksCount
    <2> QED
      BY <1>3, <1>5, <2>1, <2>2, <2>3
  <1>10. ASSUME NEW n \in DOMAIN list PROVE \E i \in DOMAIN text : text[i] = list[n]
    BY <1>2, <1>3, <1>5 DEF FirstUses
  <1> QED
    BY <1>6, <1>7, <1>8, <1>9, <1>10 DEF list

LEMMA NumberIsOfName ==
    ASSUME NEW seq, NEW name, \E n \in DOMAIN seq : seq[n] = name
    PROVE  NumberOf(name, seq) \in DOMAIN seq /\ seq[NumberOf(name, seq)] = name
  BY DEF NumberOf

\* A flattened sequence has what its parts have.
LEMMA FlattenHasParts ==
    ASSUME NEW S, NEW ss \in Seq(Seq(S))
    PROVE  \A i \in DOMAIN ss : \A j \in DOMAIN ss[i] :
              \E k \in DOMAIN FlattenSeq(ss) : FlattenSeq(ss)[k] = ss[i][j]
  <1> DEFINE Has(s) == \A i \in DOMAIN s : \A j \in DOMAIN s[i] :
                          \E k \in DOMAIN FlattenSeq(s) : FlattenSeq(s)[k] = s[i][j]
             P == {s \in Seq(Seq(S)) : Has(s)}
  <1>1. <<>> \in P
    BY EmptySeq
  <1>2. ASSUME NEW s \in Seq(Seq(S)), NEW e \in Seq(S), s \in P PROVE Append(s, e) \in P
    <2> DEFINE t == Append(s, e)
               f == FlattenSeq(s)
               g == FlattenSeq(t)
    <2>1. /\ t \in Seq(Seq(S)) /\ DOMAIN t = 1 .. Len(s) + 1 /\ Len(s) \in Nat
          /\ DOMAIN s = 1 .. Len(s)
          /\ \A i \in 1 .. Len(s) : t[i] = s[i]
          /\ t[Len(s) + 1] = e
      BY AppendProperties, LenProperties
    <2>2. f \in Seq(S) /\ g = f \o e
      BY FlattenAppend
    <2>3. Has(s)
      BY <1>2
    <2> HIDE DEF t, f, g
    <2>4. /\ DOMAIN g = 1 .. Len(f) + Len(e) /\ Len(f) \in Nat /\ Len(e) \in Nat
          /\ DOMAIN f = 1 .. Len(f) /\ DOMAIN e = 1 .. Len(e)
          /\ \A k \in 1 .. Len(f) + Len(e) : g[k] = IF k <= Len(f) THEN f[k] ELSE e[k - Len(f)]
      <3>1. /\ f \o e \in Seq(S) /\ Len(f \o e) = Len(f) + Len(e)
            /\ \A k \in 1 .. Len(f) + Len(e) :
                  (f \o e)[k] = IF k <= Len(f) THEN f[k] ELSE e[k - Len(f)]
        BY <2>2, ConcatProperties
      <3>2. DOMAIN (f \o e) = 1 .. Len(f) + Len(e)
        BY <3>1, LenProperties
      <3> QED
        BY <2>2, <3>1, <3>2, LenProperties
    <2>5. ASSUME NEW i \in DOMAIN t, NEW j \in DOMAIN t[i]
          PROVE  \E k \in DOMAIN g : g[k] = t[i][j]
      <3>1. CASE i \in 1 .. Len(s)
        <4>1. t[i] = s[i]
          BY <2>1, <3>1
        <4>2. PICK k \in DOMAIN f : f[k] = s[i][j]
          <5>1. \A j2 \in DOMAIN s[i] : \E k \in DOMAIN FlattenSeq(s) : FlattenSeq(s)[k] = s[i][j2]
            BY <2>1, <2>3, <3>1
          <5> QED
            BY <4>1, <5>1 DEF f
        <4>3. k \in DOMAIN g /\ g[k] = f[k]
          BY <2>4, <4>2
        <4> QED
          BY <4>1, <4>2, <4>3
      <3>2. CASE i \notin 1 .. Len(s)
        <4>1. i = Len(s) + 1 /\ t[i] = e /\ j \in 1 .. Len(e)
          BY <2>1, <2>4, <3>2
        <4>2. /\ Len(f) + j \in DOMAIN g /\ ~(Len(f) + j <= Len(f))
              /\ (Len(f) + j) - Len(f) = j
          BY <2>4, <4>1
        <4>3. g[Len(f) + j] = e[j]
          BY <2>4, <4>2
        <4> QED
          BY <4>1, <4>2, <4>3
      <3> QED
        BY <3>1, <3>2
    <2> QED
      BY <2>1, <2>5 DEF t, g
  <1>3. ss \in P
    <2> HIDE DEF P
    <2> QED
      BY <1>1, <1>2, SequenceInduction
  <1> QED
    BY <1>3

-----------------------------------------------------------------------------
(* Redaction.                                                              *)

\* A text whose names are spelled as the placeholders of a list, or as the
\* replacements for these.
Letter(c, seq) == IF c \in Names THEN Placeholder(NumberOf(c, seq)) ELSE <<c>>
Replaced(c, seq, by) == IF c \in Names THEN by[NumberOf(c, seq)] ELSE <<c>>
Spelled(text, seq) == FlattenSeq([i \in DOMAIN text |-> Letter(text[i], seq)])
SpelledBy(text, seq, by) == FlattenSeq([i \in DOMAIN text |-> Replaced(text[i], seq, by)])

Lists(seq, text) ==
    \A i \in DOMAIN text : text[i] \in Names => \E n \in DOMAIN seq : seq[n] = text[i]

\* Nothing in it looks like a placeholder already.
Clear(text) == \A i \in DOMAIN text, n \in DOMAIN Digits : ~PlaceholderAt(text, i, n)

NameLists == {seq \in Seq(Names) : Len(seq) <= Len(Digits)}

LEMMA NumberHasDigit ==
    ASSUME NEW seq \in NameLists, NEW name, \E n \in DOMAIN seq : seq[n] = name
    PROVE  /\ NumberOf(name, seq) \in DOMAIN seq /\ seq[NumberOf(name, seq)] = name
           /\ NumberOf(name, seq) \in DOMAIN Digits
  <1>1. NumberOf(name, seq) \in DOMAIN seq /\ seq[NumberOf(name, seq)] = name
    BY NumberIsOfName
  <1>2. /\ seq \in Seq(Names) /\ Len(seq) <= Len(Digits)
        /\ Len(seq) \in Nat /\ Len(Digits) \in Nat
        /\ DOMAIN seq = 1 .. Len(seq) /\ DOMAIN Digits = 1 .. Len(Digits)
    BY TextsAreSequences, LenProperties DEF NameLists
  <1> QED
    BY <1>1, <1>2

LEMMA LetterIsText ==
    ASSUME NEW seq \in NameLists, NEW c \in Characters,
           c \in Names => \E n \in DOMAIN seq : seq[n] = c
    PROVE  Letter(c, seq) \in Seq(Characters) /\ Letter(c, seq) \in Seq(Characters \ Names)
  <1>1. CASE c \in Names
    <2> DEFINE p == Placeholder(NumberOf(c, seq))
    <2>1. NumberOf(c, seq) \in DOMAIN Digits
      BY <1>1, NumberHasDigit
    <2>2. /\ p \in Seq(Characters) /\ Len(p) = 4 /\ DOMAIN p = 1 .. 4
          /\ \A i \in 1 .. 4 : p[i] \in Characters \ Names
      BY <2>1, PlaceholderIsText, LenProperties
    <2>3. p \in [1 .. 4 -> Characters \ Names]
      <3>1. p \in [1 .. 4 -> Characters]
        BY <2>2, LenProperties
      <3> HIDE DEF p
      <3> QED
        BY <2>2, <3>1
    <2>4. p \in Seq(Characters \ Names)
      BY <2>3, SeqDef
    <2> QED
      BY <1>1, <2>2, <2>4 DEF Letter
  <1>2. CASE c \notin Names
    BY <1>2 DEF Letter
  <1> QED
    BY <1>1, <1>2

LEMMA AppendPart ==
    ASSUME NEW D, NEW ss \in Seq(Seq(D)), NEW s \in Seq(D)
    PROVE  /\ Append(ss, s) \in Seq(Seq(D)) /\ Len(Append(ss, s)) = Len(ss) + 1
           /\ \A i \in 1 .. Len(ss) : Append(ss, s)[i] = ss[i]
           /\ Append(ss, s)[Len(ss) + 1] = s
  <1>1. Append(ss, s) \in Seq(Seq(D)) /\ Len(Append(ss, s)) = Len(ss) + 1
    BY AppendProperties
  <1>2. \A i \in 1 .. Len(ss) : Append(ss, s)[i] = ss[i]
    BY AppendProperties
  <1>3. Append(ss, s)[Len(ss) + 1] = s
    BY AppendProperties
  <1> QED
    BY <1>1, <1>2, <1>3

\* Letter by letter.
LEMMA SpelledEmpty ==
    ASSUME NEW seq, NEW by
    PROVE  Spelled(<<>>, seq) = <<>> /\ SpelledBy(<<>>, seq, by) = <<>>
  <1>1. /\ [i \in DOMAIN <<>> |-> Letter(<<>>[i], seq)] = <<>>
        /\ [i \in DOMAIN <<>> |-> Replaced(<<>>[i], seq, by)] = <<>>
    OBVIOUS
  <1> QED
    BY <1>1, FlattenEmpty DEF Spelled, SpelledBy

LEMMA SpelledAppend ==
    ASSUME NEW C \in SUBSET Characters, NEW D, NEW f \in [C -> Seq(D)],
           NEW text \in Seq(C), NEW c \in C
    PROVE  /\ FlattenSeq([i \in DOMAIN text |-> f[text[i]]]) \in Seq(D)
           /\ FlattenSeq([i \in DOMAIN Append(text, c) |-> f[Append(text, c)[i]]])
                 = FlattenSeq([i \in DOMAIN text |-> f[text[i]]]) \o f[c]
  <1> DEFINE t == Append(text, c)
             ss == [i \in DOMAIN text |-> f[text[i]]]
             tt == [i \in DOMAIN t |-> f[t[i]]]
  <1>1. /\ t \in Seq(C) /\ Len(t) = Len(text) + 1 /\ Len(text) \in Nat
        /\ DOMAIN t = 1 .. Len(text) + 1 /\ DOMAIN text = 1 .. Len(text)
        /\ \A i \in 1 .. Len(text) : t[i] = text[i]
        /\ t[Len(text) + 1] = c
    BY AppendProperties, LenProperties
  <1>2. ss \in [1 .. Len(text) -> Seq(D)]
    <2>1. \A i \in 1 .. Len(text) : text[i] \in C
      BY ElementOfSeq
    <2> QED
      BY <1>1, <2>1
  <1>3. ss \in Seq(Seq(D)) /\ Len(ss) = Len(text) /\ f[c] \in Seq(D)
    <2>1. ss \in Seq(Seq(D)) /\ f[c] \in Seq(D)
      BY <1>1, <1>2, SeqDef
    <2>2. DOMAIN ss = 1 .. Len(ss) /\ Len(ss) \in Nat /\ DOMAIN ss = 1 .. Len(text)
      BY <1>2, <2>1, LenProperties
    <2> QED
      BY <1>1, <2>1, <2>2, SameUpTo
  <1>4. tt = Append(ss, f[c])
    <2>0. \A i \in 1 .. Len(text) + 1 : t[i] \in C
      BY <1>1, ElementOfSeq
    <2> HIDE DEF t
    <2>1. tt \in [1 .. Len(text) + 1 -> Seq(D)]
      BY <1>1, <2>0
    <2>2. tt \in Seq(Seq(D))
      BY <1>1, <2>1, SeqDef
    <2>3. Len(tt) = Len(text) + 1
      <3>1. DOMAIN tt = 1 .. Len(tt) /\ Len(tt) \in Nat /\ DOMAIN tt = 1 .. Len(text) + 1
        BY <2>1, <2>2, LenProperties
      <3> QED
        BY <1>1, <3>1, SameUpTo
    <2>4. \A i \in 1 .. Len(text) + 1 : tt[i] = IF i = Len(text) + 1 THEN f[c] ELSE ss[i]
      BY <1>1
    <2> HIDE DEF tt, ss
    <2>5. /\ Append(ss, f[c]) \in Seq(Seq(D)) /\ Len(Append(ss, f[c])) = Len(text) + 1
          /\ \A i \in 1 .. Len(text) : Append(ss, f[c])[i] = ss[i]
          /\ Append(ss, f[c])[Len(text) + 1] = f[c]
      <3> DEFINE e == f[c]
      <3>1. e \in Seq(D)
        BY <1>3
      <3> HIDE DEF e
      <3>2. /\ Append(ss, e) \in Seq(Seq(D)) /\ Len(Append(ss, e)) = Len(ss) + 1
            /\ \A i \in 1 .. Len(ss) : Append(ss, e)[i] = ss[i]
            /\ Append(ss, e)[Len(ss) + 1] = e
        BY <1>3, <3>1, AppendPart
      <3> QED
        BY <1>3, <3>2 DEF e
    <2>6. \A i \in 1 .. Len(text) + 1 : tt[i] = Append(ss, f[c])[i]
      BY <1>1, <2>4, <2>5
    <2> QED
      BY <2>2, <2>3, <2>5, <2>6, SeqEqual
  <1> HIDE DEF ss, tt
  <1>5. FlattenSeq(ss) \in Seq(D) /\ FlattenSeq(Append(ss, f[c])) = FlattenSeq(ss) \o f[c]
    BY <1>3, FlattenAppend
  <1> QED
    BY <1>4, <1>5 DEF ss, tt, t

\* Where no name stands for itself, none is left.
LEMMA SpelledHasNoNames ==
    ASSUME NEW seq \in NameLists, NEW text \in Seq(Characters), Lists(seq, text)
    PROVE  Spelled(text, seq) \in Seq(Characters \ Names)
  <1>1. Len(text) \in Nat /\ DOMAIN text = 1 .. Len(text)
    BY LenProperties
  <1>2. ASSUME NEW i \in 1 .. Len(text)
        PROVE  Letter(text[i], seq) \in Seq(Characters \ Names)
    <2>1. text[i] \in Characters
      BY ElementOfSeq
    <2> QED
      BY <1>1, <2>1, LetterIsText DEF Lists
  <1> DEFINE ss == [i \in DOMAIN text |-> Letter(text[i], seq)]
  <1>3. ss \in [1 .. Len(text) -> Seq(Characters \ Names)]
    BY <1>1, <1>2
  <1>4. ss \in Seq(Seq(Characters \ Names))
    BY <1>1, <1>3, SeqDef
  <1> HIDE DEF ss
  <1>5. FlattenSeq(ss) \in Seq(Characters \ Names)
    BY <1>4, EmptySeq, FlattenAppend
  <1> QED
    BY <1>5 DEF Spelled, ss

\* What a replacement makes of a placeholder, and of any other letter.
LEMMA SubstitutePlaceholder ==
    ASSUME NEW by \in Replacements(Characters), NEW n \in DOMAIN by
    PROVE  Substitute(Placeholder(n), by) = by[n]
  <1> DEFINE p == Placeholder(n)
             ps == Pieces(p, by)
  <1>1. n \in DOMAIN Digits /\ by[n] \in Seq(Characters)
    BY ReplacementNumbers
  <1>2. /\ p \in Seq(Characters) /\ Len(p) = 4 /\ DOMAIN p = 1 .. 4
        /\ p[1] = "[" /\ p[2] = "N" /\ p[3] = Digits[n] /\ p[4] = "]"
    BY <1>1, PlaceholderIsText, LenProperties
  <1> HIDE DEF p
  <1>3. PlaceholderAt(p, 1, n)
    <2>1. 1 \in Nat \ {0} /\ 1 + 3 <= Len(p) /\ p[1 + 1] = "N" /\ p[1 + 2] = Digits[n]
          /\ p[1 + 3] = "]"
      BY <1>2
    <2> QED
      BY <1>1, <1>2, <2>1, PlaceholderCharacters
  <1>4. 1 \in Starts(p, by) /\ Piece(p, by, 1) = by[n]
    <2>1. 1 \in DOMAIN p
      BY <1>2
    <2> QED
      BY <1>2, <1>3, <2>1, PieceAtStart
  <1>5. ASSUME NEW i \in {2, 3, 4} PROVE i \notin Starts(p, by)
    <2>1. \A m : ~PlaceholderAt(p, i, m)
      BY <1>2 DEF PlaceholderAt
    <2> QED
      BY <2>1 DEF Starts
  <1>6. Piece(p, by, 2) = <<>> /\ Piece(p, by, 3) = <<>> /\ Piece(p, by, 4) = <<>>
    <2>1. \E d \in 1 .. 3 : 2 - d \in Starts(p, by)
      BY <1>4
    <2>2. \E d \in 1 .. 3 : 3 - d \in Starts(p, by)
      BY <1>4
    <2>3. \E d \in 1 .. 3 : 4 - d \in Starts(p, by)
      BY <1>4
    <2> QED
      BY <1>5, <2>1, <2>2, <2>3 DEF Piece
  <1>7. ps \in Seq(Seq(Characters)) /\ Len(ps) = 4 /\ DOMAIN ps = 1 .. 4
    BY <1>2, PiecesAreTexts
  <1>8. ps[1] = by[n] /\ ps[2] = <<>> /\ ps[3] = <<>> /\ ps[4] = <<>>
    BY <1>2, <1>4, <1>6 DEF Pieces
  <1>9. FlattenSeq(ps) = by[n]
    <2> DEFINE a1 == Append(<<>>, by[n])
               a2 == Append(a1, <<>>)
               a3 == Append(a2, <<>>)
               a4 == Append(a3, <<>>)
    <2>0. <<>> \in Seq(Characters) /\ <<>> \in Seq(Seq(Characters))
      BY EmptySeq
    <2>1. /\ a1 \in Seq(Seq(Characters)) /\ Len(a1) = 1 /\ a1[1] = by[n]
          /\ FlattenSeq(a1) = by[n]
      <3>1. FlattenSeq(a1) = FlattenSeq(<<>>) \o by[n]
        BY <1>1, <2>0, FlattenAppend
      <3>2. FlattenSeq(a1) = by[n]
        BY <1>1, <3>1, FlattenEmpty, ConcatEmptySeq
      <3> QED
        BY <1>1, <2>0, <3>2
    <2> HIDE DEF a1
    <2>2. /\ a2 \in Seq(Seq(Characters)) /\ Len(a2) = 2 /\ a2[1] = by[n] /\ a2[2] = <<>>
          /\ FlattenSeq(a2) = by[n]
      <3>1. FlattenSeq(a2) = by[n] \o <<>>
        BY <2>0, <2>1, FlattenAppend
      <3>2. FlattenSeq(a2) = by[n]
        BY <1>1, <3>1, ConcatEmptySeq
      <3>3. /\ a2 \in Seq(Seq(Characters)) /\ Len(a2) = Len(a1) + 1
            /\ \A i \in 1 .. Len(a1) : a2[i] = a1[i]
            /\ a2[Len(a1) + 1] = <<>>
        BY <2>0, <2>1, AppendPart
      <3> QED
        BY <2>1, <3>2, <3>3
    <2> HIDE DEF a2
    <2>3. /\ a3 \in Seq(Seq(Characters)) /\ Len(a3) = 3 /\ a3[1] = by[n] /\ a3[2] = <<>>
          /\ a3[3] = <<>> /\ FlattenSeq(a3) = by[n]
      <3>1. FlattenSeq(a3) = by[n] \o <<>>
        BY <2>0, <2>2, FlattenAppend
      <3>2. FlattenSeq(a3) = by[n]
        BY <1>1, <3>1, ConcatEmptySeq
      <3>3. /\ a3 \in Seq(Seq(Characters)) /\ Len(a3) = Len(a2) + 1
            /\ \A i \in 1 .. Len(a2) : a3[i] = a2[i]
            /\ a3[Len(a2) + 1] = <<>>
        BY <2>0, <2>2, AppendPart
      <3> QED
        BY <2>2, <3>2, <3>3
    <2> HIDE DEF a3
    <2>4. /\ a4 \in Seq(Seq(Characters)) /\ Len(a4) = 4 /\ a4[1] = by[n] /\ a4[2] = <<>>
          /\ a4[3] = <<>> /\ a4[4] = <<>> /\ FlattenSeq(a4) = by[n]
      <3>1. FlattenSeq(a4) = by[n] \o <<>>
        BY <2>0, <2>3, FlattenAppend
      <3>2. FlattenSeq(a4) = by[n]
        BY <1>1, <3>1, ConcatEmptySeq
      <3>3. /\ a4 \in Seq(Seq(Characters)) /\ Len(a4) = Len(a3) + 1
            /\ \A i \in 1 .. Len(a3) : a4[i] = a3[i]
            /\ a4[Len(a3) + 1] = <<>>
        BY <2>0, <2>3, AppendPart
      <3> QED
        BY <2>3, <3>2, <3>3
    <2> HIDE DEF a4, ps
    <2>5. \A i \in 1 .. 4 : ps[i] = a4[i]
      <3>1. \A i \in 1 .. 4 : i \in {1, 2, 3, 4}
        OBVIOUS
      <3> QED
        BY <1>8, <2>4, <3>1
    <2>6. ps = a4
      BY <1>7, <2>4, <2>5, SeqEqual
    <2> QED
      BY <2>4, <2>6
  <1> QED
    BY <1>9, SubstituteIsPieces DEF p

LEMMA SubstituteLetter ==
    ASSUME NEW by \in Replacements(Characters), NEW c \in Characters
    PROVE  Substitute(<<c>>, by) = <<c>>
  <1> DEFINE t == <<c>>
             ps == Pieces(t, by)
  <1>1. t \in Seq(Characters) /\ Len(t) = 1 /\ DOMAIN t = 1 .. 1 /\ t[1] = c
    OBVIOUS
  <1> HIDE DEF t
  <1>2. Starts(t, by) = {}
    <2>1. ASSUME NEW i \in 1 .. 1, NEW n PROVE ~PlaceholderAt(t, i, n)
      BY <1>1 DEF PlaceholderAt
    <2> QED
      BY <1>1, <2>1 DEF Starts
  <1>3. Piece(t, by, 1) = <<c>>
    BY <1>1, <1>2 DEF Piece
  <1>4. ps \in Seq(Seq(Characters)) /\ Len(ps) = 1 /\ ps[1] = <<c>>
    <2>1. ps[1] = <<c>>
      BY <1>1, <1>3 DEF Pieces
    <2> QED
      BY <1>1, <2>1, PiecesAreTexts
  <1> HIDE DEF ps
  <1>5. <<>> \in Seq(Seq(Characters)) /\ <<c>> \in Seq(Characters)
    BY EmptySeq
  <1>6. ps = Append(<<>>, <<c>>)
    <2>1. /\ Append(<<>>, <<c>>) \in Seq(Seq(Characters)) /\ Len(Append(<<>>, <<c>>)) = 1
          /\ Append(<<>>, <<c>>)[1] = <<c>>
      BY <1>5
    <2>2. \A i \in 1 .. 1 : ps[i] = Append(<<>>, <<c>>)[i]
      BY <1>4, <2>1
    <2> QED
      BY <1>4, <2>1, <2>2, SeqEqual
  <1>7. FlattenSeq(Append(<<>>, <<c>>)) = FlattenSeq(<<>>) \o <<c>>
    BY <1>5, FlattenAppend
  <1>8. FlattenSeq(ps) = <<c>>
    BY <1>5, <1>6, <1>7, FlattenEmpty, ConcatEmptySeq
  <1> QED
    BY <1>8, SubstituteIsPieces DEF t, ps

\* The letters that a list of names can spell.
Spellable(seq) == {c \in Characters : c \in Names => \E n \in DOMAIN seq : seq[n] = c}

LEMMA ListedIsSpellable ==
    ASSUME NEW seq, NEW text \in Seq(Characters), Lists(seq, text)
    PROVE  text \in Seq(Spellable(seq))
  <1>1. Len(text) \in Nat /\ DOMAIN text = 1 .. Len(text) /\ text \in [1 .. Len(text) -> Characters]
    BY LenProperties
  <1>2. \A i \in 1 .. Len(text) : text[i] \in Spellable(seq)
    BY <1>1 DEF Lists, Spellable
  <1>3. text \in [1 .. Len(text) -> Spellable(seq)]
    BY <1>1, <1>2
  <1> QED
    BY <1>1, <1>3, SeqDef

\* One letter more.
LEMMA SpellingGrows ==
    ASSUME NEW seq \in NameLists, NEW by \in Replacements(Characters), Len(by) = Len(seq),
           NEW text \in Seq(Spellable(seq)), NEW c \in Spellable(seq)
    PROVE  /\ Spelled(text, seq) \in Seq(Characters)
           /\ Letter(c, seq) \in Seq(Characters)
           /\ Spelled(Append(text, c), seq) = Spelled(text, seq) \o Letter(c, seq)
           /\ SpelledBy(text, seq, by) \in Seq(Characters)
           /\ SpelledBy(Append(text, c), seq, by) = SpelledBy(text, seq, by) \o Replaced(c, seq, by)
           /\ c \in Names => NumberOf(c, seq) \in DOMAIN by
  <1> DEFINE C == Spellable(seq)
             f == [d \in C |-> Letter(d, seq)]
             g == [d \in C |-> Replaced(d, seq, by)]
  <1>1. C \in SUBSET Characters
    BY DEF Spellable
  <1>2. f \in [C -> Seq(Characters)]
    BY LetterIsText DEF Spellable
  <1>3. ASSUME NEW d \in C, d \in Names PROVE NumberOf(d, seq) \in DOMAIN by
    <2>1. NumberOf(d, seq) \in DOMAIN seq
      BY <1>3, NumberHasDigit DEF Spellable
    <2>2. DOMAIN seq = 1 .. Len(seq) /\ DOMAIN by = 1 .. Len(by)
      BY LenProperties, ReplacementNumbers DEF NameLists
    <2> QED
      BY <2>1, <2>2
  <1>4. g \in [C -> Seq(Characters)]
    <2>1. ASSUME NEW d \in C PROVE Replaced(d, seq, by) \in Seq(Characters)
      <3>1. CASE d \in Names
        BY <1>3, <3>1, ReplacementNumbers DEF Replaced
      <3>2. CASE d \notin Names
        BY <1>1, <3>2 DEF Replaced
      <3> QED
        BY <3>1, <3>2
    <2> QED
      BY <2>1
  <1> HIDE DEF C
  <1>5. ASSUME NEW t \in Seq(C)
        PROVE  /\ FlattenSeq([i \in DOMAIN t |-> f[t[i]]]) = Spelled(t, seq)
               /\ FlattenSeq([i \in DOMAIN t |-> g[t[i]]]) = SpelledBy(t, seq, by)
    <2>1. \A i \in DOMAIN t : t[i] \in C
      BY ElementOfSeq, LenProperties
    <2>2. /\ [i \in DOMAIN t |-> f[t[i]]] = [i \in DOMAIN t |-> Letter(t[i], seq)]
          /\ [i \in DOMAIN t |-> g[t[i]]] = [i \in DOMAIN t |-> Replaced(t[i], seq, by)]
      BY <2>1
    <2> QED
      BY <2>2 DEF Spelled, SpelledBy
  <1>6. f[c] = Letter(c, seq) /\ g[c] = Replaced(c, seq, by) /\ c \in C
    BY DEF C
  <1>7. text \in Seq(C) /\ Append(text, c) \in Seq(C)
    BY AppendProperties DEF C
  <1> HIDE DEF f, g
  <1>8. /\ FlattenSeq([i \in DOMAIN text |-> f[text[i]]]) \in Seq(Characters)
        /\ FlattenSeq([i \in DOMAIN Append(text, c) |-> f[Append(text, c)[i]]])
              = FlattenSeq([i \in DOMAIN text |-> f[text[i]]]) \o f[c]
    BY <1>1, <1>2, <1>6, <1>7, SpelledAppend
  <1>9. /\ FlattenSeq([i \in DOMAIN text |-> g[text[i]]]) \in Seq(Characters)
        /\ FlattenSeq([i \in DOMAIN Append(text, c) |-> g[Append(text, c)[i]]])
              = FlattenSeq([i \in DOMAIN text |-> g[text[i]]]) \o g[c]
    BY <1>1, <1>4, <1>6, <1>7, SpelledAppend
  <1>10. f[c] \in Seq(Characters)
    BY <1>2, <1>6
  <1>11. c \in Names => NumberOf(c, seq) \in DOMAIN by
    BY <1>3, <1>6
  <1> QED
    BY <1>5, <1>6, <1>7, <1>8, <1>9, <1>10, <1>11

\* After its last "]", a spelled text is what was typed.
OwnEnd(text, spelled) ==
    \A k \in 0 .. Len(spelled) :
        (\A d \in 0 .. k - 1 : spelled[Len(spelled) - d] # "]") =>
            k <= Len(text) /\ \A d \in 0 .. k - 1 : spelled[Len(spelled) - d] = text[Len(text) - d]

LEMMA OwnEndAfterPlaceholder ==
    ASSUME NEW spelled \in Seq(Characters), NEW n \in DOMAIN Digits, NEW text \in Seq(Characters)
    PROVE  OwnEnd(text, spelled \o Placeholder(n))
  <1> DEFINE p == Placeholder(n)
             w == spelled \o p
  <1>1. p \in Seq(Characters) /\ Len(p) = 4 /\ p[4] = "]"
    BY PlaceholderIsText
  <1> HIDE DEF p
  <1>2. /\ Len(w) = Len(spelled) + 4 /\ Len(spelled) \in Nat
        /\ \A i \in 1 .. Len(spelled) + 4 :
              w[i] = IF i <= Len(spelled) THEN spelled[i] ELSE p[i - Len(spelled)]
    <2>1. /\ Len(w) = Len(spelled) + Len(p) /\ Len(spelled) \in Nat
          /\ \A i \in 1 .. Len(spelled) + Len(p) :
                w[i] = IF i <= Len(spelled) THEN spelled[i] ELSE p[i - Len(spelled)]
      BY <1>1, ConcatProperties, LenProperties
    <2> HIDE DEF w
    <2> QED
      BY <1>1, <2>1
  <1> HIDE DEF w
  <1>3. w[Len(w)] = "]"
    <2>1. /\ Len(w) \in 1 .. Len(spelled) + 4 /\ ~(Len(w) <= Len(spelled))
          /\ Len(w) - Len(spelled) = 4
      BY <1>2
    <2> QED
      BY <1>1, <1>2, <2>1
  <1>4. ASSUME NEW k \in 0 .. Len(w), \A d \in 0 .. k - 1 : w[Len(w) - d] # "]"
        PROVE  k = 0
    <2>1. Len(w) - 0 = Len(w)
      BY <1>2
    <2>2. ~(0 \in 0 .. k - 1)
      BY <1>3, <1>4, <2>1
    <2> QED
      BY <1>2, <2>2
  <1>5. Len(text) \in Nat
    BY LenProperties
  <1> QED
    <2>1. ASSUME NEW k \in 0 .. Len(w), \A d \in 0 .. k - 1 : w[Len(w) - d] # "]"
          PROVE  k <= Len(text) /\ \A d \in 0 .. k - 1 : w[Len(w) - d] = text[Len(text) - d]
      <3>1. k = 0
        BY <1>4, <2>1
      <3>2. 0 .. k - 1 = {}
        BY <3>1
      <3> QED
        BY <1>5, <3>1, <3>2
    <2>2. OwnEnd(text, w)
      BY <2>1 DEF OwnEnd
    <2> QED
      BY <2>2 DEF w, p

LEMMA OwnEndAfterLetter ==
    ASSUME NEW spelled \in Seq(Characters), NEW text \in Seq(Characters), NEW c \in Characters,
           OwnEnd(text, spelled)
    PROVE  OwnEnd(Append(text, c), spelled \o <<c>>)
  <1> DEFINE w == Append(spelled, c)
             t == Append(text, c)
  <1>1. /\ Len(w) = Len(spelled) + 1 /\ Len(spelled) \in Nat
        /\ \A i \in 1 .. Len(spelled) : w[i] = spelled[i]
        /\ w[Len(spelled) + 1] = c
    BY AppendProperties, LenProperties
  <1>2. /\ Len(t) = Len(text) + 1 /\ Len(text) \in Nat
        /\ \A i \in 1 .. Len(text) : t[i] = text[i]
        /\ t[Len(text) + 1] = c
    BY AppendProperties, LenProperties
  <1> HIDE DEF w, t
  <1>3. ASSUME NEW k \in 0 .. Len(w), \A d \in 0 .. k - 1 : w[Len(w) - d] # "]"
        PROVE  k <= Len(t) /\ \A d \in 0 .. k - 1 : w[Len(w) - d] = t[Len(t) - d]
    <2>1. CASE k = 0
      BY <1>1, <1>2, <2>1
    <2>2. CASE k # 0
      <3>1. k - 1 \in 0 .. Len(spelled) /\ k \in Nat
        BY <1>1, <2>2
      <3>2. ASSUME NEW d \in 0 .. (k - 1) - 1
            PROVE  /\ w[Len(w) - (d + 1)] = spelled[Len(spelled) - d]
                   /\ d + 1 \in 0 .. k - 1
        <4>1. Len(w) - (d + 1) = Len(spelled) - d /\ Len(spelled) - d \in 1 .. Len(spelled)
          BY <1>1, <3>1
        <4> QED
          BY <1>1, <3>1, <4>1
      <3>3. \A d \in 0 .. (k - 1) - 1 : spelled[Len(spelled) - d] # "]"
        BY <1>3, <3>2
      <3>4. /\ k - 1 <= Len(text)
            /\ \A d \in 0 .. (k - 1) - 1 : spelled[Len(spelled) - d] = text[Len(text) - d]
        BY <3>1, <3>3 DEF OwnEnd
      <3>5. ASSUME NEW d \in 0 .. k - 1 PROVE w[Len(w) - d] = t[Len(t) - d]
        <4>1. CASE d = 0
          BY <1>1, <1>2, <4>1
        <4>2. CASE d # 0
          <5>1. d - 1 \in 0 .. (k - 1) - 1 /\ (d - 1) + 1 = d
            BY <3>1, <4>2
          <5>2. w[Len(w) - d] = spelled[Len(spelled) - (d - 1)]
            BY <3>2, <5>1
          <5>3. spelled[Len(spelled) - (d - 1)] = text[Len(text) - (d - 1)]
            BY <3>4, <5>1
          <5>4. Len(text) - (d - 1) \in 1 .. Len(text) /\ Len(t) - d = Len(text) - (d - 1)
            BY <1>2, <3>1, <3>4, <4>2
          <5> QED
            BY <1>2, <5>2, <5>3, <5>4
        <4> QED
          BY <4>1, <4>2
      <3>6. k <= Len(t)
        BY <1>2, <3>1, <3>4
      <3> QED
        BY <3>5, <3>6
    <2> QED
      BY <2>1, <2>2
  <1>4. w = spelled \o <<c>>
    BY AppendIsConcat DEF w
  <1> QED
    BY <1>3, <1>4 DEF OwnEnd, t

LEMMA CompletedByLetter ==
    ASSUME NEW t \in Seq(Characters), NEW c \in Characters, NEW n \in DOMAIN Digits,
           Straddles(t, <<c>>, n)
    PROVE  /\ 3 <= Len(t)
           /\ t[Len(t) - 2] = "[" /\ t[Len(t) - 1] = "N" /\ t[Len(t) - 0] = Digits[n]
           /\ c = "]"
  <1> DEFINE w == Append(t, c)
  <1>1. /\ w \in Seq(Characters) /\ Len(w) = Len(t) + 1 /\ Len(t) \in Nat
        /\ \A i \in 1 .. Len(t) : w[i] = t[i]
        /\ w[Len(t) + 1] = c
        /\ DOMAIN t = 1 .. Len(t)
    BY AppendProperties, LenProperties
  <1>2. w = t \o <<c>>
    BY AppendIsConcat
  <1> HIDE DEF w
  <1>3. PICK i \in DOMAIN t : i + 3 > Len(t) /\ PlaceholderAt(w, i, n)
    BY <1>2 DEF Straddles
  <1>4. i \in Nat \ {0} /\ i \in 1 .. Len(t)
    BY <1>1, <1>3
  <1>5. i + 3 <= Len(w) /\ w[i] = "[" /\ w[i + 1] = "N" /\ w[i + 2] = Digits[n] /\ w[i + 3] = "]"
    BY ONLY <1>1, <1>3, <1>4, n \in DOMAIN Digits, PlaceholderCharacters, SMTT(40)
  <1>6. i + 3 = Len(t) + 1 /\ i = Len(t) - 2 /\ i + 1 = Len(t) - 1 /\ i + 2 = Len(t) - 0
    BY <1>1, <1>3, <1>4, <1>5
  <1>7. i \in 1 .. Len(t) /\ i + 1 \in 1 .. Len(t) /\ i + 2 \in 1 .. Len(t) /\ 3 <= Len(t)
    BY <1>1, <1>4, <1>6
  <1>8. t[i] = "[" /\ t[i + 1] = "N" /\ t[i + 2] = Digits[n]
    BY <1>1, <1>5, <1>7
  <1>9. c = "]"
    BY <1>1, <1>5, <1>6
  <1> QED
    BY <1>6, <1>7, <1>8, <1>9

\* So a typed "]" does not complete a placeholder.
LEMMA TypedLetterIsSafe ==
    ASSUME NEW spelled \in Seq(Characters), NEW text \in Seq(Characters), NEW c \in Characters,
           OwnEnd(text, spelled), Clear(Append(text, c)), NEW n \in DOMAIN Digits
    PROVE  ~Straddles(spelled, <<c>>, n)
  <1> SUFFICES ASSUME Straddles(spelled, <<c>>, n) PROVE FALSE
    OBVIOUS
  <1>2. Len(spelled) \in Nat /\ Len(text) \in Nat
    BY LenProperties
  <1>5. /\ 3 <= Len(spelled)
        /\ spelled[Len(spelled) - 2] = "[" /\ spelled[Len(spelled) - 1] = "N"
        /\ spelled[Len(spelled) - 0] = Digits[n] /\ c = "]"
    BY CompletedByLetter
  <1>6. \A d \in 0 .. 3 - 1 : d \in {0, 1, 2}
    OBVIOUS
  <1>7. \A d \in 0 .. 3 - 1 : spelled[Len(spelled) - d] # "]"
    BY <1>5, <1>6, PlaceholderIsText
  <1>8. 3 \in 0 .. Len(spelled) /\ 0 \in 0 .. 3 - 1 /\ 1 \in 0 .. 3 - 1 /\ 2 \in 0 .. 3 - 1
    BY <1>2, <1>5
  <1>9. 3 <= Len(text) /\ \A d \in 0 .. 3 - 1 : spelled[Len(spelled) - d] = text[Len(text) - d]
    BY <1>7, <1>8 DEF OwnEnd
  <1>10. /\ text[Len(text) - 2] = "[" /\ text[Len(text) - 1] = "N"
         /\ text[Len(text) - 0] = Digits[n]
    BY <1>5, <1>8, <1>9
  <1> DEFINE t == Append(text, c)
             j == Len(text) - 2
  <1>11. /\ t \in Seq(Characters) /\ Len(t) = Len(text) + 1
         /\ \A k \in 1 .. Len(text) : t[k] = text[k]
         /\ t[Len(text) + 1] = c
    BY AppendProperties
  <1>12. DOMAIN t = 1 .. Len(text) + 1
    BY <1>11, LenProperties
  <1> HIDE DEF t
  <1>16. /\ j \in Nat \ {0} /\ j \in 1 .. Len(text) /\ j + 1 \in 1 .. Len(text)
         /\ j + 2 \in 1 .. Len(text) /\ j \in 1 .. Len(text) + 1
         /\ j + 1 = Len(text) - 1 /\ j + 2 = Len(text) - 0 /\ j + 3 = Len(text) + 1
    BY <1>2, <1>9
  <1> HIDE DEF j
  <1>13. /\ j \in Nat \ {0} /\ j \in DOMAIN t /\ j + 3 <= Len(t)
         /\ j + 1 = Len(text) - 1 /\ j + 2 = Len(text) - 0 /\ j + 3 = Len(text) + 1
         /\ j \in 1 .. Len(text) /\ j + 1 \in 1 .. Len(text) /\ j + 2 \in 1 .. Len(text)
    BY <1>2, <1>11, <1>12, <1>16
  <1>14. t[j] = "[" /\ t[j + 1] = "N" /\ t[j + 2] = Digits[n] /\ t[j + 3] = "]"
    <2>1. t[j] = text[j] /\ t[j + 1] = text[j + 1] /\ t[j + 2] = text[j + 2]
      BY <1>11, <1>13
    <2>2. t[j + 3] = "]"
      BY <1>5, <1>11, <1>13
    <2>3. text[j] = "["
      BY <1>10 DEF j
    <2> QED
      BY <1>10, <1>13, <2>1, <2>2, <2>3
  <1>15. PlaceholderAt(t, j, n)
    BY <1>11, <1>13, <1>14, PlaceholderCharacters
  <1> QED
    BY <1>13, <1>15 DEF Clear, t

LEMMA PlaceholderOpens ==
    ASSUME NEW n \in DOMAIN Digits
    PROVE  Placeholder(n) # <<>> /\ Placeholder(n)[1] = "["
  BY DEF Placeholder

\* Substitution in a spelled text replaces the placeholders, and nothing else:
\* not even where a typed "]" follows what looks like the beginning of one.
LEMMA SubstituteSpelled ==
    ASSUME NEW seq \in NameLists, NEW by \in Replacements(Characters), Len(by) = Len(seq),
           NEW text \in Seq(Characters), Lists(seq, text), Clear(text)
    PROVE  Substitute(Spelled(text, seq), by) = SpelledBy(text, seq, by)
  <1> DEFINE C == Spellable(seq)
             Good(t) == /\ OwnEnd(t, Spelled(t, seq))
                        /\ Substitute(Spelled(t, seq), by) = SpelledBy(t, seq, by)
             P == {t \in Seq(C) : Clear(t) => Good(t)}
  <1>1. C \subseteq Characters /\ \A t \in Seq(C) : t \in Seq(Characters)
    <2>1. C \subseteq Characters
      BY DEF Spellable
    <2> QED
      BY <2>1, SeqMonotonic
  <1>2. <<>> \in P
    <2>1. Spelled(<<>>, seq) = <<>> /\ SpelledBy(<<>>, seq, by) = <<>>
      BY SpelledEmpty
    <2>2. Substitute(<<>>, by) = <<>>
      BY SubstituteEmpty
    <2>3. OwnEnd(<<>>, <<>>)
      BY DEF OwnEnd
    <2>4. <<>> \in Seq(C)
      BY EmptySeq
    <2> QED
      BY <2>1, <2>2, <2>3, <2>4
  <1>3. ASSUME NEW t \in Seq(C), NEW c \in C, t \in P PROVE Append(t, c) \in P
    <2>1. Append(t, c) \in Seq(C) /\ t \in Seq(Characters) /\ c \in Characters
      BY <1>1, AppendProperties
    <2> SUFFICES ASSUME Clear(Append(t, c)) PROVE Good(Append(t, c))
      BY <2>1
    <2>2. Clear(t)
      <3> SUFFICES ASSUME NEW i \in DOMAIN t, NEW n \in DOMAIN Digits, PlaceholderAt(t, i, n)
                   PROVE  PlaceholderAt(Append(t, c), i, n) /\ i \in DOMAIN Append(t, c)
        BY DEF Clear
      <3> DEFINE u == Append(t, c)
      <3>1. /\ u \in Seq(Characters) /\ Len(u) = Len(t) + 1 /\ Len(t) \in Nat
            /\ \A k \in 1 .. Len(t) : u[k] = t[k]
            /\ DOMAIN t = 1 .. Len(t)
        BY <2>1, AppendProperties, LenProperties
      <3> HIDE DEF u
      <3>2. i \in Nat \ {0}
        BY <3>1
      <3>3. i + 3 <= Len(t) /\ t[i] = "[" /\ t[i + 1] = "N" /\ t[i + 2] = Digits[n] /\ t[i + 3] = "]"
        BY <2>1, <3>2, PlaceholderCharacters
      <3>4. /\ i + 3 <= Len(u) /\ u[i] = "[" /\ u[i + 1] = "N" /\ u[i + 2] = Digits[n]
            /\ u[i + 3] = "]"
        <4>1. /\ i \in 1 .. Len(t) /\ i + 1 \in 1 .. Len(t) /\ i + 2 \in 1 .. Len(t)
              /\ i + 3 \in 1 .. Len(t)
          BY <3>1, <3>2, <3>3
        <4> QED
          BY <3>1, <3>3, <4>1
      <3>5. PlaceholderAt(u, i, n)
        BY <3>1, <3>2, <3>4, PlaceholderCharacters
      <3>6. i \in DOMAIN u
        BY <3>1, LenProperties
      <3> QED
        BY <3>5, <3>6 DEF u
    <2>3. /\ OwnEnd(t, Spelled(t, seq))
          /\ Substitute(Spelled(t, seq), by) = SpelledBy(t, seq, by)
      BY <1>3, <2>2
    <2> DEFINE s == Spelled(t, seq)
               l == Letter(c, seq)
    <2>4. /\ s \in Seq(Characters) /\ l \in Seq(Characters)
          /\ Spelled(Append(t, c), seq) = s \o l
          /\ SpelledBy(Append(t, c), seq, by) = SpelledBy(t, seq, by) \o Replaced(c, seq, by)
          /\ c \in Names => NumberOf(c, seq) \in DOMAIN by
      BY SpellingGrows
    <2> HIDE DEF s, l
    <2>5. CASE c \in Names
      <3> DEFINE n == NumberOf(c, seq)
      <3>1. n \in DOMAIN by /\ n \in DOMAIN Digits /\ l = Placeholder(n)
            /\ Replaced(c, seq, by) = by[n]
        BY <2>4, <2>5, ReplacementNumbers DEF l, Letter, Replaced
      <3> HIDE DEF n
      <3>2. OwnEnd(Append(t, c), s \o l)
        BY <2>1, <2>4, <3>1, OwnEndAfterPlaceholder, AppendProperties
      <3>3. CutIsSafe(s, l)
        <4>1. l # <<>> /\ l[1] = "["
          BY <3>1, PlaceholderOpens
        <4> QED
          BY <4>1 DEF CutIsSafe
      <3>4. Substitute(s \o l, by) = Substitute(s, by) \o Substitute(l, by)
        BY <2>4, <3>3, SafeCut
      <3>5. Substitute(l, by) = by[n]
        BY <3>1, SubstitutePlaceholder
      <3> QED
        BY <2>3, <2>4, <3>1, <3>2, <3>4, <3>5 DEF s
    <2>6. CASE c \notin Names
      <3>1. l = <<c>> /\ Replaced(c, seq, by) = <<c>>
        BY <2>6 DEF l, Letter, Replaced
      <3>2. OwnEnd(t, s)
        BY <2>3 DEF s
      <3>3. OwnEnd(Append(t, c), s \o l)
        BY <2>1, <2>4, <3>1, <3>2, OwnEndAfterLetter
      <3>4. ASSUME NEW n \in DOMAIN by PROVE ~Straddles(s, l, n)
        <4>1. n \in DOMAIN Digits
          BY ReplacementNumbers
        <4>2. ~Straddles(s, <<c>>, n)
          BY <2>1, <2>4, <3>2, <4>1, TypedLetterIsSafe
        <4> QED
          BY <3>1, <4>2
      <3>5. Substitute(s \o l, by) = Substitute(s, by) \o Substitute(l, by)
        BY <2>4, <3>4, SubstituteConcat
      <3>6. Substitute(l, by) = <<c>>
        BY <2>1, <3>1, SubstituteLetter
      <3> QED
        BY <2>3, <2>4, <3>1, <3>3, <3>5, <3>6 DEF s
    <2> QED
      BY <2>5, <2>6
  <1>4. text \in P
    <2>1. text \in Seq(C)
      BY ListedIsSpellable
    <2> HIDE DEF P, C
    <2>2. Seq(C) \subseteq P
      BY <1>2, <1>3, SequenceInduction
    <2> QED
      BY <2>1, <2>2
  <1> QED
    BY <1>4

\* What is spelled in full is the text.
LEMMA SpelledByItself ==
    ASSUME NEW text \in Seq(Characters)
    PROVE  FlattenSeq([i \in DOMAIN text |-> <<text[i]>>]) = text
  <1> DEFINE f == [c \in Characters |-> <<c>>]
             P == {t \in Seq(Characters) : FlattenSeq([i \in DOMAIN t |-> f[t[i]]]) = t}
  <1>1. Characters \in SUBSET Characters /\ f \in [Characters -> Seq(Characters)]
    OBVIOUS
  <1>2. <<>> \in P
    <2>1. [i \in DOMAIN <<>> |-> f[<<>>[i]]] = <<>>
      OBVIOUS
    <2> QED
      BY <2>1, FlattenEmpty, EmptySeq
  <1>3. ASSUME NEW t \in Seq(Characters), NEW c \in Characters, t \in P
        PROVE  Append(t, c) \in P
    <2>1. f[c] = <<c>>
      OBVIOUS
    <2>2. FlattenSeq([i \in DOMAIN t |-> f[t[i]]]) = t
      BY <1>3
    <2> HIDE DEF f
    <2>3. FlattenSeq([i \in DOMAIN Append(t, c) |-> f[Append(t, c)[i]]])
              = FlattenSeq([i \in DOMAIN t |-> f[t[i]]]) \o f[c]
      BY <1>1, SpelledAppend
    <2>4. Append(t, c) = t \o <<c>> /\ Append(t, c) \in Seq(Characters)
      BY AppendIsConcat, AppendProperties
    <2> QED
      BY <2>1, <2>2, <2>3, <2>4
  <1>4. text \in P
    <2> HIDE DEF P
    <2> QED
      BY <1>2, <1>3, SequenceInduction
  <1>5. [i \in DOMAIN text |-> f[text[i]]] = [i \in DOMAIN text |-> <<text[i]>>]
    BY ElementOfSeq, LenProperties
  <1> QED
    BY <1>4, <1>5

\* What users wrote, in a conversation.
Conversations(T) ==
    {messages \in Seq([role : {"user", "assistant"}, text : T]) :
        \A i \in DOMAIN messages : messages[i].role = "user" => messages[i].text \in Questions}

LEMMA QuestionsAreClear ==
    ASSUME NEW q \in Questions
    PROVE  q \in Seq(Characters) /\ Clear(q)
  BY TextsAreSequences, NoneIsTyped DEF Clear

LEMMA ConversationNamesList ==
    ASSUME NEW T, NEW messages \in Conversations(T)
    PROVE  /\ ConversationNames(messages) \in NameLists
           /\ \A i \in DOMAIN messages : messages[i].role = "user" =>
                 Lists(ConversationNames(messages), messages[i].text)
  <1> DEFINE parts == [i \in DOMAIN messages |->
                          IF messages[i].role = "user" THEN messages[i].text ELSE <<>>]
             whole == FlattenSeq(parts)
             global == LocalNames(whole)
  <1>1. Len(messages) \in Nat /\ DOMAIN messages = 1 .. Len(messages)
    BY LenProperties DEF Conversations
  <1>2. parts \in [1 .. Len(messages) -> Seq(Characters)]
    <2>1. <<>> \in Seq(Characters)
      BY EmptySeq
    <2> QED
      BY <1>1, <2>1, QuestionsAreClear DEF Conversations
  <1>3. parts \in Seq(Seq(Characters)) /\ DOMAIN parts = DOMAIN messages
    BY <1>1, <1>2, SeqDef
  <1>4. \A i \in DOMAIN messages : messages[i].role = "user" => parts[i] = messages[i].text
    OBVIOUS
  <1>5. ConversationNames(messages) = global
    BY DEF ConversationNames
  <1> HIDE DEF parts
  <1>6. whole \in Seq(Characters)
    BY <1>3, EmptySeq, FlattenAppend
  <1>7. /\ \A i \in DOMAIN parts : \A j \in DOMAIN parts[i] :
              \E k \in DOMAIN whole : whole[k] = parts[i][j]
    BY <1>3, FlattenHasParts
  <1> HIDE DEF whole
  <1>8. /\ global \in Seq(Names) /\ Len(global) <= Len(Digits)
        /\ \A k \in DOMAIN whole : whole[k] \in Names =>
              \E n \in DOMAIN global : global[n] = whole[k]
    BY <1>6, LocalNamesList
  <1> HIDE DEF global
  <1>9. ASSUME NEW i \in DOMAIN messages, messages[i].role = "user"
        PROVE  Lists(global, messages[i].text)
    <2> SUFFICES ASSUME NEW j \in DOMAIN parts[i], parts[i][j] \in Names
                 PROVE  \E n \in DOMAIN global : global[n] = parts[i][j]
      BY <1>4, <1>9 DEF Lists
    <2>1. PICK k \in DOMAIN whole : whole[k] = parts[i][j]
      BY <1>3, <1>7
    <2> QED
      BY <1>8, <2>1
  <1> QED
    BY <1>5, <1>8, <1>9 DEF NameLists

LEMMA LocalNamesAreListed ==
    ASSUME NEW text \in Seq(Characters)
    PROVE  /\ LocalNames(text) \in NameLists /\ Lists(LocalNames(text), text)
           /\ LocalText(text) = Spelled(text, LocalNames(text))
  <1>1. LocalNames(text) \in NameLists /\ Lists(LocalNames(text), text)
    BY LocalNamesList DEF NameLists, Lists
  <1>2. LocalText(text) = Spelled(text, LocalNames(text))
    BY DEF LocalText, Spelled, Letter
  <1> QED
    BY <1>1, <1>2

\* The names of the conversation spell what the numbers of one text spelled.
LEMMA RenumberedIsSpelled ==
    ASSUME NEW text \in Seq(Characters), Clear(text),
           NEW global \in NameLists, Lists(global, text)
    PROVE  Substitute(LocalText(text),
                      [n \in DOMAIN LocalNames(text) |->
                          Placeholder(NumberOf(LocalNames(text)[n], global))])
              = Spelled(text, global)
  <1> DEFINE local == LocalNames(text)
             by == [n \in DOMAIN local |-> Placeholder(NumberOf(local[n], global))]
  <1>1. local \in NameLists /\ Lists(local, text) /\ LocalText(text) = Spelled(text, local)
    BY LocalNamesAreListed
  <1>2. \A n \in DOMAIN local : \E i \in DOMAIN text : text[i] = local[n]
    BY LocalNamesList
  <1> HIDE DEF local
  <1>3. Len(local) \in Nat /\ DOMAIN local = 1 .. Len(local) /\ \A n \in DOMAIN local : local[n] \in Names
    BY <1>1, LenProperties, ElementOfSeq DEF NameLists
  <1>4. ASSUME NEW n \in DOMAIN local PROVE NumberOf(local[n], global) \in DOMAIN Digits
    <2>1. \E m \in DOMAIN global : global[m] = local[n]
      BY <1>2, <1>3 DEF Lists
    <2> QED
      BY <2>1, NumberHasDigit
  <1>5. by \in [1 .. Len(local) -> Seq(Characters)]
    BY <1>3, <1>4, PlaceholderIsText
  <1>6. by \in Seq(Seq(Characters)) /\ Len(by) = Len(local)
    <2>1. by \in Seq(Seq(Characters))
      BY <1>3, <1>5, SeqDef
    <2>2. DOMAIN by = 1 .. Len(by) /\ Len(by) \in Nat /\ DOMAIN by = 1 .. Len(local)
      BY <1>5, <2>1, LenProperties
    <2> QED
      BY <1>3, <2>1, <2>2, SameUpTo
  <1>7. by \in Replacements(Characters)
    BY <1>1, <1>6 DEF Replacements, NameLists
  <1>8. Substitute(Spelled(text, local), by) = SpelledBy(text, local, by)
    <2> HIDE DEF by
    <2> QED
      BY <1>1, <1>6, <1>7, SubstituteSpelled
  <1>9. ASSUME NEW i \in DOMAIN text PROVE Replaced(text[i], local, by) = Letter(text[i], global)
    <2>1. CASE text[i] \in Names
      <3>1. \E n \in DOMAIN local : local[n] = text[i]
        BY <1>1, <2>1 DEF Lists
      <3>2. NumberOf(text[i], local) \in DOMAIN local /\ local[NumberOf(text[i], local)] = text[i]
        BY <3>1, NumberIsOfName
      <3>3. by[NumberOf(text[i], local)] = Placeholder(NumberOf(text[i], global))
        BY <3>2
      <3> QED
        BY <2>1, <3>3 DEF Replaced, Letter
    <2>2. CASE text[i] \notin Names
      BY <2>2 DEF Replaced, Letter
    <2> QED
      BY <2>1, <2>2
  <1>10. SpelledBy(text, local, by) = Spelled(text, global)
    <2>1. [i \in DOMAIN text |-> Replaced(text[i], local, by)]
              = [i \in DOMAIN text |-> Letter(text[i], global)]
      BY <1>9
    <2> QED
      BY <2>1 DEF SpelledBy, Spelled
  <1> QED
    BY <1>1, <1>8, <1>10 DEF local

\* And the map says what they stand for.
LEMMA RestoredIsOriginal ==
    ASSUME NEW text \in Seq(Characters), Clear(text),
           NEW global \in NameLists, Lists(global, text)
    PROVE  Substitute(Spelled(text, global), [n \in DOMAIN global |-> <<global[n]>>]) = text
  <1> DEFINE by == [n \in DOMAIN global |-> <<global[n]>>]
  <1>1. by \in Replacements(Characters) /\ DOMAIN by = DOMAIN global
    BY NamesReplace DEF NameLists
  <1>2. Len(by) = Len(global)
    <2>1. DOMAIN by = 1 .. Len(by) /\ Len(by) \in Nat
      BY <1>1, ReplacementNumbers
    <2>2. DOMAIN global = 1 .. Len(global) /\ Len(global) \in Nat
      BY LenProperties DEF NameLists
    <2> QED
      BY <1>1, <2>1, <2>2, SameUpTo
  <1>3. Substitute(Spelled(text, global), by) = SpelledBy(text, global, by)
    <2> HIDE DEF by
    <2> QED
      BY <1>1, <1>2, SubstituteSpelled
  <1>4. ASSUME NEW i \in DOMAIN text PROVE Replaced(text[i], global, by) = <<text[i]>>
    <2>1. CASE text[i] \in Names
      <3>1. \E n \in DOMAIN global : global[n] = text[i]
        BY <2>1 DEF Lists
      <3>2. /\ NumberOf(text[i], global) \in DOMAIN global
            /\ global[NumberOf(text[i], global)] = text[i]
        BY <3>1, NumberIsOfName
      <3> QED
        BY <2>1, <3>2 DEF Replaced
    <2>2. CASE text[i] \notin Names
      BY <2>2 DEF Replaced
    <2> QED
      BY <2>1, <2>2
  <1>5. [i \in DOMAIN text |-> Replaced(text[i], global, by)] = [i \in DOMAIN text |-> <<text[i]>>]
    BY <1>4
  <1> QED
    BY <1>3, <1>5, SpelledByItself DEF SpelledBy

\* One message.
LEMMA RedactedRestores ==
    ASSUME NEW T, NEW messages \in Conversations(T), NEW i \in DOMAIN messages,
           messages[i].role = "user"
    PROVE  LET global == ConversationNames(messages)
               text == Redacted(messages[i], global).text
           IN  /\ Range(text) \intersect Names = {}
               /\ Substitute(text, [n \in DOMAIN global |-> <<global[n]>>]) = messages[i].text
  <1> DEFINE global == ConversationNames(messages)
             q == messages[i].text
             m == messages[i]
  <1>1. global \in NameLists /\ Lists(global, q)
    BY ConversationNamesList
  <1>2. q \in Seq(Characters) /\ Clear(q)
    BY QuestionsAreClear DEF Conversations
  <1>3. m \in [role : {"user", "assistant"}, text : T]
    BY ElementOfSeq, LenProperties DEF Conversations
  <1> HIDE DEF global
  <1>4. Redacted(m, global).text
            = Substitute(LocalText(q), [n \in DOMAIN LocalNames(q) |->
                                           Placeholder(NumberOf(LocalNames(q)[n], global))])
    BY <1>3 DEF Redacted
  <1>5. Redacted(m, global).text = Spelled(q, global)
    BY <1>1, <1>2, <1>4, RenumberedIsSpelled
  <1>6. Range(Spelled(q, global)) \intersect Names = {}
    <2>1. Spelled(q, global) \in Seq(Characters \ Names)
      BY <1>1, <1>2, SpelledHasNoNames
    <2> QED
      BY <2>1, ElementOfSeq, LenProperties DEF Range
  <1> QED
    BY <1>1, <1>2, <1>5, <1>6, RestoredIsOriginal DEF global

-----------------------------------------------------------------------------
(* The state of a conversation.                                            *)

Stages == {"idle", "redact", "load", "queue", "query", "stream", "trailer"}

Kbs == [status : {"processing", "ready", "error"},
        manifest : Nat, built : Nat, desired : Nat \ {0}, target : Nat]

ChatTypes ==
    /\ bot \in [filter : BOOLEAN, web : BOOLEAN]
    /\ kb \in Kbs
    /\ stage \in Stages
    /\ \E T : history \in Conversations(T)
    /\ names \in NameLists
    /\ config \in Nat /\ overtaken \in BOOLEAN
    /\ mine \in BOOLEAN /\ others \in Nat /\ ahead \in Nat
    /\ answer \in Seq(Characters) /\ buf \in Seq(Characters) /\ shown \in Seq(Characters)
    /\ steps \in Nat

\* What the manifest says of the collection.  A KB is ready only with the
\* collection that its manifest describes, and a sync that does not rebuild
\* began when the manifest was as desired.
ManifestHolds ==
    /\ kb.manifest <= kb.desired
    /\ kb.manifest = kb.desired => kb.built = kb.manifest
    /\ kb.status = "ready" => kb.manifest # None /\ kb.built = kb.manifest
    /\ kb.status = "processing" /\ kb.target = None => kb.manifest = kb.desired
    /\ kb.target # None => kb.status = "processing" /\ kb.target = kb.desired

\* The config a request has read is that of the collection until it is recreated.
ConfigHolds ==
    /\ config # None /\ ~overtaken => kb.built = config
    /\ stage \in {"queue", "query"} => config # None
    /\ used # <<>> => /\ stage \in {"stream", "trailer"} /\ config # None
                      /\ used = [config |-> config, built |-> kb.built]

\* A request has its permit while it queries and streams, and only then; it
\* queues while all of them are taken.
PermitsHeld ==
    /\ mine <=> stage \in {"query", "stream"}
    /\ others + (IF mine THEN 1 ELSE 0) <= Permits
    /\ stage = "queue" => others = Permits

\* What has been read of the answer is shown, restored, and the rest, which is
\* held back, begins where no placeholder is cut.
ByNames(text, seq) == Substitute(text, [n \in DOMAIN seq |-> <<seq[n]>>])

HeldBack ==
    /\ stage \notin {"stream", "trailer"} => answer = <<>> /\ buf = <<>> /\ shown = <<>>
    /\ stage = "stream" /\ Unredacts =>
          \E read \in Seq(Characters) :
              answer = read \o buf /\ shown = ByNames(read, names) /\ CutIsSafe(read, buf)
    /\ stage = "stream" /\ ~Unredacts => shown = answer /\ buf = <<>>
    /\ stage = "trailer" =>
          buf = <<>> /\ shown = IF Unredacts THEN ByNames(answer, names) ELSE answer

\* The messages that go out are those the client has, redacted, and the names
\* are those of the same conversation.
SentIsRedacted ==
    bot.filter /\ stage \notin {"idle", "redact"} =>
        /\ sent = [i \in DOMAIN history |-> Redacted(history[i], ConversationNames(history))]
        /\ bot.web => names = ConversationNames(history)

LEMMA RestoredByNames == \A text : Restored(text) = ByNames(text, names)
  BY DEF Restored, ByNames

LEMMA ByNamesIsText ==
    ASSUME NEW text \in Seq(Characters), NEW seq \in NameLists
    PROVE  ByNames(text, seq) \in Seq(Characters)
  <1> DEFINE by == [n \in DOMAIN seq |-> <<seq[n]>>]
  <1>1. by \in Replacements(Characters)
    BY NamesReplace DEF NameLists
  <1> HIDE DEF by
  <1>2. Substitute(text, by) \in Seq(Characters)
    BY <1>1, PiecesAreTexts
  <1> QED
    BY <1>2 DEF ByNames, by

LEMMA ByNamesEmpty ==
    ASSUME NEW seq \in NameLists
    PROVE  ByNames(<<>>, seq) = <<>>
  <1> DEFINE by == [n \in DOMAIN seq |-> <<seq[n]>>]
  <1>1. by \in Replacements(Characters)
    BY NamesReplace DEF NameLists
  <1> HIDE DEF by
  <1>2. Substitute(<<>>, by) = <<>>
    BY <1>1, SubstituteEmpty
  <1> QED
    BY <1>2 DEF ByNames, by

LEMMA ByNamesConcat ==
    ASSUME NEW t \in Seq(Characters), NEW u \in Seq(Characters),
           CutIsSafe(t, u) \/ u = <<>>, NEW seq \in NameLists
    PROVE  ByNames(t \o u, seq) = ByNames(t, seq) \o ByNames(u, seq)
  <1> DEFINE by == [n \in DOMAIN seq |-> <<seq[n]>>]
  <1>1. by \in Replacements(Characters)
    BY NamesReplace DEF NameLists
  <1> HIDE DEF by
  <1>2. Substitute(t \o u, by) = Substitute(t, by) \o Substitute(u, by)
    BY <1>1, SafeCut
  <1> QED
    BY <1>2 DEF ByNames, by

LEMMA ConversationGrows ==
    ASSUME NEW T, NEW messages \in Conversations(T), NEW role \in {"user", "assistant"},
           NEW text, role = "user" => text \in Questions
    PROVE  \E U : Append(messages, [role |-> role, text |-> text]) \in Conversations(U)
  <1> DEFINE U == T \union {text}
             M == [role : {"user", "assistant"}, text : U]
             m == [role |-> role, text |-> text]
             longer == Append(messages, m)
  <1>1. messages \in Seq(M) /\ m \in M
    <2>1. [role : {"user", "assistant"}, text : T] \subseteq M
      OBVIOUS
    <2> HIDE DEF M
    <2>2. messages \in Seq(M)
      BY <2>1, SeqMonotonic DEF Conversations
    <2>3. m \in M
      BY DEF M
    <2> QED
      BY <2>2, <2>3
  <1>2. m.role = role /\ m.text = text
    OBVIOUS
  <1> HIDE DEF M, m
  <1>3. /\ longer \in Seq(M) /\ DOMAIN longer = 1 .. Len(messages) + 1 /\ Len(messages) \in Nat
        /\ \A i \in 1 .. Len(messages) : longer[i] = messages[i]
        /\ longer[Len(messages) + 1] = m
        /\ DOMAIN messages = 1 .. Len(messages)
    BY <1>1, AppendProperties, LenProperties
  <1> HIDE DEF longer
  <1>4. ASSUME NEW i \in DOMAIN longer, longer[i].role = "user" PROVE longer[i].text \in Questions
    <2>1. CASE i \in 1 .. Len(messages)
      BY <1>3, <1>4, <2>1 DEF Conversations
    <2>2. CASE i \notin 1 .. Len(messages)
      <3>1. i = Len(messages) + 1
        BY <1>3, <2>2
      <3> QED
        BY <1>2, <1>3, <1>4, <3>1
    <2> QED
      BY <2>1, <2>2
  <1>5. longer \in Conversations(U)
    BY <1>3, <1>4 DEF Conversations, M
  <1> QED
    BY <1>5 DEF longer, m

LEMMA ChunksAreTexts ==
    ASSUME NEW chunk \in BoundedSeq(Chars, MaxChunk)
    PROVE  chunk \in Seq(Characters) /\ Len(chunk) \in Nat
  <1>1. PICK m \in 0 .. MaxChunk : chunk \in [1 .. m -> Chars]
    BY DEF BoundedSeq, SeqOf
  <1>2. m \in Nat
    BY <1>1, BoundsAreNumbers
  <1>3. Chars \subseteq Characters
    BY DEF Characters
  <1>4. chunk \in Seq(Characters)
    <2>1. chunk \in [1 .. m -> Characters]
      BY <1>1, <1>3
    <2> QED
      BY <1>2, <2>1, SeqDef
  <1> QED
    BY <1>4, LenProperties

\* One chunk of the answer.
LEMMA FeedHoldsBack ==
    ASSUME ChatTypes, HeldBack, NEW chunk \in BoundedSeq(Chars, MaxChunk), Feed(chunk)
    PROVE  /\ answer' \in Seq(Characters) /\ buf' \in Seq(Characters)
           /\ shown' \in Seq(Characters)
           /\ \E read \in Seq(Characters) :
                  /\ answer' = read \o buf' /\ shown' = ByNames(read, names)
                  /\ CutIsSafe(read, buf')
  <1> DEFINE text == buf \o chunk
             head == SubSeq(text, 1, SafeLength(text))
             tail == SubSeq(text, SafeLength(text) + 1, Len(text))
  <1>1. /\ stage = "stream" /\ Unredacts
        /\ answer' = answer \o chunk
        /\ shown' = shown \o Restored(head)
        /\ buf' = tail
    BY DEF Feed, Answered
  <1>2. chunk \in Seq(Characters) /\ buf \in Seq(Characters) /\ names \in NameLists
    BY ChunksAreTexts DEF ChatTypes
  <1>3. PICK read \in Seq(Characters) :
            answer = read \o buf /\ shown = ByNames(read, names) /\ CutIsSafe(read, buf)
    BY <1>1 DEF HeldBack
  <1>4. text \in Seq(Characters)
    BY <1>2, ConcatProperties
  <1>5. buf # <<>> => text # <<>> /\ text[1] = buf[1]
    <2> SUFFICES ASSUME buf # <<>> PROVE text # <<>> /\ text[1] = buf[1]
      OBVIOUS
    <2>1. Len(buf) \in Nat \ {0} /\ Len(chunk) \in Nat
      BY <1>2, EmptySeq, LenProperties
    <2>2. /\ Len(text) = Len(buf) + Len(chunk)
          /\ \A i \in 1 .. Len(buf) + Len(chunk) :
                text[i] = IF i <= Len(buf) THEN buf[i] ELSE chunk[i - Len(buf)]
      BY <1>2, ConcatProperties
    <2> HIDE DEF text
    <2>3. 1 \in 1 .. Len(buf) + Len(chunk) /\ 1 <= Len(buf) /\ Len(text) # 0
      BY <2>1, <2>2
    <2>4. text # <<>>
      BY <1>4, <2>3, EmptySeq
    <2> QED
      BY <2>2, <2>3, <2>4
  <1> HIDE DEF text
  <1>6. /\ head \in Seq(Characters) /\ tail \in Seq(Characters)
        /\ head \o tail = text
        /\ tail # <<>> => tail[1] = "["
        /\ tail = <<>> => Settled(text)
        /\ head # <<>> => text # <<>> /\ head[1] = text[1]
    BY <1>4, SafeLengthCuts
  <1> HIDE DEF head, tail
  <1>7. tail = <<>> => head = text
    BY <1>6, ConcatEmptySeq
  <1>8. CutIsSafe(read \o head, tail) /\ (CutIsSafe(read, head) \/ head = <<>>)
    BY <1>2, <1>3, <1>4, <1>5, <1>6, <1>7, CutStaysSafe
  <1>9. answer' = (read \o head) \o tail
    <2>1. answer' = (read \o buf) \o chunk
      BY <1>1, <1>3
    <2>2. (read \o buf) \o chunk = read \o text
      BY <1>2, <1>3, ConcatAssociative DEF text
    <2>3. (read \o head) \o tail = read \o (head \o tail)
      <3>1. head \in Seq(Characters) /\ tail \in Seq(Characters)
        BY <1>6
      <3> QED
        BY ONLY <1>3, <3>1, ConcatAssociative, SMTT(40)
    <2> QED
      BY <1>6, <2>1, <2>2, <2>3
  <1>10. shown' = ByNames(read \o head, names)
    <2>1. ByNames(read \o head, names) = ByNames(read, names) \o ByNames(head, names)
      BY <1>2, <1>3, <1>6, <1>8, ByNamesConcat
    <2> QED
      BY <1>1, <1>3, <2>1, RestoredByNames
  <1>11. read \o head \in Seq(Characters)
    BY <1>3, <1>6, ConcatProperties
  <1>12. shown' \in Seq(Characters)
    BY <1>2, <1>10, <1>11, ByNamesIsText
  <1>13. answer' \in Seq(Characters)
    BY <1>6, <1>9, <1>11, ConcatProperties
  <1>14. buf' = tail
    BY <1>1 DEF tail
  <1> QED
    BY <1>6, <1>8, <1>9, <1>10, <1>11, <1>12, <1>13, <1>14

\* The end of the answer.
LEMMA FlushShowsAll ==
    ASSUME ChatTypes, HeldBack, Flush
    PROVE  /\ shown' \in Seq(Characters)
           /\ shown' = IF Unredacts THEN ByNames(answer, names) ELSE answer
  <1>1. stage = "stream" /\ shown' = shown \o Restored(buf)
    BY DEF Flush
  <1>2. names \in NameLists /\ buf \in Seq(Characters) /\ answer \in Seq(Characters)
    BY DEF ChatTypes
  <1>3. shown' = shown \o ByNames(buf, names)
    BY <1>1, RestoredByNames
  <1>4. CASE Unredacts
    <2>1. PICK read \in Seq(Characters) :
              answer = read \o buf /\ shown = ByNames(read, names) /\ CutIsSafe(read, buf)
      BY <1>1, <1>4 DEF HeldBack
    <2>2. ByNames(read \o buf, names) = ByNames(read, names) \o ByNames(buf, names)
      BY <1>2, <2>1, ByNamesConcat
    <2>3. shown' = ByNames(answer, names)
      BY <1>3, <2>1, <2>2
    <2> QED
      BY <1>2, <1>4, <2>3, ByNamesIsText
  <1>5. CASE ~Unredacts
    <2>1. shown = answer /\ buf = <<>>
      BY <1>1, <1>5 DEF HeldBack
    <2>2. shown' = answer \o <<>>
      BY <1>2, <1>3, <2>1, ByNamesEmpty
    <2>3. shown' = answer
      BY <1>2, <2>2, ConcatEmptySeq
    <2> QED
      BY <1>2, <1>5, <2>3
  <1> QED
    BY <1>4, <1>5

-----------------------------------------------------------------------------

LEMMA ChatTypesInit == ChatInit => ChatTypes /\ PermitsHeld /\ ManifestHolds /\ ConfigHolds
                                   /\ HeldBack /\ SentIsRedacted
  <1> SUFFICES ASSUME ChatInit
               PROVE  ChatTypes /\ PermitsHeld /\ ManifestHolds /\ ConfigHolds
                      /\ HeldBack /\ SentIsRedacted
    OBVIOUS
  <1>1. /\ bot \in [filter : BOOLEAN, web : BOOLEAN]
        /\ kb = [status |-> "processing", manifest |-> None, built |-> None, desired |-> 1,
                 target |-> 1]
        /\ history = <<>> /\ stage = "idle" /\ names = <<>>
        /\ config = None /\ used = <<>> /\ overtaken = FALSE
        /\ mine = FALSE /\ ahead = 0 /\ others \in 0 .. Permits
        /\ answer = <<>> /\ buf = <<>> /\ shown = <<>> /\ steps = 0
    BY DEF ChatInit
  <1>2. ChatTypes
    <2>1. history \in Conversations({})
      <3>1. <<>> \in Seq([role : {"user", "assistant"}, text : {}]) /\ DOMAIN <<>> = {}
        BY EmptySeq
      <3> QED
        BY <1>1, <3>1 DEF Conversations
    <2>2. names \in NameLists
      <3>1. <<>> \in Seq(Names) /\ Len(<<>>) = 0 /\ Len(Digits) \in Nat
        BY EmptySeq, TextsAreSequences, LenProperties
      <3> QED
        BY <1>1, <3>1 DEF NameLists
    <2>3. kb \in Kbs
      BY <1>1 DEF Kbs, None
    <2>4. <<>> \in Seq(Characters)
      BY EmptySeq
    <2>5. others \in Nat /\ config \in Nat /\ ahead \in Nat /\ steps \in Nat
      BY <1>1, PermitsArePositive DEF None
    <2>6. \E T : history \in Conversations(T)
      BY <2>1
    <2>7. /\ stage \in Stages /\ overtaken \in BOOLEAN /\ mine \in BOOLEAN
          /\ bot \in [filter : BOOLEAN, web : BOOLEAN]
      BY <1>1 DEF Stages
    <2>8. answer \in Seq(Characters) /\ buf \in Seq(Characters) /\ shown \in Seq(Characters)
      BY <1>1, <2>4
    <2> QED
      BY <2>2, <2>3, <2>5, <2>6, <2>7, <2>8 DEF ChatTypes
  <1>3. PermitsHeld
    BY <1>1, PermitsArePositive DEF PermitsHeld
  <1>4. ManifestHolds /\ ConfigHolds
    BY <1>1 DEF ManifestHolds, ConfigHolds, None
  <1>5. HeldBack /\ SentIsRedacted
    BY <1>1 DEF HeldBack, SentIsRedacted
  <1> QED
    BY <1>2, <1>3, <1>4, <1>5

LEMMA ManifestHoldsStep ==
    ASSUME ChatTypes, ManifestHolds, [ChatNext]_chatVars
    PROVE  ManifestHolds' /\ kb' \in Kbs
  <1> USE DEF ManifestHolds, None
  <1>0. kb \in Kbs
    BY DEF ChatTypes
  <1>1. CASE \/ AskInBrowser \/ AskOverApi \/ Redact \/ LoadKb \/ Query \/ Deliver \/ Flush
             \/ Finish \/ RequestFails \/ ClientGoes \/ OtherTakes \/ OtherEnds
             \/ UNCHANGED chatVars
    <2>1. kb' = kb
      BY <1>1 DEF AskInBrowser, AskOverApi, Ask, Redact, LoadKb, Query, Deliver, Feed, PassOn,
                  Answered, Flush, Finish, RequestFails, ClientGoes, Ends, Forget, OtherTakes,
                  OtherEnds, chatVars
    <2> QED
      BY <1>0, <2>1
  <1>2. CASE DeployConfig
    BY <1>0, <1>2 DEF DeployConfig, KbBecomes, Kbs
  <1>3. CASE BeginSync
    BY <1>0, <1>3 DEF BeginSync, KbBecomes, Kbs
  <1>4. CASE Recreate
    BY <1>0, <1>4 DEF Recreate, KbBecomes, Kbs
  <1>5. CASE CompleteSync
    <2>1. /\ kb.status = "processing" /\ (kb.target = 0 \/ kb.target = kb.built)
          /\ kb' = [kb EXCEPT !.status = "ready", !.target = 0,
                             !.manifest = IF kb.target = 0 THEN @ ELSE kb.desired]
      BY <1>5 DEF CompleteSync, KbBecomes
    <2>2. CASE kb.target = 0
      <3>1. kb' = [kb EXCEPT !.status = "ready", !.target = 0, !.manifest = kb.manifest]
        BY <2>1, <2>2
      <3> QED
        BY <1>0, <2>1, <2>2, <3>1 DEF Kbs
    <2>3. CASE kb.target # 0
      <3>1. /\ kb' = [kb EXCEPT !.status = "ready", !.target = 0, !.manifest = kb.desired]
            /\ kb.built = kb.desired
        BY <2>1, <2>3
      <3>2. /\ kb'.status = "ready" /\ kb'.target = 0 /\ kb'.manifest = kb.desired
            /\ kb'.built = kb.desired /\ kb'.desired = kb.desired /\ kb.desired \in Nat \ {0}
            /\ kb' \in Kbs
        BY <1>0, <3>1 DEF Kbs
      <3> QED
        BY <3>2
    <2> QED
      BY <2>2, <2>3
  <1>6. CASE FailSync
    BY <1>0, <1>6 DEF FailSync, KbBecomes, Kbs
  <1> QED
    BY <1>1, <1>2, <1>3, <1>4, <1>5, <1>6 DEF ChatNext

LEMMA ConfigHoldsStep ==
    ASSUME ChatTypes, ManifestHolds, ConfigHolds, [ChatNext]_chatVars
    PROVE  ConfigHolds' /\ config' \in Nat
  <1> USE DEF ConfigHolds, None
  <1>0. kb \in Kbs /\ config \in Nat
    BY DEF ChatTypes
  <1>1. CASE UNCHANGED chatVars
    BY <1>0, <1>1 DEF chatVars, queryVars
  <1>2. CASE AskInBrowser \/ AskOverApi
    BY <1>0, <1>2 DEF AskInBrowser, AskOverApi, Ask, queryVars
  <1>3. CASE Redact
    BY <1>0, <1>3 DEF Redact, queryVars
  <1>4. CASE LoadKb
    <2>1. kb.status = "ready" /\ stage = "load" /\ UNCHANGED <<kb, used, overtaken>>
      BY <1>4 DEF LoadKb
    <2>2. kb.manifest # 0 /\ kb.built = kb.manifest /\ kb.manifest \in Nat
      BY <1>0, <2>1 DEF ManifestHolds, Kbs
    <2>3. config' = kb.manifest
      BY <1>4, <2>2 DEF LoadKb, WireConfig
    <2>4. used = <<>>
      BY <2>1
    <2> QED
      BY <2>1, <2>2, <2>3, <2>4
  <1>5. CASE Query
    BY <1>0, <1>5 DEF Query
  <1>6. CASE Deliver
    BY <1>0, <1>6 DEF Deliver, Feed, PassOn, Answered, queryVars
  <1>7. CASE Flush
    BY <1>0, <1>7 DEF Flush, queryVars
  <1>8. CASE Finish \/ RequestFails \/ ClientGoes
    BY <1>0, <1>8 DEF Finish, RequestFails, ClientGoes, Ends, Forget
  <1>9. CASE OtherTakes \/ OtherEnds
    BY <1>0, <1>9 DEF OtherTakes, OtherEnds, queryVars
  <1>10. CASE DeployConfig \/ BeginSync \/ CompleteSync \/ FailSync
    <2>1. UNCHANGED <<stage, config, used, overtaken>> /\ kb'.built = kb.built
      BY <1>0, <1>10 DEF DeployConfig, BeginSync, CompleteSync, FailSync, KbBecomes, Kbs
    <2>2. used = <<>>
      BY <1>10 DEF DeployConfig, BeginSync, CompleteSync, FailSync, KbBecomes, Unanswered
    <2> QED
      BY <1>0, <2>1, <2>2
  <1>11. CASE Recreate
    <2>1. UNCHANGED <<stage, config, used>> /\ overtaken' = (config # 0)
      BY <1>11 DEF Recreate, KbBecomes
    <2>2. used = <<>>
      BY <1>11 DEF Recreate, KbBecomes, Unanswered
    <2> QED
      BY <1>0, <2>1, <2>2
  <1> QED
    BY <1>1, <1>2, <1>3, <1>4, <1>5, <1>6, <1>7, <1>8, <1>9, <1>10, <1>11 DEF ChatNext

LEMMA PermitsHeldStep ==
    ASSUME ChatTypes, PermitsHeld, [ChatNext]_chatVars
    PROVE  /\ PermitsHeld'
           /\ mine' \in BOOLEAN /\ others' \in Nat /\ ahead' \in Nat /\ stage' \in Stages
  <1> USE DEF PermitsHeld
  <1>0. /\ mine \in BOOLEAN /\ others \in Nat /\ ahead \in Nat /\ stage \in Stages
        /\ Permits \in Nat \ {0} /\ MaxAhead \in Nat
    BY PermitsArePositive, BoundsAreNumbers DEF ChatTypes
  <1>14. others <= Permits /\ others + 0 = others
    <2>1. CASE mine
      BY <1>0, <2>1
    <2>2. CASE ~mine
      BY <1>0, <2>2
    <2> QED
      BY <2>1, <2>2
  <1>1. CASE UNCHANGED <<mine, others, ahead, stage>>
    BY <1>0, <1>1
  <1>2. CASE AskInBrowser \/ AskOverApi
    BY <1>0, <1>2 DEF AskInBrowser, AskOverApi, Ask, permitVars, Stages
  <1>3. CASE Redact
    BY <1>0, <1>3 DEF Redact, permitVars, Stages
  <1>4. CASE LoadKb
    <2>1. /\ stage = "load" /\ others' = others /\ mine = FALSE
      BY <1>0, <1>4 DEF LoadKb
    <2>2. CASE others < Permits
      BY <1>0, <1>4, <2>1, <2>2 DEF LoadKb, Stages
    <2>3. CASE ~(others < Permits)
      <3>1. stage' = "queue" /\ ahead' \in 0 .. MaxAhead /\ mine' = mine
        BY <1>4, <2>3 DEF LoadKb
      <3>2. others = Permits
        BY <1>0, <2>1, <2>3
      <3> QED
        BY <1>0, <2>1, <3>1, <3>2 DEF Stages
    <2> QED
      BY <2>2, <2>3
  <1>5. CASE Query
    BY <1>0, <1>5 DEF Query, permitVars, Stages
  <1>6. CASE Deliver
    BY <1>0, <1>6 DEF Deliver, Feed, PassOn, Answered, permitVars
  <1>7. CASE Flush
    <2>1. mine' = FALSE /\ others' = others /\ ahead' = ahead /\ stage' = "trailer"
      BY <1>7 DEF Flush, Release
    <2> QED
      BY <1>0, <1>14, <2>1 DEF Stages
  <1>8. CASE Finish
    BY <1>0, <1>8 DEF Finish, Forget, Stages
  <1>9. CASE RequestFails \/ ClientGoes
    <2>1. mine' = FALSE /\ others' = others /\ ahead' = ahead /\ stage' = "idle"
      BY <1>9 DEF RequestFails, ClientGoes, Ends, Release, Forget
    <2> QED
      BY <1>0, <1>14, <2>1 DEF Stages
  <1>10. CASE OtherTakes
    BY <1>0, <1>10 DEF OtherTakes
  <1>11. CASE OtherEnds
    <2>1. CASE stage # "queue"
      BY <1>0, <1>11, <2>1 DEF OtherEnds
    <2>2. CASE stage = "queue" /\ ahead > 0
      BY <1>0, <1>11, <2>2 DEF OtherEnds
    <2>3. CASE stage = "queue" /\ ~(ahead > 0)
      BY <1>0, <1>11, <2>3 DEF OtherEnds, Stages
    <2> QED
      BY <2>1, <2>2, <2>3
  <1>12. CASE DeployConfig \/ BeginSync \/ Recreate \/ CompleteSync \/ FailSync
    <2>1. UNCHANGED <<mine, others, ahead, stage>>
      BY <1>12 DEF DeployConfig, BeginSync, Recreate, CompleteSync, FailSync, KbBecomes, permitVars
    <2> QED
      BY <1>1, <2>1
  <1>13. CASE UNCHANGED chatVars
    BY <1>1, <1>13 DEF chatVars, permitVars
  <1> QED
    BY <1>2, <1>3, <1>4, <1>5, <1>6, <1>7, <1>8, <1>9, <1>10, <1>11, <1>12, <1>13 DEF ChatNext

LEMMA SentIsRedactedStep ==
    ASSUME ChatTypes, SentIsRedacted, [ChatNext]_chatVars
    PROVE  /\ SentIsRedacted' /\ names' \in NameLists
           /\ \E T : history' \in Conversations(T)
           /\ bot' = bot
  <1> USE DEF SentIsRedacted
  <1>0. names \in NameLists /\ bot \in [filter : BOOLEAN, web : BOOLEAN]
    BY DEF ChatTypes
  <1>1. PICK T : history \in Conversations(T)
    BY DEF ChatTypes
  <1>2. <<>> \in NameLists
    <2>1. <<>> \in Seq(Names) /\ Len(<<>>) = 0 /\ Len(Digits) \in Nat
      BY EmptySeq, TextsAreSequences, LenProperties
    <2> QED
      BY <2>1 DEF NameLists
  <1>3. CASE UNCHANGED <<botVars, stage>>
    BY <1>0, <1>1, <1>3 DEF botVars
  <1>4. CASE AskInBrowser \/ AskOverApi
    <2>1. /\ \E q \in Questions : history' = Append(history, [role |-> "user", text |-> q])
          /\ stage' = "redact" /\ UNCHANGED <<bot, sent, names>>
      BY <1>4 DEF AskInBrowser, AskOverApi, Ask
    <2>2. PICK q \in Questions : history' = Append(history, [role |-> "user", text |-> q])
      BY <2>1
    <2>3. \E U : history' \in Conversations(U)
      BY <1>1, <2>2, ConversationGrows
    <2> QED
      BY <1>0, <2>1, <2>3
  <1>5. CASE Redact
    <2>1. UNCHANGED <<bot, history>> /\ stage' = "load"
      BY <1>5 DEF Redact
    <2>2. ConversationNames(history) \in NameLists
      BY <1>1, ConversationNamesList
    <2>3. CASE bot.filter
      <3>1. /\ sent' = [i \in DOMAIN history |-> Redacted(history[i], ConversationNames(history))]
            /\ names' = IF bot.web THEN ConversationNames(history) ELSE <<>>
        BY <1>5, <2>3 DEF Redact
      <3> QED
        BY <1>1, <1>2, <2>1, <2>2, <3>1
    <2>4. CASE ~bot.filter
      <3>1. names' = names
        BY <1>5, <2>4 DEF Redact
      <3> QED
        BY <1>0, <1>1, <2>1, <2>4, <3>1
    <2> QED
      BY <2>3, <2>4
  <1>6. CASE LoadKb
    BY <1>0, <1>1, <1>6 DEF LoadKb, botVars
  <1>7. CASE Query
    BY <1>0, <1>1, <1>7 DEF Query, botVars
  <1>8. CASE Deliver
    BY <1>3, <1>8 DEF Deliver, Feed, PassOn, Answered
  <1>9. CASE Flush
    BY <1>0, <1>1, <1>9 DEF Flush, botVars
  <1>10. CASE Finish
    <2>1. /\ history' = Append(history, [role |-> "assistant", text |-> SelectSeq(shown, IsName)])
          /\ stage' = "idle" /\ names' = <<>> /\ bot' = bot
      BY <1>10 DEF Finish, Forget
    <2> DEFINE text == SelectSeq(shown, IsName)
    <2> HIDE DEF text
    <2>2. \E U : Append(history, [role |-> "assistant", text |-> text]) \in Conversations(U)
      BY <1>1, ConversationGrows
    <2> QED
      BY <1>2, <2>1, <2>2 DEF text
  <1>11. CASE RequestFails \/ ClientGoes
    <2>1. UNCHANGED <<bot, history>> /\ stage' = "idle" /\ names' = <<>>
      BY <1>11 DEF RequestFails, ClientGoes, Ends, Forget
    <2> QED
      BY <1>1, <1>2, <2>1
  <1>12. CASE OtherTakes
    BY <1>3, <1>12 DEF OtherTakes
  <1>13. CASE OtherEnds
    BY <1>0, <1>1, <1>13 DEF OtherEnds, botVars
  <1>14. CASE DeployConfig \/ BeginSync \/ Recreate \/ CompleteSync \/ FailSync
    <2>1. UNCHANGED <<botVars, stage>>
      BY <1>14 DEF DeployConfig, BeginSync, Recreate, CompleteSync, FailSync, KbBecomes
    <2> QED
      BY <1>3, <2>1
  <1>15. CASE UNCHANGED chatVars
    BY <1>3, <1>15 DEF chatVars
  <1> QED
    BY <1>4, <1>5, <1>6, <1>7, <1>8, <1>9, <1>10, <1>11, <1>12, <1>13, <1>14, <1>15 DEF ChatNext

LEMMA HeldBackStep ==
    ASSUME ChatTypes, HeldBack, [ChatNext]_chatVars
    PROVE  /\ HeldBack'
           /\ answer' \in Seq(Characters) /\ buf' \in Seq(Characters)
           /\ shown' \in Seq(Characters)
           /\ overtaken' \in BOOLEAN /\ steps' \in Nat
  <1>0. /\ answer \in Seq(Characters) /\ buf \in Seq(Characters) /\ shown \in Seq(Characters)
        /\ names \in NameLists /\ overtaken \in BOOLEAN /\ steps \in Nat
        /\ <<>> \in Seq(Characters)
    BY EmptySeq DEF ChatTypes
  <1>1. ASSUME stage \notin {"stream", "trailer"}, stage' \notin {"stream", "trailer"},
               UNCHANGED answerVars
        PROVE  HeldBack' /\ UNCHANGED answerVars
    BY <1>1 DEF HeldBack, answerVars
  <1>2. ASSUME HeldBack', UNCHANGED answerVars, overtaken' \in BOOLEAN, steps' \in Nat
        PROVE  /\ HeldBack'
               /\ answer' \in Seq(Characters) /\ buf' \in Seq(Characters)
               /\ shown' \in Seq(Characters)
               /\ overtaken' \in BOOLEAN /\ steps' \in Nat
    BY <1>0, <1>2 DEF answerVars
  <1>3. CASE AskInBrowser \/ AskOverApi \/ Redact \/ LoadKb
    <2>1. /\ stage \notin {"stream", "trailer"} /\ stage' \notin {"stream", "trailer"}
          /\ UNCHANGED answerVars /\ overtaken' = overtaken /\ steps' = steps
      BY <1>3 DEF AskInBrowser, AskOverApi, Ask, Redact, LoadKb, queryVars
    <2> QED
      BY <1>0, <1>1, <1>2, <2>1
  <1>4. CASE Query
    <2>1. /\ stage = "query" /\ stage' = "stream" /\ UNCHANGED answerVars
          /\ bot' = bot /\ names' = names /\ overtaken' = overtaken /\ steps' = steps
      BY <1>4 DEF Query, botVars
    <2>2. answer = <<>> /\ buf = <<>> /\ shown = <<>>
      BY <2>1 DEF HeldBack
    <2>3. /\ answer = <<>> \o buf /\ shown = ByNames(<<>>, names) /\ CutIsSafe(<<>>, buf)
      <3>1. <<>> \o <<>> = <<>>
        BY <1>0, ConcatEmptySeq
      <3>2. Settled(<<>>)
        BY DEF Settled
      <3> QED
        BY <1>0, <2>2, <3>1, <3>2, ByNamesEmpty DEF CutIsSafe
    <2>4. answer' = <<>> \o buf' /\ shown' = ByNames(<<>>, names') /\ CutIsSafe(<<>>, buf')
      BY <2>1, <2>3 DEF answerVars
    <2>5. shown' = answer' /\ buf' = <<>>
      BY <2>1, <2>2 DEF answerVars
    <2>6. HeldBack'
      BY <1>0, <2>1, <2>4, <2>5 DEF HeldBack
    <2> QED
      BY <1>0, <1>2, <2>1, <2>6
  <1>5. CASE Deliver
    <2>1. PICK chunk \in BoundedSeq(Chars, MaxChunk) : Feed(chunk) \/ PassOn(chunk)
      BY <1>5 DEF Deliver
    <2>2. /\ stage = "stream" /\ stage' = "stream" /\ bot' = bot /\ names' = names
          /\ overtaken' = overtaken /\ steps' = steps + Len(chunk) /\ answer' = answer \o chunk
      BY <2>1 DEF Feed, PassOn, Answered, botVars, queryVars
    <2>3. steps' \in Nat /\ chunk \in Seq(Characters)
      BY <1>0, <2>2, ChunksAreTexts
    <2>4. CASE Feed(chunk)
      <3>1. Unredacts /\ Unredacts'
        BY <2>2, <2>4 DEF Feed, Unredacts
      <3>2. /\ answer' \in Seq(Characters) /\ buf' \in Seq(Characters)
            /\ shown' \in Seq(Characters)
            /\ \E read \in Seq(Characters) :
                  /\ answer' = read \o buf' /\ shown' = ByNames(read, names')
                  /\ CutIsSafe(read, buf')
        BY <2>2, <2>4, FeedHoldsBack
      <3>3. HeldBack'
        BY <2>2, <3>1, <3>2 DEF HeldBack
      <3> QED
        BY <1>0, <2>2, <2>3, <3>2, <3>3
    <2>5. CASE PassOn(chunk)
      <3>1. ~Unredacts /\ ~Unredacts' /\ shown' = shown \o chunk /\ buf' = buf
        BY <2>2, <2>5 DEF PassOn, Unredacts
      <3>2. shown' = answer' /\ buf' = <<>>
        BY <2>2, <3>1 DEF HeldBack
      <3>3. HeldBack'
        BY <2>2, <3>1, <3>2 DEF HeldBack
      <3>4. answer' \in Seq(Characters)
        BY <1>0, <2>2, <2>3, ConcatProperties
      <3> QED
        BY <1>0, <2>2, <2>3, <3>1, <3>2, <3>3, <3>4
    <2> QED
      BY <2>1, <2>4, <2>5
  <1>6. CASE Flush
    <2>1. /\ stage' = "trailer" /\ bot' = bot /\ names' = names /\ answer' = answer
          /\ buf' = <<>> /\ overtaken' = overtaken /\ steps' = steps
      BY <1>6 DEF Flush, botVars, queryVars
    <2>2. /\ shown' \in Seq(Characters)
          /\ shown' = IF Unredacts THEN ByNames(answer, names) ELSE answer
      BY <1>6, FlushShowsAll
    <2>3. Unredacts' = Unredacts
      BY <2>1 DEF Unredacts
    <2>4. HeldBack'
      BY <2>1, <2>2, <2>3 DEF HeldBack
    <2> QED
      BY <1>0, <2>1, <2>2, <2>4
  <1>7. CASE Finish \/ RequestFails \/ ClientGoes
    <2>1. /\ stage' = "idle" /\ answer' = <<>> /\ buf' = <<>> /\ shown' = <<>>
          /\ overtaken' = FALSE /\ steps' = steps
      BY <1>7 DEF Finish, RequestFails, ClientGoes, Ends, Forget
    <2>2. HeldBack'
      BY <2>1 DEF HeldBack
    <2> QED
      BY <1>0, <2>1, <2>2
  <1>8. CASE OtherTakes
    <2>1. /\ stage \notin {"stream", "trailer"} /\ stage' = stage
          /\ UNCHANGED answerVars /\ overtaken' = overtaken /\ steps' = steps
      BY <1>8 DEF OtherTakes, queryVars, Unanswered
    <2> QED
      BY <1>0, <1>1, <1>2, <2>1
  <1>9. CASE OtherEnds
    <2>1. /\ UNCHANGED answerVars /\ overtaken' = overtaken /\ steps' = steps
          /\ bot' = bot /\ names' = names
      BY <1>9 DEF OtherEnds, queryVars, botVars
    <2>2. stage' = stage \/ (stage = "queue" /\ stage' = "query")
      BY <1>9 DEF OtherEnds
    <2>3. CASE stage' = stage
      BY <1>0, <1>2, <2>1, <2>3 DEF HeldBack, Unredacts, answerVars
    <2>4. CASE stage = "queue" /\ stage' = "query"
      BY <1>0, <1>1, <1>2, <2>1, <2>4
    <2> QED
      BY <2>2, <2>3, <2>4
  <1>10. CASE DeployConfig \/ BeginSync \/ Recreate \/ CompleteSync \/ FailSync
    <2>1. /\ stage \notin {"stream", "trailer"} /\ stage' = stage /\ UNCHANGED answerVars
      BY <1>10 DEF DeployConfig, BeginSync, Recreate, CompleteSync, FailSync, KbBecomes, Unanswered
    <2>2. overtaken' \in BOOLEAN /\ steps' \in Nat
      <3>1. CASE Recreate
        <4>1. overtaken' = (config # None) /\ steps' = steps
          BY <3>1 DEF Recreate
        <4>2. (config # None) \in BOOLEAN
          OBVIOUS
        <4> QED
          BY <1>0, <4>1, <4>2
      <3>2. CASE DeployConfig \/ BeginSync
        <4>1. overtaken' = overtaken /\ steps' = steps + 1
          BY <3>2 DEF DeployConfig, BeginSync, Event
        <4> QED
          BY <1>0, <4>1
      <3>3. CASE CompleteSync \/ FailSync
        <4>1. overtaken' = overtaken /\ steps' = steps
          BY <3>3 DEF CompleteSync, FailSync
        <4> QED
          BY <1>0, <4>1
      <3> QED
        BY <1>10, <3>1, <3>2, <3>3
    <2> QED
      BY <1>1, <1>2, <2>1, <2>2
  <1>11. CASE UNCHANGED chatVars
    <2>1. UNCHANGED <<answerVars, stage, bot, names, overtaken, steps>>
      BY <1>11 DEF chatVars, botVars, queryVars
    <2> QED
      BY <1>0, <1>2, <2>1 DEF HeldBack, Unredacts, answerVars
  <1> QED
    BY <1>3, <1>4, <1>5, <1>6, <1>7, <1>8, <1>9, <1>10, <1>11 DEF ChatNext

-----------------------------------------------------------------------------
(* What holds of every conversation.                                       *)

\* The types, who holds the permits, what the collection and its manifest say
\* about each other, what a query has read of them, what is held back of an
\* answer, and what the model was sent.
ChatInv ==
    ChatTypes /\ PermitsHeld /\ ManifestHolds /\ ConfigHolds /\ HeldBack /\ SentIsRedacted

LEMMA ChatInvStep == ChatInv /\ [ChatNext]_chatVars => ChatInv'
  <1> SUFFICES ASSUME ChatInv, [ChatNext]_chatVars PROVE ChatInv'
    OBVIOUS
  <1>0. ChatTypes /\ PermitsHeld /\ ManifestHolds /\ ConfigHolds /\ HeldBack /\ SentIsRedacted
    BY DEF ChatInv
  <1>1. ManifestHolds' /\ kb' \in Kbs
    BY <1>0, ManifestHoldsStep
  <1>2. ConfigHolds' /\ config' \in Nat
    BY <1>0, ConfigHoldsStep
  <1>3. /\ PermitsHeld'
        /\ mine' \in BOOLEAN /\ others' \in Nat /\ ahead' \in Nat /\ stage' \in Stages
    BY <1>0, PermitsHeldStep
  <1>4. /\ SentIsRedacted' /\ names' \in NameLists
        /\ \E T : history' \in Conversations(T)
        /\ bot' = bot
    BY <1>0, SentIsRedactedStep
  <1>5. /\ HeldBack'
        /\ answer' \in Seq(Characters) /\ buf' \in Seq(Characters)
        /\ shown' \in Seq(Characters)
        /\ overtaken' \in BOOLEAN /\ steps' \in Nat
    BY <1>0, HeldBackStep
  <1>6. bot' \in [filter : BOOLEAN, web : BOOLEAN]
    BY <1>0, <1>4 DEF ChatTypes
  <1>7. ChatTypes'
    BY <1>1, <1>2, <1>3, <1>4, <1>5, <1>6 DEF ChatTypes
  <1> QED
    BY <1>1, <1>2, <1>3, <1>4, <1>5, <1>7 DEF ChatInv

\* Every reachable state of a conversation is well typed and has the six parts
\* of ChatInv.
THEOREM ChatInvCorrect == ChatSpec => []ChatInv
  <1>1. ChatInit => ChatInv
    BY ChatTypesInit DEF ChatInv
  <1> QED
    BY <1>1, ChatInvStep, PTL DEF ChatSpec

\* The semaphore of chat_with_hayhooks_stream is never overdrawn, and a stream
\* is read from the pipeline with a permit of it, which every way out of the
\* stream gives back.
THEOREM PermitsHeldCorrect == ChatSpec => []PermitsHeld
  <1>1. ChatInv => PermitsHeld
    BY DEF ChatInv
  <1> QED
    BY <1>1, ChatInvCorrect, PTL

\* A query uses the config of the collection it is put to, whatever was deployed,
\* rebuilt or left half rebuilt before the knowledge base was loaded
\* (chat_with_kb_stream), unless a sync recreated the collection between the
\* loading and the query.
THEOREM QueryMatchesCollectionCorrect == ChatSpec => []QueryMatchesCollection
  <1>1. ChatInv => QueryMatchesCollection
    BY DEF ChatInv, ConfigHolds, QueryMatchesCollection
  <1> QED
    BY <1>1, ChatInvCorrect, PTL

LEMMA PrefixOfConcat ==
    ASSUME NEW t \in Seq(Characters), NEW u \in Seq(Characters)
    PROVE  IsPrefix(t, t \o u)
  <1>1. /\ t \o u \in Seq(Characters) /\ Len(t \o u) = Len(t) + Len(u)
        /\ Len(t) \in Nat /\ Len(u) \in Nat
    BY ConcatProperties, LenProperties
  <1>2. SubSeq(t, 1, Len(t)) = SubSeq(t \o u, 1, Len(t))
    <2>1. CASE Len(t) = 0
      <3>1. SubSeq(t, 1, Len(t)) = <<>> /\ SubSeq(t \o u, 1, Len(t)) = <<>>
        BY <1>1, <2>1, SubSeqEmpty
      <3> QED
        BY <3>1
    <2>2. CASE Len(t) # 0
      <3>1. 1 \in 1 .. Len(t) /\ Len(t) \in 1 .. Len(t)
        BY <1>1, <2>2
      <3> QED
        BY <3>1, SubSeqOfConcat1
    <2> QED
      BY <2>1, <2>2
  <1> QED
    BY <1>1, <1>2 DEF IsPrefix

LEMMA PrefixOfSelf ==
    ASSUME NEW t \in Seq(Characters)
    PROVE  IsPrefix(t, t)
  BY LenProperties DEF IsPrefix

\* However an answer is cut into chunks, what the user was shown of it is a
\* beginning of the answer with its names restored, and once the stream is
\* flushed all of it: StreamUnredactor cuts no placeholder and passes each on
\* once.
THEOREM AnswerIsRestoredCorrect == ChatSpec => []AnswerIsRestored
  <1>1. ASSUME ChatInv PROVE AnswerIsRestored
    <2>1. ChatTypes /\ HeldBack
      BY <1>1 DEF ChatInv
    <2>2. answer \in Seq(Characters) /\ buf \in Seq(Characters) /\ names \in NameLists
      BY <2>1 DEF ChatTypes
    <2> DEFINE meant == IF Unredacts THEN Restored(answer) ELSE answer
    <2>3. meant = IF Unredacts THEN ByNames(answer, names) ELSE answer
      BY RestoredByNames
    <2>4. ASSUME stage = "stream" PROVE IsPrefix(shown, meant)
      <3>1. CASE Unredacts
        <4>1. PICK read \in Seq(Characters) :
                  answer = read \o buf /\ shown = ByNames(read, names) /\ CutIsSafe(read, buf)
          BY <2>1, <2>4, <3>1 DEF HeldBack
        <4>2. ByNames(read \o buf, names) = ByNames(read, names) \o ByNames(buf, names)
          BY <2>2, <4>1, ByNamesConcat
        <4>3. ByNames(read, names) \in Seq(Characters) /\ ByNames(buf, names) \in Seq(Characters)
          BY <2>2, <4>1, ByNamesIsText
        <4>4. IsPrefix(ByNames(read, names), ByNames(read, names) \o ByNames(buf, names))
          BY <4>3, PrefixOfConcat
        <4>5. meant = ByNames(read, names) \o ByNames(buf, names)
          BY <2>3, <3>1, <4>1, <4>2
        <4> QED
          BY <4>1, <4>4, <4>5
      <3>2. CASE ~Unredacts
        <4>1. shown = answer /\ meant = answer
          BY <2>1, <2>4, <3>2 DEF HeldBack
        <4> QED
          BY <2>2, <4>1, PrefixOfSelf
      <3> QED
        BY <3>1, <3>2
    <2>5. ASSUME stage = "trailer" PROVE shown = meant
      BY <2>1, <2>3, <2>5 DEF HeldBack
    <2> QED
      BY <2>4, <2>5 DEF AnswerIsRestored
  <1> QED
    BY <1>1, ChatInvCorrect, PTL

\* In whatever turns names appear, redact_messages sends the model none of a
\* user's message, and the placeholders it sends, which it numbered for the
\* message and then for the conversation, stand for the names that were there.
THEOREM RedactionIsReversibleCorrect == ChatSpec => []RedactionIsReversible
  <1>1. ASSUME ChatInv PROVE RedactionIsReversible
    <2> SUFFICES ASSUME bot.filter, stage \notin {"idle", "redact"},
                        NEW i \in DOMAIN sent, history[i].role = "user"
                 PROVE  /\ Range(sent[i].text) \intersect Names = {}
                        /\ bot.web => Restored(sent[i].text) = history[i].text
      BY DEF RedactionIsReversible
    <2>1. /\ sent = [k \in DOMAIN history |-> Redacted(history[k], ConversationNames(history))]
          /\ bot.web => names = ConversationNames(history)
      BY <1>1 DEF ChatInv, SentIsRedacted
    <2>2. PICK T : history \in Conversations(T)
      BY <1>1 DEF ChatInv, ChatTypes
    <2>3. i \in DOMAIN history /\ sent[i] = Redacted(history[i], ConversationNames(history))
      BY <2>1
    <2> DEFINE global == ConversationNames(history)
    <2>4. /\ Range(Redacted(history[i], global).text) \intersect Names = {}
          /\ Substitute(Redacted(history[i], global).text, [n \in DOMAIN global |-> <<global[n]>>])
                = history[i].text
      BY <2>2, <2>3, RedactedRestores
    <2> HIDE DEF global
    <2>5. ASSUME bot.web PROVE Restored(sent[i].text) = history[i].text
      <3>1. names = global /\ sent[i] = Redacted(history[i], global)
        BY <2>1, <2>3, <2>5 DEF global
      <3>2. Restored(sent[i].text) = Substitute(sent[i].text, [n \in DOMAIN global |-> <<global[n]>>])
        BY <3>1 DEF Restored
      <3> QED
        BY <2>4, <3>1, <3>2
    <2> QED
      BY <2>3, <2>4, <2>5 DEF global
  <1> QED
    BY <1>1, ChatInvCorrect, PTL

=============================================================================
