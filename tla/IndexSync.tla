------------------------------ MODULE IndexSync ------------------------------
(***************************************************************************)
(* One knowledge base's vector index and the syncs that fill it: the       *)
(* worker's comparison of storage with the index, the per-file ingestion   *)
(* by the rag-pipeline, and the index manifest the API stamps when a sync  *)
(* completes.                                                              *)
(*                                                                         *)
(* A file's version stands for its content etag and OCR setting together,  *)
(* which the worker compares together; a chunk has the version it is       *)
(* stamped with, the one that was collected.  A version of a file is       *)
(* indexed as the two Parts of its chunks.  A config stands for the        *)
(* embedding identity that the manifest's fingerprint covers.              *)
(*                                                                         *)
(* Syncs run one after the other (IngestionJobs says when they overlap),   *)
(* but the pipeline jobs of one may outlive it.                            *)
(***************************************************************************)
EXTENDS Naturals, FiniteSets

CONSTANTS
    Files,        \* files that can be selected in the KB
    Keys,         \* what the index identifies a file by: its id or its name
    Key,          \* the key of each file
    MaxVersion,   \* bound: versions of a file
    MaxConfig,    \* bound: embedding configs, each newer than the last
    MaxFaults,    \* bound: failures in a behaviour
    MaxEdits      \* bound: uploads, deletions, redeployments, forced requests

ASSUME IndexAssumption ==
    /\ IsFiniteSet(Files)
    /\ Key \in [Files -> Keys]
    /\ MaxVersion \in Nat \ {0}
    /\ MaxConfig \in Nat \ {0}
    /\ MaxFaults \in Nat
    /\ MaxEdits \in Nat

VARIABLES
    storage,    \* the version of each file in storage, or Gone
    desired,    \* desired_manifest(): the config of the settings
    manifest,   \* KnowledgeBase.index_manifest, or NoConfig
    built,      \* the config the Qdrant collection was created with, or NoConfig
    chunks,     \* the chunks in the collection
    remote,     \* the rag-pipeline's unfinished jobs
    sync,       \* the sync the worker is running
    edits,      \* edits so far
    faults,     \* failures so far
    unseen      \* history: what went wrong without any sync noticing

indexVars == <<built, chunks>>
faultVars == <<faults, unseen>>
vars == <<storage, desired, manifest, indexVars, remote, sync, edits, faultVars>>

\* What nobody notices: a collection kept by a forced sync that found nothing; a
\* config that changed during a sync; a listing that broke off; orphans or stale
\* chunks that were not deleted; a pipeline that failed midway through its writes
\* or outlived the wait for it.
Unseen == {"nothingBuilt", "redeploy", "listing", "orphanDelete", "staleDelete",
           "partialWrite", "outlive"}

Versions == 1 .. MaxVersion
Gone == 0
Configs == 1 .. MaxConfig
NoConfig == 0
Parts == {1, 2}

Chunks == [file : Files, version : Versions, config : Configs, part : Parts]

\* A pipeline job ingests one file, recreating the collection first if asked.
Jobs == [file : Files, version : Versions, config : Configs, recreate : BOOLEAN]
NoJob == [recreate |-> FALSE]

Phases == {"idle", "collect", "compare", "prepare", "ingest", "submit", "await",
           "completed"}

Syncs == [phase : Phases,
          force : BOOLEAN,
          config : Configs,
          selected : BOOLEAN,         \* some datasource of the payload selects files
          wanted : [Files -> Versions \cup {Gone}],  \* selected, then collected
          todo : SUBSET Files,        \* files not ingested yet
          replace : SUBSET Keys,      \* keys_to_replace
          recreate : BOOLEAN,         \* pending_recreate
          job : Jobs \cup {NoJob},    \* the pipeline job of the current file
          ok : SUBSET Files,          \* stats: succeeded, skipped, failed
          skipped : SUBSET Files,
          bad : SUBSET Files]

NoSync == [phase |-> "idle", force |-> FALSE, config |-> 1, selected |-> FALSE,
           wanted |-> [f \in Files |-> Gone], todo |-> {}, replace |-> {},
           recreate |-> FALSE, job |-> NoJob, ok |-> {}, skipped |-> {}, bad |-> {}]

\* Type invariant: the objects, the index and the sync in hand.
TypeOK ==
    /\ storage \in [Files -> Versions \cup {Gone}]
    /\ desired \in Configs
    /\ manifest \in Configs \cup {NoConfig}
    /\ built \in Configs \cup {NoConfig}
    /\ chunks \subseteq Chunks
    /\ remote \subseteq Jobs
    /\ sync \in Syncs
    /\ edits \in 0 .. MaxEdits
    /\ faults \in 0 .. MaxFaults
    /\ unseen \subseteq Unseen

Stored(objects) == {f \in Files : objects[f] # Gone}

Init ==
    /\ storage \in [Files -> {1, Gone}]
    /\ Stored(storage) # {}
    /\ desired = 1
    /\ manifest = NoConfig
    /\ built = NoConfig
    /\ chunks = {}
    /\ remote = {}
    /\ sync = NoSync
    /\ edits = 0
    /\ faults = 0
    /\ unseen = {}

-----------------------------------------------------------------------------

\* A failure that the sync sees, and one that it does not.
Fault == faults < MaxFaults /\ faults' = faults + 1 /\ UNCHANGED unseen
UnseenFault(what) == faults < MaxFaults /\ faults' = faults + 1 /\ unseen' = unseen \cup {what}

ChunksOf(f) == {c \in chunks : c.file = f}
ChunksUnder(K) == {c \in chunks : Key[c.file] \in K}

-----------------------------------------------------------------------------
(* What happens around a sync.                                             *)

\* An upload, a change of content or OCR setting, a deselection or deletion.
EditFile(f) ==
    /\ edits < MaxEdits
    /\ edits' = edits + 1
    /\ \E v \in Versions \cup {Gone} : v # storage[f] /\ storage' = [storage EXCEPT ![f] = v]
    /\ UNCHANGED <<desired, manifest, indexVars, remote, sync, faultVars>>

\* The settings change with a deployment.
Redeploy ==
    /\ edits < MaxEdits
    /\ edits' = edits + 1
    /\ desired < MaxConfig
    /\ desired' = desired + 1
    /\ \/ sync.phase = "idle" /\ UNCHANGED faultVars
       \/ sync.phase # "idle" /\ UnseenFault("redeploy")
    /\ UNCHANGED <<storage, manifest, indexVars, remote, sync>>

-----------------------------------------------------------------------------
(* The trigger, in the API.                                                *)

\* rebuild_decision: no manifest, or one whose fingerprint has drifted.
RebuildNeeded == manifest # desired

\* trigger_reindex and prepare_haystack_sync, on a schedule or on request: a
\* forced sync builds with the desired config, an incremental one adds with the
\* config of the manifest.  The selection is fixed here.
Trigger ==
    /\ sync.phase = "idle"
    /\ \E asked, selected \in BOOLEAN :
          /\ \/ asked /\ edits < MaxEdits /\ edits' = edits + 1
             \/ ~asked /\ UNCHANGED edits
          /\ selected \/ Stored(storage) = {}
          /\ LET force == asked \/ RebuildNeeded IN
             sync' = [NoSync EXCEPT !.phase = "collect",
                                    !.force = force,
                                    !.config = IF force THEN desired ELSE manifest,
                                    !.selected = selected,
                                    !.wanted = storage,
                                    !.recreate = force]
    /\ UNCHANGED <<storage, desired, manifest, indexVars, remote, faultVars>>

-----------------------------------------------------------------------------
(* The worker.                                                             *)

\* The current file is over and the next one may start.
FileEnds(stats) == [stats EXCEPT !.phase = "ingest", !.job = NoJob]
FileFails == FileEnds([sync EXCEPT !.bad = @ \cup {sync.job.file}])

\* A file that was deselected or deleted, or selected, since the trigger may be
\* found or not.
Found(f) ==
    IF sync.wanted[f] # Gone /\ storage[f] # Gone THEN {storage[f]}
    ELSE {sync.wanted[f], storage[f]}

\* What it finds in storage; a listing that breaks off keeps what it had.
\* Objects that vanished upstream are pruned from the index, best effort.
Collect ==
    /\ sync.phase = "collect"
    /\ \E listed \in SUBSET Files, objects \in [Files -> Versions \cup {Gone}] :
          /\ \/ listed = Files /\ UNCHANGED faultVars
             \/ listed # Files /\ UnseenFault("listing")
          /\ \A f \in Files : objects[f] \in IF f \in listed THEN Found(f) ELSE {Gone}
          /\ sync' = [sync EXCEPT !.phase = "compare", !.wanted = objects]
    /\ \E pruned \in SUBSET {f \in Files : storage[f] = Gone} :
          chunks' = {c \in chunks : c.file \notin pruned}
    /\ UNCHANGED <<storage, desired, manifest, built, remote, edits>>

\* A forced sync that ingests no file builds nothing.
NothingBuilt == unseen \cup {what \in {"nothingBuilt"} : sync.force}

\* Nothing was collected though something is selected: the index is left alone.
CompareNothing ==
    /\ sync.phase = "compare"
    /\ Stored(sync.wanted) = {}
    /\ sync.selected
    /\ sync' = [sync EXCEPT !.phase = "ingest"]
    /\ unseen' = NothingBuilt
    /\ UNCHANGED <<storage, desired, manifest, indexVars, remote, edits, faults>>

\* Nothing is selected: what is indexed is deleted, where the delete may return
\* success with its errors in the body.
ClearIndex ==
    /\ sync.phase = "compare"
    /\ Stored(sync.wanted) = {}
    /\ ~sync.selected
    /\ sync' = [sync EXCEPT !.phase = "ingest"]
    /\ \/ chunks' = {} /\ unseen' = NothingBuilt /\ UNCHANGED faults
       \/ /\ faults < MaxFaults
          /\ faults' = faults + 1
          /\ unseen' = NothingBuilt \cup {"orphanDelete"}
          /\ \E left \in SUBSET Keys : chunks' = ChunksUnder(left)
    /\ UNCHANGED <<storage, desired, manifest, built, remote, edits>>

CompareForced ==
    /\ sync.phase = "compare"
    /\ Stored(sync.wanted) # {}
    /\ sync.force
    /\ sync' = [sync EXCEPT !.phase = "prepare", !.todo = Stored(sync.wanted)]
    /\ UNCHANGED <<storage, desired, manifest, indexVars, remote, edits, faultVars>>

\* The inventory has one version for each key: that of the chunk it met first.
IsInventory(inventory) ==
    \A k \in Keys :
       IF ChunksUnder({k}) = {} THEN inventory[k] = Gone
       ELSE \E c \in ChunksUnder({k}) : inventory[k] = c.version

\* Mutant of Unchanged: whatever is indexed is skipped.
UnchangedIfIndexed(inventory) == {f \in Stored(sync.wanted) : inventory[Key[f]] # Gone}

\* _partition_by_inventory.
Unchanged(inventory) ==
    {f \in Stored(sync.wanted) : inventory[Key[f]] = sync.wanted[f]}

\* Mutant of Orphans: files no longer wanted are left to the next forced sync.
OrphansIgnored(inventory) == {}

\* _delete_index_orphans.
Orphans(inventory) ==
    {k \in Keys : inventory[k] # Gone /\ \A f \in Stored(sync.wanted) : Key[f] # k}

\* Unchanged files are skipped, indexed files no longer wanted are deleted, best
\* effort, and the rest is to be ingested, replacing what the index has of it.
CompareIncremental ==
    /\ sync.phase = "compare"
    /\ Stored(sync.wanted) # {}
    /\ ~sync.force
    /\ \E inventory \in [Keys -> Versions \cup {Gone}] :
          /\ IsInventory(inventory)
          /\ LET todo == Stored(sync.wanted) \ Unchanged(inventory) IN
             sync' = [sync EXCEPT !.phase = "prepare",
                                  !.todo = todo,
                                  !.skipped = Unchanged(inventory),
                                  !.replace = {k \in Keys : /\ inventory[k] # Gone
                                                            /\ \E f \in todo : Key[f] = k}]
          /\ \/ /\ chunks' = chunks \ ChunksUnder(Orphans(inventory))
                /\ UNCHANGED faultVars
             \/ /\ UnseenFault("orphanDelete")
                /\ \E deleted \in SUBSET Orphans(inventory) :
                      chunks' = chunks \ ChunksUnder(deleted)
    /\ UNCHANGED <<storage, desired, manifest, built, remote, edits>>

\* Without its inventory an incremental sync, or the emptying of an index, fails.
InventoryFails ==
    /\ sync.phase = "compare"
    /\ ~sync.force \/ (Stored(sync.wanted) = {} /\ ~sync.selected)
    /\ Fault
    /\ sync' = NoSync
    /\ UNCHANGED <<storage, desired, manifest, indexVars, remote, edits>>

\* Every file is downloaded and preprocessed before the first is ingested; one
\* that was deleted meanwhile is not there, one that was changed keeps the stamp of
\* its collection.
Prepare ==
    /\ sync.phase = "prepare"
    /\ \E lost \in SUBSET sync.todo :
          /\ \/ lost \cap Stored(storage) = {} /\ UNCHANGED faultVars
             \/ lost \cap Stored(storage) # {} /\ Fault
          /\ sync' = [sync EXCEPT !.phase = "ingest", !.todo = @ \ lost, !.bad = lost]
    /\ UNCHANGED <<storage, desired, manifest, indexVars, remote, edits>>

\* _ingest_one_file up to its submission.  The delete of the stale chunks may
\* raise, which fails the file, or return success with its errors in the body.
StartFile(f) ==
    /\ sync.phase = "ingest"
    /\ f \in sync.todo
    /\ LET started == [sync EXCEPT !.todo = @ \ {f},
                                   !.phase = "submit",
                                   !.job = [file |-> f, version |-> sync.wanted[f],
                                            config |-> sync.config,
                                            recreate |-> sync.recreate]]
           replaced == [started EXCEPT !.replace = @ \ {Key[f]}]
       IN
       \/ /\ Key[f] \notin sync.replace
          /\ sync' = started
          /\ UNCHANGED <<chunks, faultVars>>
       \/ /\ Key[f] \in sync.replace
          /\ \/ /\ chunks' = chunks \ ChunksUnder({Key[f]})
                /\ sync' = replaced
                /\ UNCHANGED faultVars
             \/ UnseenFault("staleDelete") /\ sync' = replaced /\ UNCHANGED chunks
             \/ /\ Fault
                /\ sync' = [sync EXCEPT !.todo = @ \ {f}, !.bad = @ \cup {f}]
                /\ UNCHANGED chunks
    /\ UNCHANGED <<storage, desired, manifest, built, remote, edits>>

\* A submission that raises may have been accepted.
Submit ==
    /\ sync.phase = "submit"
    /\ \/ /\ remote' = remote \cup {sync.job}
          /\ sync' = [sync EXCEPT !.phase = "await"]
          /\ UNCHANGED faultVars
       \/ Fault /\ sync' = FileFails /\ UNCHANGED remote
       \/ UnseenFault("outlive") /\ sync' = FileFails /\ remote' = remote \cup {sync.job}
    /\ UNCHANGED <<storage, desired, manifest, indexVars, edits>>

\* The polling ends without the job: a timeout, or lost connections.
GiveUp ==
    /\ sync.phase = "await"
    /\ sync' = FileFails
    /\ \/ Fault /\ remote' = remote \ {sync.job}
       \/ UnseenFault("outlive") /\ UNCHANGED remote
    /\ UNCHANGED <<storage, desired, manifest, indexVars, edits>>

\* The job is cancelled, the worker dies, or something the whole sync needs
\* fails; once completed, the job row turns out to be cancelled.
EndSync ==
    /\ sync.phase # "idle"
    /\ sync' = NoSync
    /\ \/ Fault /\ remote' = remote \ {sync.job}
       \/ UnseenFault("outlive") /\ sync.job \in remote /\ UNCHANGED remote
    /\ UNCHANGED <<storage, desired, manifest, indexVars, edits>>

\* Mutant of Report: a sync that indexed nothing completes all the same.
ReportAlwaysCompletes ==
    /\ sync.phase = "ingest"
    /\ sync.todo = {}
    /\ sync' = [sync EXCEPT !.phase = "completed"]
    /\ UNCHANGED <<storage, desired, manifest, indexVars, remote, edits, faultVars>>

\* The outcome: no file indexed and some failed is a failure.
Report ==
    /\ sync.phase = "ingest"
    /\ sync.todo = {}
    /\ sync' = IF sync.ok \cup sync.skipped = {} /\ sync.bad # {} THEN NoSync
               ELSE [sync EXCEPT !.phase = "completed"]
    /\ UNCHANGED <<storage, desired, manifest, indexVars, remote, edits, faultVars>>

-----------------------------------------------------------------------------
(* The rag-pipeline.  The end of a job and the poll that learns of it are one *)
(* step.                                                                      *)

Awaited(h) == sync.phase = "await" /\ sync.job = h
Result(h, synced) == sync' = IF Awaited(h) THEN synced ELSE sync

\* The store is recreated when it is set up or with the first write to it.
RemoteRecreate(h) ==
    /\ h.recreate
    /\ chunks' = {}
    /\ built' = h.config
    /\ remote' = (remote \ {h}) \cup {[h EXCEPT !.recreate = FALSE]}
    /\ Result(h, [sync EXCEPT !.job.recreate = FALSE])
    /\ UNCHANGED <<storage, desired, manifest, edits, faultVars>>

\* DuplicatePolicy.SKIP: a chunk of the same content and stamps stays as it was.
Write(h, parts) ==
    LET kept == IF h.recreate THEN {} ELSE chunks IN
    /\ chunks' = kept \cup
          {c \in Chunks : /\ c.file = h.file /\ c.version = h.version
                          /\ c.config = h.config /\ c.part \in parts
                          /\ ~\E d \in kept : [d EXCEPT !.config = c.config] = c}
    /\ built' = IF h.recreate \/ built = NoConfig THEN h.config ELSE built
    /\ remote' = remote \ {h}

\* Mutant of Succeeds: pending_recreate stays set after the first file.
SucceedsStillRecreating == FileEnds([sync EXCEPT !.ok = @ \cup {sync.job.file}])

\* The recreation is honoured once: the next file adds to what this one wrote.
Succeeds == FileEnds([sync EXCEPT !.ok = @ \cup {sync.job.file}, !.recreate = FALSE])

RemoteWrite(h) ==
    /\ Write(h, Parts)
    /\ Result(h, Succeeds)
    /\ UNCHANGED <<storage, desired, manifest, edits, faultVars>>

\* The pipeline fails, or parses no text, before it writes anything ...
RemoteFail(h) ==
    /\ Fault
    /\ remote' = remote \ {h}
    /\ Result(h, FileFails)
    /\ UNCHANGED <<storage, desired, manifest, indexVars, edits>>

\* ... or after it has written some of the chunks.
RemoteFailMidway(h) ==
    /\ UnseenFault("partialWrite")
    /\ Write(h, {1})
    /\ Result(h, FileFails)
    /\ UNCHANGED <<storage, desired, manifest, edits>>

-----------------------------------------------------------------------------
(* The completion, in the API.                                             *)

\* Mutant of Stamp: only a KB without a manifest gets one.
StampOnlyMissing ==
    /\ sync.phase = "completed"
    /\ manifest' = IF manifest = NoConfig THEN desired ELSE manifest
    /\ sync' = NoSync
    /\ UNCHANGED <<storage, desired, indexVars, remote, edits, faultVars>>

\* handle_knowledgebase_sync_completion stamps whatever is desired by then.
Stamp ==
    /\ sync.phase = "completed"
    /\ manifest' = IF sync.force \/ manifest = NoConfig THEN desired ELSE manifest
    /\ sync' = NoSync
    /\ UNCHANGED <<storage, desired, indexVars, remote, edits, faultVars>>

-----------------------------------------------------------------------------

SyncStep ==
    \/ Collect \/ CompareNothing \/ ClearIndex \/ CompareForced \/ CompareIncremental
    \/ Prepare \/ (\E f \in Files : StartFile(f)) \/ Submit \/ Report \/ Stamp

Next ==
    \/ SyncStep \/ Trigger \/ InventoryFails \/ GiveUp \/ EndSync
    \/ \E h \in remote :
          RemoteRecreate(h) \/ RemoteWrite(h) \/ RemoteFail(h) \/ RemoteFailMidway(h)
    \/ \E f \in Files : EditFile(f)
    \/ Redeploy

Spec == Init /\ [][Next]_vars

\* The scheduler keeps triggering syncs, a sync runs on, a pipeline job ends.
Fairness ==
    /\ WF_vars(Trigger)
    /\ WF_vars(SyncStep)
    /\ WF_vars(\E h \in remote : RemoteWrite(h))

FairSpec == Spec /\ Fairness

-----------------------------------------------------------------------------
(* Properties.                                                             *)

Serves(f, objects) ==
    {<<c.version, c.part>> : c \in ChunksOf(f)} =
        IF objects[f] = Gone THEN {} ELSE {objects[f]} \X Parts

\* Every file a sync counts as succeeded or skipped is in the index from then to
\* the end of the sync: entirely, in the version collected, and in no other.  A
\* stale chunk that was not deleted, a partial write and a job that outlived the
\* wait for it are the only ways out.
ReportedIsIndexed ==
    unseen \cap {"staleDelete", "partialWrite", "outlive"} = {} =>
        \A f \in sync.ok \cup sync.skipped : Serves(f, sync.wanted)

\* A completed sync leaves nothing that is not selected any more to be cited,
\* unless it found nothing at all (_should_clear_index leaves the index alone).
CompletedServesOnlySelection ==
    /\ sync.phase = "completed"
    /\ Stored(sync.wanted) # {} \/ ~sync.selected
    /\ unseen \cap {"orphanDelete", "outlive"} = {}
    => \A c \in chunks : sync.wanted[c.file] # Gone

\* "new chunks match the existing vectors; otherwise a pending model swap corrupts
\* the collection" (knowledgebase_service.py:502-504): an incremental sync only
\* ever adds to a collection that was built with its own config, throughout.
IncrementalMatchesCollection ==
    /\ sync.phase # "idle" /\ ~sync.force
    /\ unseen \cap {"nothingBuilt", "redeploy", "outlive"} = {}
    => /\ built \in {sync.config, NoConfig}
       /\ \A c \in chunks : c.config = sync.config

\* Once nobody edits any more and nothing fails any more, the index comes to serve
\* exactly the files selected, each under its current stamp, whatever failed, was
\* cancelled or died before.
IndexConverges ==
    <>[](\/ \A f \in Files : Serves(f, storage)
         \/ Stored(storage) = {}
         \/ unseen \cap {"staleDelete", "partialWrite", "outlive"} # {})

\* Whatever happens, a KB whose config has drifted from the desired one is rebuilt
\* and stamped in the end, and stays so.
DriftIsRepaired == <>[](manifest = desired)

=============================================================================
