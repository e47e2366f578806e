---------------------------- MODULE MoodleContent ----------------------------
(***************************************************************************)
(* The copy of a Moodle datasource's courses in object storage: the        *)
(* reconcile check of an ingestion, the download of a course, the manifest *)
(* that records what was downloaded, the pruning of what Moodle no longer  *)
(* has, and the collection of what an ingestion will index.                *)
(*                                                                         *)
(* An item is a file of an activity or a text generated from the export; a *)
(* version stands for its content and for the hash of that content.  The   *)
(* three workers take their messages from the same queues, so two syncs of *)
(* one datasource may overlap.  A worker that dies loses its message, which *)
(* was acknowledged when it was claimed.                                   *)
(***************************************************************************)
EXTENDS Naturals, FiniteSets

CONSTANTS
    Courses,     \* the courses of the datasource
    Items,       \* their files and texts
    CourseOf,    \* the course of each item
    ActivityOf,  \* the activity of each item
    Texts,       \* items generated from the export; the others are downloaded
    Unhashed,    \* files whose contenthash an older Moodle plugin omits
    Under,       \* the courses whose storage path begins with a course's path
    Workers,
    MaxVersion,  \* bound: versions of an item
    MaxEdits,    \* bound: edits in Moodle
    MaxFaults    \* bound: failed requests and dead workers

ASSUME MoodleAssumption ==
    /\ CourseOf \in [Items -> Courses]
    /\ Texts \subseteq Items
    /\ Unhashed \subseteq Items \ Texts
    /\ Under \in [Courses -> SUBSET Courses]
    /\ \A c \in Courses : c \in Under[c]
    /\ MaxVersion \in Nat \ {0}
    /\ MaxEdits \in Nat
    /\ MaxFaults \in Nat

VARIABLES
    course,    \* each item in Moodle: not there yet, its version, or removed
    objects,   \* the version of each item's object in storage, or None
    manifest,  \* the hash of each item in its course's manifest, or None
    sync,      \* what each worker is doing
    served,    \* what the last ingestion collected of each item, or None
    edits, faults

counters == <<edits, faults>>
vars == <<course, objects, manifest, sync, served, counters>>

None == 0
Versions == 1 .. MaxVersion
Removed == MaxVersion + 1
Copies == {None} \cup Versions

Phases == {"idle", "check", "export", "files", "texts", "list", "prune", "collect"}

Syncs == [phase : Phases,
          ingest : BOOLEAN,            \* ensure_content and collect_files, or sync_content
          force : BOOLEAN,
          selected : SUBSET Courses,   \* the course selections of the message
          todo : SUBSET Courses,       \* selections not checked yet
          fetch : SUBSET Courses,      \* missing_files: courses to download
          current : SUBSET Courses,    \* the course being downloaded
          export : [Items -> Copies],  \* its export
          left : SUBSET Items,         \* items not downloaded or uploaded yet
          held : SUBSET (Items \X Versions),  \* the downloaded file, not uploaded yet
          got : [Items -> Copies],     \* the manifest being built
          denied : BOOLEAN,            \* access_denied > 0
          stale : SUBSET Items,        \* objects listed for pruning
          since : Nat]                 \* edits and faults when the sync began

Nothing == [i \in Items |-> None]
Idle == [phase |-> "idle", ingest |-> FALSE, force |-> FALSE, selected |-> {},
         todo |-> {}, fetch |-> {}, current |-> {}, export |-> Nothing, left |-> {},
         held |-> {}, got |-> Nothing, denied |-> FALSE, stale |-> {}, since |-> 0]

\* Type invariant: Moodle, the objects, the manifests and the syncs in hand.
TypeOK ==
    /\ course \in [Items -> 0 .. Removed]
    /\ objects \in [Items -> Copies]
    /\ manifest \in [Items -> Copies]
    /\ sync \in [Workers -> Syncs]
    /\ served \in [Items -> Copies]
    /\ edits \in 0 .. MaxEdits
    /\ faults \in 0 .. MaxFaults

Init ==
    /\ course \in [Items -> {None, 1}]
    /\ objects = Nothing
    /\ manifest = Nothing
    /\ sync = [w \in Workers |-> Idle]
    /\ served = Nothing
    /\ edits = 0
    /\ faults = 0

-----------------------------------------------------------------------------

ItemsOf(c) == {i \in Items : CourseOf[i] = c}

\* What Moodle serves of an item now.
Live(i) == IF course[i] \in Versions THEN course[i] ELSE None

\* list_objects by the path of a course, a prefix match.
Listed(c) == {i \in Items : objects[i] # None /\ CourseOf[i] \in Under[c]}

Fault == faults < MaxFaults /\ faults' = faults + 1

Become(w, state) == sync' = [sync EXCEPT ![w] = state]

\* A file is added, changed or removed in Moodle; content does not come back.
EditCourse(i) ==
    /\ edits < MaxEdits
    /\ edits' = edits + 1
    /\ \E v \in 1 .. Removed : v > course[i] /\ course' = [course EXCEPT ![i] = v]
    /\ UNCHANGED <<objects, manifest, sync, served, faults>>

-----------------------------------------------------------------------------
(* The start of a sync, and the reconcile check of an ingestion.           *)

\* A content sync downloads what it is told; an ingestion checks it first.
StartSync(w) ==
    /\ sync[w].phase = "idle"
    /\ \E ingest, force \in BOOLEAN, chosen \in SUBSET Courses \ {{}} :
          /\ force => ingest
          /\ Become(w, [Idle EXCEPT !.phase = IF ingest THEN "check" ELSE "export",
                                    !.ingest = ingest,
                                    !.force = force,
                                    !.selected = chosen,
                                    !.todo = IF ingest THEN chosen ELSE {},
                                    !.fetch = IF ingest THEN {} ELSE chosen,
                                    !.since = edits + faults])
    /\ UNCHANGED <<course, objects, manifest, served, edits, faults>>

\* Mutant of Diverges: an in-place edit keeps its object's name.
DivergesByName(c) ==
    LET expected == {i \in ItemsOf(c) : Live(i) # None} IN
    \/ expected \ Listed(c) # {}
    \/ Listed(c) \ expected # {}

\* Storage differs from a fresh export: missing, stale or changed objects.
Diverges(c) ==
    LET expected == {i \in ItemsOf(c) : Live(i) # None} IN
    \/ expected \ Listed(c) # {}
    \/ Listed(c) \ expected # {}
    \/ \E i \in (expected \cap Listed(c)) \ Unhashed : manifest[i] # Live(i)

\* Mutant of AfterCheck: the first course found missing ends the check.
AfterFirstMissing(s) ==
    [s EXCEPT !.phase = IF s.fetch # {} THEN "export"
                        ELSE IF s.todo # {} THEN "check" ELSE "collect"]

\* After a check: the next one, the downloads, or the collection.
AfterCheck(s) ==
    [s EXCEPT !.phase = IF s.todo # {} THEN "check"
                        ELSE IF s.fetch # {} THEN "export" ELSE "collect"]

\* An export, manifest or listing that cannot be read means a download, unless
\* the response has no course or nothing in the course has a hash.
CheckCourse(w) ==
    /\ sync[w].phase = "check"
    /\ \E c \in sync[w].todo :
          LET need == [sync[w] EXCEPT !.todo = @ \ {c}, !.fetch = @ \cup {c}]
              skip == [sync[w] EXCEPT !.todo = @ \ {c}]
          IN  \/ /\ Become(w, AfterCheck(IF sync[w].force \/ Diverges(c) THEN need ELSE skip))
                 /\ UNCHANGED faults
              \/ Fault /\ \E s \in {need, skip} : Become(w, AfterCheck(s))
    /\ UNCHANGED <<course, objects, manifest, served, edits>>

-----------------------------------------------------------------------------
(* The download of one course.                                             *)

\* After a course: the next one, the collection, or the end of a content sync.
AfterCourse(s) ==
    IF s.fetch # {} THEN [s EXCEPT !.phase = "export", !.current = {}]
    ELSE IF s.ingest THEN [s EXCEPT !.phase = "collect", !.current = {}]
    ELSE Idle

\* The export is a snapshot; a response without the course downloads nothing.
ExportCourse(w) ==
    /\ sync[w].phase = "export"
    /\ \E c \in sync[w].fetch :
          LET export == [i \in Items |-> IF CourseOf[i] = c THEN Live(i) ELSE None]
              rest == [sync[w] EXCEPT !.fetch = @ \ {c}]
          IN  \/ /\ Become(w, [rest EXCEPT !.phase = "files",
                                           !.current = {c},
                                           !.export = export,
                                           !.left = {i \in Items \ Texts : export[i] # None},
                                           !.got = Nothing,
                                           !.denied = FALSE,
                                           !.stale = {}])
                 /\ UNCHANGED faults
              \/ Fault /\ Become(w, AfterCourse(rest))
    /\ UNCHANGED <<course, objects, manifest, served, edits>>

\* download_file returns the live content, fails for this file alone, or is
\* denied, which skips the other files of the activity.
DownloadFile(w) ==
    /\ sync[w].phase = "files"
    /\ sync[w].held = {}
    /\ \E i \in sync[w].left :
          \/ /\ Become(w, [sync[w] EXCEPT !.left = @ \ {i},
                                          !.held = IF Live(i) # None THEN {<<i, Live(i)>>} ELSE {}])
             /\ UNCHANGED faults
          \/ Fault /\ Become(w, [sync[w] EXCEPT !.left = @ \ {i}])
          \/ /\ Fault
             /\ Become(w, [sync[w] EXCEPT
                   !.left = {k \in @ : ActivityOf[k] # ActivityOf[i]},
                   !.denied = TRUE])
    /\ UNCHANGED <<course, objects, manifest, served, edits>>

\* Mutant of UploadFile: the manifest records the content that was downloaded.
UploadFileRecorded(w, i, v) ==
    /\ <<i, v>> \in sync[w].held
    /\ objects' = [objects EXCEPT ![i] = sync[w].export[i]]
    /\ Become(w, [sync[w] EXCEPT !.held = {}, !.got[i] = v])
    /\ UNCHANGED <<course, manifest, served, counters>>

\* The manifest records the hash of the export, whatever was downloaded.  An
\* upload that fails may have replaced the object.
UploadFile(w, i, v) ==
    /\ <<i, v>> \in sync[w].held
    /\ \/ /\ objects' = [objects EXCEPT ![i] = v]
          /\ Become(w, [sync[w] EXCEPT !.held = {}, !.got[i] = sync[w].export[i]])
          /\ UNCHANGED faults
       \/ /\ Fault
          /\ objects' \in {objects, [objects EXCEPT ![i] = v]}
          /\ Become(w, [sync[w] EXCEPT !.held = {}])
    /\ UNCHANGED <<course, manifest, served, edits>>

\* A course of which every file was denied and that has no text fails the sync.
CheckAccess(w) ==
    /\ sync[w].phase = "files"
    /\ sync[w].left = {} /\ sync[w].held = {}
    /\ LET texts == {i \in Texts : sync[w].export[i] # None} IN
       Become(w, IF sync[w].got = Nothing /\ sync[w].denied /\ texts = {} THEN Idle
                 ELSE [sync[w] EXCEPT !.phase = "texts", !.left = texts])
    /\ UNCHANGED <<course, objects, manifest, served, counters>>

UploadText(w) ==
    /\ sync[w].phase = "texts"
    /\ \E i \in sync[w].left :
          /\ objects' = [objects EXCEPT ![i] = sync[w].export[i]]
          /\ Become(w, [sync[w] EXCEPT !.left = @ \ {i}, !.got[i] = sync[w].export[i]])
    /\ UNCHANGED <<course, manifest, served, counters>>

\* The manifest is rebuilt, unless nothing at all was obtained.
WriteManifest(w) ==
    /\ sync[w].phase = "texts"
    /\ sync[w].left = {}
    /\ manifest' = IF sync[w].got = Nothing THEN manifest
                   ELSE [i \in Items |-> IF CourseOf[i] \in sync[w].current
                                         THEN sync[w].got[i] ELSE manifest[i]]
    /\ Become(w, [sync[w] EXCEPT !.phase = "list"])
    /\ UNCHANGED <<course, objects, served, counters>>

\* Mutant of ListStale: what was downloaded is expected, not what was exported.
ListStaleOfDownloads(w) ==
    /\ sync[w].phase = "list"
    /\ \E c \in sync[w].current :
          Become(w, [sync[w] EXCEPT !.phase = "prune",
                                    !.stale = {i \in Listed(c) : sync[w].got[i] = None}])
    /\ UNCHANGED <<course, objects, manifest, served, counters>>

\* Objects of the course's path that the export does not have.
ListStale(w) ==
    /\ sync[w].phase = "list"
    /\ \E c \in sync[w].current :
          \/ /\ Become(w, [sync[w] EXCEPT !.phase = "prune",
                                          !.stale = {i \in Listed(c) : sync[w].export[i] = None}])
             /\ UNCHANGED faults
          \/ Fault /\ Become(w, [sync[w] EXCEPT !.phase = "prune"])
    /\ UNCHANGED <<course, objects, manifest, served, edits>>

\* Each removal that fails is left for another time.
Prune(w) ==
    /\ sync[w].phase = "prune"
    /\ \/ objects' = [i \in Items |-> IF i \in sync[w].stale THEN None ELSE objects[i]]
          /\ UNCHANGED faults
       \/ /\ Fault
          /\ \E gone \in SUBSET sync[w].stale :
                objects' = [i \in Items |-> IF i \in gone THEN None ELSE objects[i]]
    /\ Become(w, AfterCourse(sync[w]))
    /\ UNCHANGED <<course, manifest, served, edits>>

-----------------------------------------------------------------------------
(* What the ingestion indexes.                                             *)

\* The manifest, when there is one, decides which objects are part of a course.
CollectedFrom(c, recorded) ==
    {i \in Listed(c) : recorded[i] # None \/ \A k \in ItemsOf(c) : recorded[k] = None}

\* A manifest or listing that cannot be read is taken for an empty one.
CollectFiles(w) ==
    /\ sync[w].phase = "collect"
    /\ \E part \in SUBSET Items, recorded \in {manifest, Nothing} :
          LET files == UNION {CollectedFrom(c, recorded) : c \in sync[w].selected} IN
          /\ \/ part = Items /\ recorded = manifest /\ UNCHANGED faults
             \/ Fault
          /\ served' = [i \in Items |-> IF i \in files \cap part THEN objects[i] ELSE None]
    /\ Become(w, Idle)
    /\ UNCHANGED <<course, objects, manifest, edits>>

\* A request to Moodle or storage that is not caught fails the sync, as the death
\* of the worker does.
FailSync(w) ==
    /\ sync[w].phase # "idle"
    /\ Fault
    /\ Become(w, Idle)
    /\ UNCHANGED <<course, objects, manifest, served, edits>>

-----------------------------------------------------------------------------

DownloadCourse(w) ==
    \/ ExportCourse(w) \/ DownloadFile(w)
    \/ \E i \in Items, v \in Versions : UploadFile(w, i, v)
    \/ CheckAccess(w) \/ UploadText(w) \/ WriteManifest(w) \/ ListStale(w) \/ Prune(w)

Next ==
    \/ \E i \in Items : EditCourse(i)
    \/ \E w \in Workers :
          StartSync(w) \/ CheckCourse(w) \/ DownloadCourse(w) \/ CollectFiles(w) \/ FailSync(w)

Spec == Init /\ [][Next]_vars

-----------------------------------------------------------------------------
(* Properties.                                                             *)

\* While one worker syncs the datasource, the manifest never records content
\* newer than the object's: an older record costs a download, a newer one would
\* hide an edit from _course_needs_reconcile for good.
ManifestNotAhead ==
    \A i \in Items : objects[i] # None => manifest[i] <= objects[i]

\* "Return [course_selection] when storage diverges from the export": a course
\* that the check lets pass has in storage exactly what Moodle serves now, of
\* every item whose hash the export gives.
SkippedIsCurrent ==
    [][\A w \in Workers : \A c \in sync[w].todo :
          ( /\ c \notin sync'[w].todo
            /\ sync'[w].phase # "idle"
            /\ c \notin sync'[w].fetch
            /\ UNCHANGED faults )
          => \A i \in ItemsOf(c) \ Unhashed : objects[i] = Live(i)]_vars

\* "Only files genuinely removed/replaced upstream are pruned".
PrunedIsGoneUpstream ==
    [][\A i \in Items : objects[i] # None /\ objects'[i] = None => Live(i) = None]_vars

\* Whatever dead workers, failed requests and edits the earlier syncs went
\* through, an ingestion in which nothing fails and nothing is edited collects
\* of its courses what Moodle serves, of every item whose hash the export gives.
QuietSyncServesCourse ==
    [][\A w \in Workers :
          ( /\ sync[w].phase = "collect" /\ sync'[w].phase = "idle"
            /\ sync[w].since = edits + faults
            /\ UNCHANGED faults )
          => \A i \in Items \ Unhashed :
                CourseOf[i] \in sync[w].selected => served'[i] = Live(i)]_vars

=============================================================================
