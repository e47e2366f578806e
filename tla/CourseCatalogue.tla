-------------------------- MODULE CourseCatalogue --------------------------
(***************************************************************************)
(* The catalogue of the courses of a Moodle datasource, and the courses a  *)
(* knowledge base selects from it.                                         *)
(*                                                                         *)
(* A reindex asks for a metadata sync first: the API marks the datasource  *)
(* as processing and publishes the sync (services/indexing_service.py,     *)
(* datasource_service.py), the worker lists Moodle page by page            *)
(* (core/moodle_adapter.py), and a subscriber of one of the API processes  *)
(* makes the rows of the catalogue those of the listing.  It loads the     *)
(* rows and commits its changes; other subscribers do so between the two.  *)
(* The save of a selection (api_v2/routes/chatbots/moodle.py) rewrites the *)
(* link of the KB and reindexes if the selection changed.                  *)
(*                                                                         *)
(* Left out: the ingestion parked behind the sync (DeferredIngestion), the *)
(* content of a course (MoodleContent), and the listing of the catalogue   *)
(* in the browser, whose refresh is rolled back with its session.          *)
(***************************************************************************)
EXTENDS Naturals, Sequences, FiniteSets, Functions

CONSTANTS
    Order,       \* the courses, in the order in which Moodle lists them
    Syncs,       \* the metadata syncs ever asked for
    Saves,       \* the saves of a selection ever made
    Offered,     \* the courses a save may tick
    PageSize,    \* courses of a page
    MaxChanges,  \* bound on the changes of courses in Moodle
    MaxFaults    \* bound on failures and deaths of all kinds together

ASSUME CoursesAreOrdered ==
    /\ Order \in Seq(Range(Order))
    /\ \A i, j \in DOMAIN Order : Order[i] = Order[j] => i = j
ASSUME PagesHaveCourses == PageSize \in Nat \ {0}
ASSUME OfferedAreCourses == Offered \subseteq Range(Order)
ASSUME BoundsAreNumbers == MaxChanges \in Nat /\ MaxFaults \in Nat

Courses == Range(Order)

VARIABLES
    moodle,     \* the version of each course in Moodle, 0 if it has none
    rows,       \* the MoodleCourse rows of the datasource
    status,     \* its sync_status
    sync,       \* how far each metadata sync is
    selection,  \* the courses selected by the link of the KB
    sent,       \* the courses selected when the last reindex was prepared
    save,       \* how far each save is
    changes,    \* number of changes in Moodle so far
    faults,     \* number of faults so far
    slips       \* which races happened, see the properties

vars == <<moodle, rows, status, sync, selection, sent, save, changes, faults, slips>>
syncVars == <<moodle, rows, status, sync, changes, slips>>

NoSync == [at |-> "none", since |-> 0, offset |-> 0, got |-> {}, gone |-> {},
           whole |-> TRUE, rows |-> {}, status |-> "ready"]
NoSave == [at |-> "none", seen |-> {}, wanted |-> {}]

\* A datasource is made for at least one course that Moodle has.
Init ==
    /\ moodle \in [Courses -> {0, 1}] /\ \E c \in Courses : moodle[c] = 1
    /\ rows = {}
    /\ status = "ready"
    /\ sync = [s \in Syncs |-> NoSync]
    /\ selection = {}
    /\ sent = {}
    /\ save = [u \in Saves |-> NoSave]
    /\ changes = 1
    /\ faults = 0
    /\ slips = {}

Present == {c \in Courses : moodle[c] # 0}
Ends(s, at) == sync' = [sync EXCEPT ![s] = [NoSync EXCEPT !.at = at]]
Fault == faults < MaxFaults /\ faults' = faults + 1

----------------------------------------------------------------------------
(* Moodle.                                                                 *)

\* Someone adds, edits or removes a course; a version never comes back.
MoodleChanges ==
    /\ changes < MaxChanges
    /\ changes' = changes + 1
    /\ \E c \in Courses, v \in {0, changes'} :
        /\ v # moodle[c]
        /\ moodle' = [moodle EXCEPT ![c] = v]
    /\ UNCHANGED <<rows, status, sync, selection, sent, save, faults, slips>>

\* The courses of rows, or of entries of a listing.
CourseOf(rs) == {r.course : r \in rs}

----------------------------------------------------------------------------
(* The request for a sync and the worker.                                  *)

\* A schedule, a button or a save reindexes: the ingestion is prepared with the
\* selection of now, and the datasource is marked before the sync is published.
Reindex(s) ==
    /\ sync[s].at = "none"
    /\ sent' = selection
    /\ status' = "processing"
    /\ sync' = [sync EXCEPT ![s].at = "prepared"]
    /\ UNCHANGED <<moodle, rows, selection, changes, slips>>

Publish(s) ==
    /\ sync[s].at = "prepared"
    /\ sync' = [sync EXCEPT ![s].at = "queued"]
    /\ UNCHANGED <<moodle, rows, status, selection, sent, save, changes, faults, slips>>

\* A publish that fails is logged, and nothing resets the datasource.
PublishFails(s) ==
    /\ sync[s].at = "prepared"
    /\ Fault
    /\ Ends(s, "lost")
    /\ UNCHANGED <<moodle, rows, status, selection, sent, save, changes, slips>>

\* The worker acknowledges the message and starts to list.
Claim(s) ==
    /\ sync[s].at = "queued"
    /\ sync' = [sync EXCEPT ![s].at = "paging", ![s].since = changes]
    /\ UNCHANGED <<moodle, rows, status, selection, sent, save, changes, faults, slips>>

\* Mutant of NextOffset: the last course of a page is counted twice.
NextOffsetPastOne(offset) == offset + PageSize + 1
NextOffset(offset) == offset + PageSize

\* The place of a course in the listing, from 0.
Place(c) ==
    Cardinality({d \in Present :
        \E i, j \in DOMAIN Order : i < j /\ Order[i] = d /\ Order[j] = c})

\* Before the last page every page is full, so the place in the listing is the
\* place among the courses fetched.
PageAt(offset) ==
    LET On(c) == offset <= Place(c) /\ Place(c) < offset + PageSize
    IN  {[course |-> c, version |-> moodle[c], place |-> Place(c)] :
            c \in {d \in Present : On(d)}}

HasMore(offset) == offset + PageSize < Cardinality(Present)

FetchPage(s) ==
    LET job == sync[s]
    IN  /\ job.at = "paging"
        /\ sync' = [sync EXCEPT
                ![s].got = @ \union PageAt(job.offset),
                ![s].offset = NextOffset(@),
                ![s].at = IF HasMore(job.offset) THEN "paging" ELSE "listed",
                ![s].gone = Courses \ Present]
        /\ UNCHANGED <<moodle, rows, status, selection, sent, save, changes, faults, slips>>

\* A course that cannot be formatted is left out with a warning.
Format(s) ==
    /\ sync[s].at = "listed"
    /\ \/ sync' = [sync EXCEPT ![s].at = "reported"] /\ UNCHANGED faults
       \/ /\ Fault
          /\ \E c \in CourseOf(sync[s].got) :
                sync' = [sync EXCEPT ![s].at = "reported", ![s].whole = FALSE,
                                     ![s].got = {e \in @ : e.course # c}]
    /\ UNCHANGED <<moodle, rows, status, selection, sent, save, changes, slips>>

\* Moodle refuses the token, does not answer, or answers nonsense.
SyncFails(s) ==
    /\ sync[s].at \in {"paging", "listed"}
    /\ Fault
    /\ Ends(s, "failing")
    /\ UNCHANGED <<moodle, rows, status, selection, sent, save, changes, slips>>

WorkerDies(s) ==
    /\ sync[s].at \in {"paging", "listed"}
    /\ Fault
    /\ Ends(s, "lost")
    /\ UNCHANGED <<moodle, rows, status, selection, sent, save, changes, slips>>

----------------------------------------------------------------------------
(* The subscribers.                                                        *)

\* The rows by course, one of several for a course: a dict keeps the last one.
LoadRows(s) ==
    /\ sync[s].at = "reported"
    /\ \E existing \in SUBSET rows :
        /\ CourseOf(existing) = CourseOf(rows)
        /\ Cardinality(existing) = Cardinality(CourseOf(rows))
        /\ sync' = [sync EXCEPT ![s].at = "loaded", ![s].rows = existing,
                                ![s].status = status]
    /\ slips' = slips \union
        (IF \E o \in Syncs : sync[o].at = "loaded" THEN {"overlapped"} ELSE {})
    /\ UNCHANGED <<moodle, rows, status, selection, sent, save, changes, faults>>

Key(r) == [r EXCEPT !.version = 0]
HasKey(r) == \E q \in rows : Key(q) = Key(r)
ListedIn(got, c) == \E e \in got : e.course = c
LastVersion(got, c) ==
    LET entries == {e \in got : e.course = c}
    IN  (CHOOSE e \in entries : \A o \in entries : o.place <= e.place).version

Updated(got, existing) ==
    {[r EXCEPT !.version = LastVersion(got, r.course)] :
        r \in {q \in existing : ListedIn(got, q.course)}}

\* A course listed twice that had no row gets two.
Added(s, got, existing) ==
    {[course |-> e.course, sync |-> s, place |-> e.place, version |-> e.version] :
        e \in {o \in got : o.course \notin CourseOf(existing)}}

\* Mutant of Removed: the rows of courses that Moodle no longer lists stay.
RemovedNever(got, existing) == {}
Removed(got, existing) == {r \in existing : ~ListedIn(got, r.course)}

\* A session writes a column whose value differs from the loaded one.
Written(loaded, new) == IF loaded = new THEN status ELSE new

ListedTwice(got) == \E e, o \in got : e # o /\ e.course = o.course

\* An empty listing leaves the rows as they are.
CommitCourses(s) ==
    LET job == sync[s]
        touched == Updated(job.got, job.rows)
        replaced == {r \in rows : \E q \in touched \union Removed(job.got, job.rows) :
                        Key(q) = Key(r)}
    IN  /\ job.at = "loaded"
        /\ \A r \in touched : HasKey(r)
        /\ rows' = IF job.got = {} THEN rows
                   ELSE (rows \ replaced) \union touched
                        \union Added(s, job.got, job.rows)
        /\ status' = Written(job.status, "ready")
        /\ sync' = [sync EXCEPT ![s].at = "applied", ![s].rows = {},
                                ![s].status = "ready"]
        /\ slips' = slips \union (IF ListedTwice(job.got) THEN {"repeated"} ELSE {})
        /\ UNCHANGED <<moodle, selection, sent, save, changes, faults>>

\* An update of a row that another handler removed raises, the transaction is
\* rolled back and the message is rejected.
CommitIsStale(s) ==
    LET job == sync[s]
    IN  /\ job.at = "loaded"
        /\ \E r \in Updated(job.got, job.rows) : ~HasKey(r)
        /\ Ends(s, "lost")
        /\ UNCHANGED <<moodle, rows, status, selection, sent, save, changes, faults, slips>>

\* Mutant of ErrorStatus: a failed sync only leaves its error.
ErrorStatusKept == status
ErrorStatus == "error"

ApplyFailure(s) ==
    /\ sync[s].at = "failing"
    /\ status' = ErrorStatus
    /\ Ends(s, "failed")
    /\ UNCHANGED <<moodle, rows, selection, sent, save, changes, faults, slips>>

\* A process dies before it acknowledges, which may be after its commit.
HandlerDies(s) ==
    /\ sync[s].at \in {"loaded", "applied"}
    /\ Fault
    /\ sync' = [sync EXCEPT ![s].at = "reported", ![s].rows = {}, ![s].status = "ready"]
    /\ UNCHANGED <<moodle, rows, status, selection, sent, save, changes, slips>>

----------------------------------------------------------------------------
(* The saves.                                                              *)

\* The dialog sends all the courses it has ticked, old and new.
ReadSelection(u) ==
    /\ save[u].at = "none"
    /\ \E wanted \in SUBSET Offered :
        save' = [save EXCEPT ![u] =
                    [at |-> "read", seen |-> selection, wanted |-> wanted]]
    /\ UNCHANGED <<syncVars, selection, sent, faults>>

\* Mutant of Reindexes: only courses to ingest are a reason to.
ReindexesIfAdded(u) == save[u].wanted \ save[u].seen # {}
Reindexes(u) ==
    \/ save[u].wanted \ save[u].seen # {}
    \/ save[u].seen \ save[u].wanted # {}

\* The list is built from a set, so the text may differ although the courses do
\* not, and a text that does not differ is not written.
StoreSelection(u) ==
    /\ save[u].at = "read"
    /\ \/ selection' = save[u].wanted
       \/ save[u].wanted = save[u].seen /\ UNCHANGED selection
    /\ save' = [save EXCEPT ![u] =
                    [NoSave EXCEPT !.at = IF Reindexes(u) THEN "stored" ELSE "over"]]
    /\ slips' = slips \union (IF selection # save[u].seen THEN {"overwritten"} ELSE {})
    /\ UNCHANGED <<moodle, rows, status, sync, changes, sent, faults>>

\* trigger_reindex_safe turns every failure into a line of the response.
ReindexFails(u) ==
    /\ save[u].at = "stored"
    /\ Fault
    /\ save' = [save EXCEPT ![u].at = "failed"]
    /\ UNCHANGED <<syncVars, selection, sent>>

ReindexAfterSave(u, s) ==
    /\ save[u].at = "stored"
    /\ Reindex(s)
    /\ save' = [save EXCEPT ![u].at = "over"]
    /\ UNCHANGED faults

ReindexAnyway(s) == Reindex(s) /\ UNCHANGED <<save, faults>>

----------------------------------------------------------------------------
WorkerStep(s) == Claim(s) \/ FetchPage(s) \/ Format(s)
SubscriberStep(s) ==
    LoadRows(s) \/ CommitCourses(s) \/ CommitIsStale(s) \/ ApplyFailure(s)

Next ==
    \/ MoodleChanges
    \/ \E s \in Syncs :
        \/ ReindexAnyway(s) \/ Publish(s) \/ PublishFails(s)
        \/ WorkerStep(s) \/ SyncFails(s) \/ WorkerDies(s)
        \/ SubscriberStep(s) \/ HandlerDies(s)
    \/ \E u \in Saves :
        \/ ReadSelection(u) \/ StoreSelection(u) \/ ReindexFails(u)
        \/ \E s \in Syncs : ReindexAfterSave(u, s)

\* The worker and the subscribers take what is queued, and a request that has
\* marked the datasource goes on to publish, in whatever order.  Moodle and the
\* users may stop.
Fairness ==
    WF_vars(\E s \in Syncs : Publish(s) \/ WorkerStep(s) \/ SubscriberStep(s))

Spec == Init /\ [][Next]_vars
FairSpec == Spec /\ Fairness

----------------------------------------------------------------------------
Applies(s) == sync[s].at = "loaded" /\ sync'[s].at = "applied"

\* A course leaves the catalogue only by a sync that Moodle did not list it to:
\* one that saw every page while Moodle had not the course, or one whose listing
\* Moodle changed under (offsets shift) or that could not format a course.
KnownCoursesStay ==
    [][\A c \in CourseOf(rows) \ CourseOf(rows)' : \E s \in Syncs :
        /\ Applies(s)
        /\ c \in sync[s].gone \/ sync[s].since # changes \/ ~sync[s].whole]_vars

\* A sync that nothing disturbs makes the catalogue that of Moodle, one row for
\* each course, whatever earlier syncs left behind.  Three things disturb it for
\* good: two handlers with the rows loaded, or a listing with a course twice,
\* may leave two rows for a course (no constraint forbids them), and a Moodle
\* without courses is not believed.
QuietSyncMirrorsMoodle ==
    [][\A s \in Syncs :
        /\ Applies(s) /\ sync[s].since = changes /\ sync[s].whole
        /\ slips' = {} \/ slips' = {"overwritten"}
        /\ Present # {}
        => /\ {<<r.course, r.version>> : r \in rows'} = {<<c, moodle[c]>> : c \in Present}
           /\ Cardinality(rows') = Cardinality(Present)]_vars

\* A datasource does not stay in processing, unless a sync is lost: nothing else
\* than the outcome of a sync, this one or a later one, resets it.
SyncingEnds ==
    status = "processing" ~> \/ status # "processing"
                             \/ \E s \in Syncs : sync[s].at = "lost"

\* What is selected is what the last reindex was prepared with, while no save is
\* on its way to a reindex: except that a reindex failed, or that two saves
\* overlapped, the one without a change to its own eyes writing over the other.
SelectionIsSent ==
    selection # sent =>
        \/ \E u \in Saves : save[u].at \in {"stored", "failed"}
        \/ "overwritten" \in slips

=============================================================================
