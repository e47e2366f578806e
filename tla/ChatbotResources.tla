-------------------------- MODULE ChatbotResources -------------------------
(***************************************************************************)
(* What a chatbot owns, from its creation to its deletion: the row of the  *)
(* chatbot, its knowledge base (KB), the datasources linked to it with the *)
(* files each link selects, the UploadedFile rows, and the objects in the  *)
(* bucket (api_v2/routes/chatbots, services/file_service.py,               *)
(* file_upload_service.py, knowledgebase_service.py, core/storage.py).     *)
(*                                                                         *)
(* No request holds a transaction over all of its steps: every repository  *)
(* call commits, the bucket is outside the database, and eight processes   *)
(* serve requests that may be about the same chatbot.  An action is one    *)
(* commit, or one series of calls to the bucket.  Beside the requests runs *)
(* the cleanup script (scripts/cleanup_orphans.py), which plans, deletes   *)
(* rows, then deletes objects.                                             *)
(*                                                                         *)
(* Left out: the reindexing a request ends with (IngestionJobs), what      *)
(* Moodle syncs store (MoodleContent), chat sessions, and access control.  *)
(***************************************************************************)
EXTENDS Naturals, FiniteSets

CONSTANTS
    Chatbots,     \* the chatbots ever made; a KB has the identity of its chatbot
    Datasources,  \* the datasources ever made
    Files,        \* the files ever uploaded, typed-in texts included
    Images,       \* the avatars and header logos ever stored
    Requests,     \* requests handled at the same time
    None,         \* no datasource, link, file, image or chatbot
    MaxRequests,  \* bound on the requests handled in all
    MaxFaults     \* bound on rejected files, bucket and database errors, crashes

ASSUME BoundsAreNumbers == MaxRequests \in Nat /\ MaxFaults \in Nat
ASSUME NoneIsNothing ==
    /\ None \notin Chatbots \union Datasources \union Files \union Images
    /\ None \notin [kb : Chatbots, selection : SUBSET Files]
ASSUME FilesAreNotImages == Files \intersect Images = {}

VARIABLES
    chatbot,  \* the row of each chatbot
    image,    \* the avatar and the header logo each row refers to
    kb,       \* the KBs that exist
    source,   \* the row of each datasource
    link,     \* the KB a datasource is linked to, with the selected files
    row,      \* the UploadedFile row of each file
    home,     \* the datasource under whose prefix the file is stored
    objects,  \* the files and images in the bucket
    request,  \* what each request is about and how far it is
    cleanup,  \* the run of the cleanup script
    started,  \* number of requests so far
    faults,   \* number of faults so far
    spills    \* the kinds of leftovers that faults and overlaps may have left

dbVars == <<chatbot, image, kb, source, link, row, home>>
boundVars == <<started, faults>>
vars == <<dbVars, objects, request, cleanup, boundVars, spills>>

Kinds == {"avatar", "logo"}
Leftovers == {"selection", "row", "datasource", "object", "kb"}

Idle == [op |-> "none", at |-> "idle", bot |-> None, ds |-> None, moodle |-> None,
         todo |-> {}, now |-> None, stored |-> {}, drop |-> {}, seen |-> <<>>,
         kind |-> "avatar", new |-> None, old |-> None]
NoRun == [at |-> "idle", files |-> {}, sources |-> {}, alone |-> TRUE, since |-> 0]

Init ==
    /\ chatbot = [c \in Chatbots |-> "absent"]
    /\ image = [c \in Chatbots |-> [k \in Kinds |-> None]]
    /\ kb = {}
    /\ source = [d \in Datasources |-> "absent"]
    /\ link = [d \in Datasources |-> None]
    /\ row = [f \in Files |-> "absent"]
    /\ home = [f \in Files |-> None]
    /\ objects = {}
    /\ request = [r \in Requests |-> Idle]
    /\ cleanup = NoRun
    /\ started = 0
    /\ faults = 0
    /\ spills = {}

----------------------------------------------------------------------------
(* Reading the tables.                                                     *)

Exists(d) == source[d] \in {"file", "moodle"}
HasRow(f) == row[f] \in {"uploading", "uploaded", "error"}
LinksOf(c) == {d \in Datasources : link[d] # None /\ link[d].kb = c}
Selected(d) == IF link[d] = None THEN {} ELSE link[d].selection
AllSelected == UNION {Selected(d) : d \in Datasources}
RowsUnder(ds) == {f \in Files : HasRow(f) /\ home[f] \in ds}
Busy == {r \in Requests : request[r] # Idle}
Taken == UNION {request[r].todo \union {request[r].new, request[r].old} : r \in Requests}
FreshFiles == {f \in Files \ Taken : row[f] = "absent"}
FreshImages == {i \in Images \ (objects \union Taken) :
                   \A c \in Chatbots, k \in Kinds : image[c][k] # i}
FreshSources == {d \in Datasources : source[d] = "absent"}

Updated(q, fields) ==
    [x \in DOMAIN q |-> IF x \in DOMAIN fields THEN fields[x] ELSE q[x]]
Becomes(r, fields) ==
    request' = [request EXCEPT ![r] = Updated(@, fields)]
Ends(r) == request' = [request EXCEPT ![r] = Idle]
Spill(kinds) == spills' = spills \union kinds
Fault == faults < MaxFaults /\ faults' = faults + 1

Begin(r, fields) ==
    /\ request[r] = Idle
    /\ started < MaxRequests
    /\ started' = started + 1
    /\ Becomes(r, fields)
    /\ UNCHANGED <<dbVars, objects, cleanup, faults, spills>>

----------------------------------------------------------------------------
(* Creating a chatbot.                                                     *)

BeginCreate(r) ==
    \E c \in Chatbots, add \in SUBSET FreshFiles, moodle \in BOOLEAN :
        /\ chatbot[c] = "absent"
        /\ \A q \in Requests : request[q].bot # c
        /\ moodle \/ add # {}
        /\ Begin(r, [op |-> IF moodle THEN "create-from-moodle" ELSE "create-from-files",
                     at |-> IF moodle THEN "moodle" ELSE "datasource",
                     bot |-> c, todo |-> add])

(* The datasource is committed before its configuration is looked at.      *)
CreateMoodleSource(r) ==
    /\ request[r].at = "moodle"
    /\ \E d \in FreshSources :
          /\ source' = [source EXCEPT ![d] = "moodle"]
          /\ \/ /\ Becomes(r, [at |-> IF request[r].todo = {} THEN "kb" ELSE "datasource",
                               moodle |-> d])
                /\ UNCHANGED <<faults, spills>>
             \/ Fault /\ Spill({"datasource"}) /\ Ends(r)
    /\ UNCHANGED <<chatbot, image, kb, link, row, home, objects, cleanup, started>>

CreateFileSource(r) ==
    /\ request[r].at = "datasource"
    /\ \E d \in FreshSources :
          /\ source' = [source EXCEPT ![d] = "file"]
          /\ Becomes(r, [at |-> IF request[r].op = "update" THEN "attach" ELSE "upload",
                         ds |-> d])
    /\ UNCHANGED <<chatbot, image, kb, link, row, home, objects, cleanup, boundVars, spills>>

CreateKb(r) ==
    /\ request[r].at = "kb"
    /\ kb' = kb \union {request[r].bot}
    /\ Becomes(r, [at |-> IF request[r].moodle # None THEN "link-moodle" ELSE "link-files"])
    /\ UNCHANGED <<chatbot, image, source, link, row, home, objects, cleanup, boundVars, spills>>

(* A link to a datasource that is gone is silently not made.               *)
Linked(d, c, selection) ==
    IF d # None /\ Exists(d) /\ c \in kb
    THEN [link EXCEPT ![d] = [kb |-> c, selection |-> selection]] ELSE link

LinkMoodle(r) ==
    /\ request[r].at = "link-moodle"
    /\ link' = Linked(request[r].moodle, request[r].bot, {})
    /\ Becomes(r, [at |-> "link-files"])
    /\ UNCHANGED <<chatbot, image, kb, source, row, home, objects, cleanup, boundVars, spills>>

LinkFiles(r) ==
    /\ request[r].at = "link-files"
    /\ link' = IF request[r].stored = {} THEN link
               ELSE Linked(request[r].ds, request[r].bot, request[r].stored)
    /\ Becomes(r, [at |-> "chatbot"])
    /\ UNCHANGED <<chatbot, image, kb, source, row, home, objects, cleanup, boundVars, spills>>

CreateChatbot(r) ==
    /\ request[r].at = "chatbot"
    /\ chatbot' = [chatbot EXCEPT ![request[r].bot] = "live"]
    /\ Ends(r)
    /\ UNCHANGED <<image, kb, source, link, row, home, objects, cleanup, boundVars, spills>>

----------------------------------------------------------------------------
(* Uploading the files of a request, one after another.                    *)

(* A file that is not valid, and one whose datasource is gone, is skipped. *)
SkipFile(r) ==
    /\ request[r].at = "upload"
    /\ \E f \in request[r].todo : Becomes(r, [todo |-> request[r].todo \ {f}])
    /\ \/ ~Exists(request[r].ds) /\ UNCHANGED faults
       \/ Fault
    /\ Spill({"datasource"})
    /\ UNCHANGED <<dbVars, objects, cleanup, started>>

AddRow(r) ==
    /\ request[r].at = "upload"
    /\ Exists(request[r].ds)
    /\ \E f \in request[r].todo :
          /\ row' = [row EXCEPT ![f] = "uploading"]
          /\ home' = [home EXCEPT ![f] = request[r].ds]
          /\ Becomes(r, [at |-> "store", now |-> f])
    /\ UNCHANGED <<chatbot, image, kb, source, link, objects, cleanup, boundVars, spills>>

StoreFile(r) ==
    /\ request[r].at = "store"
    /\ objects' = objects \union {request[r].now}
    /\ Becomes(r, [at |-> "mark"])
    /\ UNCHANGED <<dbVars, cleanup, boundVars, spills>>

\* Mutant of StoreFileFails: the failed file is counted as stored.
StoreFileFailsSelected(r) ==
    /\ request[r].at = "store"
    /\ Fault
    /\ row' = [row EXCEPT ![request[r].now] = "error"]
    /\ Becomes(r, [at |-> "upload", todo |-> request[r].todo \ {request[r].now},
                   stored |-> request[r].stored \union {request[r].now}])
    /\ Spill({"row", "datasource"})
    /\ UNCHANGED <<chatbot, image, kb, source, link, home, objects, cleanup, started>>

(* The row of a file that cannot be stored stays behind as an error.       *)
StoreFileFails(r) ==
    LET f == request[r].now
    IN  /\ request[r].at = "store"
        /\ Fault
        /\ row' = IF HasRow(f) THEN [row EXCEPT ![f] = "error"] ELSE row
        /\ IF HasRow(f) THEN Becomes(r, [at |-> "upload", todo |-> request[r].todo \ {f}])
                        ELSE Ends(r)
        /\ Spill({"row", "datasource"})
        /\ UNCHANGED <<chatbot, image, kb, source, link, home, objects, cleanup, started>>

(* The update of a row that is gone fails, and with it the session.        *)
MarkUploaded(r) ==
    LET f == request[r].now
    IN  /\ request[r].at = "mark"
        /\ IF HasRow(f)
           THEN /\ row' = [row EXCEPT ![f] = "uploaded"]
                /\ Becomes(r, [at |-> "upload", todo |-> request[r].todo \ {f},
                               stored |-> request[r].stored \union {f}])
                /\ UNCHANGED spills
           ELSE Ends(r) /\ Spill({"row", "datasource", "object"}) /\ UNCHANGED row
        /\ UNCHANGED <<chatbot, image, kb, source, link, home, objects, cleanup, boundVars>>

(* A chatbot made from files needs at least one of them.                   *)
Uploaded(r) ==
    LET q == request[r]
    IN  /\ q.at = "upload"
        /\ q.todo = {}
        /\ CASE q.op = "create-from-files" /\ q.stored = {} -> Ends(r)
             [] q.op = "update" /\ q.stored = {} -> Ends(r)
             [] q.op = "update" /\ q.stored # {} -> Becomes(r, [at |-> "read-selection"])
             [] OTHER -> Becomes(r, [at |-> "kb"])
        /\ UNCHANGED <<dbVars, objects, cleanup, boundVars, spills>>

----------------------------------------------------------------------------
(* Adding files to a chatbot and removing some of its files.               *)

BeginUpdate(r) ==
    \E c \in Chatbots, add \in SUBSET FreshFiles :
        \E drop \in SUBSET UNION {Selected(d) : d \in LinksOf(c)} :
            /\ chatbot[c] = "live"
            /\ add \union drop # {}
            /\ Begin(r, [op |-> "update", at |-> IF drop = {} THEN "find-link" ELSE "read-links",
                         bot |-> c, todo |-> add, drop |-> drop])

ReadLinks(r) ==
    LET links == LinksOf(request[r].bot)
    IN  /\ request[r].at = "read-links"
        /\ IF links = {} THEN Ends(r)
           ELSE Becomes(r, [at |-> "drop", seen |-> [d \in links |-> Selected(d)]])
        /\ UNCHANGED <<dbVars, objects, cleanup, boundVars, spills>>

(* The files are taken off the selections as they were read.  A link that  *)
(* becomes empty goes with its datasource and whatever files that has.     *)
(* The update of a link that is gone fails and changes nothing.            *)
RemovedSources(seen, drop) ==
    {d \in DOMAIN seen : seen[d] \intersect drop # {} /\ seen[d] \subseteq drop}

DropFiles(r) ==
    LET q == request[r]
        touched == {d \in DOMAIN q.seen : q.seen[d] \intersect q.drop # {}}
        emptied == RemovedSources(q.seen, q.drop)
        hit == {f \in q.drop : \E d \in touched : f \in q.seen[d]}
        gone == {f \in hit : HasRow(f)} \union RowsUnder(emptied)
    IN  /\ q.at = "drop"
        /\ IF \E d \in touched : link[d] = None
           THEN Ends(r) /\ UNCHANGED <<source, link, row, spills>>
           ELSE /\ link' = [d \in Datasources |->
                              IF d \in emptied THEN None
                              ELSE IF d \in touched
                                   THEN [link[d] EXCEPT !.selection = q.seen[d] \ q.drop]
                                   ELSE link[d]]
                /\ source' = [d \in Datasources |-> IF d \in emptied THEN "deleted" ELSE source[d]]
                /\ row' = [f \in Files |-> IF f \in gone THEN "deleted" ELSE row[f]]
                /\ Becomes(r, [at |-> "reap", drop |-> gone])
                /\ IF \E d \in touched : q.seen[d] # Selected(d)
                   THEN Spill({"selection", "row"}) ELSE UNCHANGED spills
        /\ UNCHANGED <<chatbot, image, kb, home, objects, cleanup, boundVars>>

\* Mutant of ReapFiles: only the rows are deleted.
ReapRowsOnly(r) ==
    /\ request[r].at = "reap"
    /\ IF request[r].todo = {} THEN Ends(r) ELSE Becomes(r, [at |-> "find-link", drop |-> {}])
    /\ UNCHANGED <<dbVars, objects, cleanup, boundVars, spills>>

(* Objects are deleted after the commit, and an error is only logged.      *)
ReapFiles(r) ==
    /\ request[r].at = "reap"
    /\ \/ objects' = objects \ request[r].drop /\ UNCHANGED <<faults, spills>>
       \/ UNCHANGED objects /\ Fault /\ Spill({"object"})
    /\ IF request[r].todo = {} THEN Ends(r) ELSE Becomes(r, [at |-> "find-link", drop |-> {}])
    /\ UNCHANGED <<dbVars, cleanup, started>>

FindLink(r) ==
    LET links == {d \in LinksOf(request[r].bot) : source[d] = "file"}
    IN  /\ request[r].at = "find-link"
        /\ \/ links = {} /\ Becomes(r, [at |-> "datasource"])
           \/ \E d \in links : Becomes(r, [at |-> "upload", ds |-> d])
        /\ UNCHANGED <<dbVars, objects, cleanup, boundVars, spills>>

(* A chatbot that was deleted meanwhile ends the request; a KB that was     *)
(* deleted after that leaves the datasource without a link.                *)
CheckChatbot(r) ==
    /\ request[r].at = "attach"
    /\ IF chatbot[request[r].bot] = "live"
       THEN Becomes(r, [at |-> "link-source"]) /\ UNCHANGED spills
       ELSE Ends(r) /\ Spill({"datasource"})
    /\ UNCHANGED <<dbVars, objects, cleanup, boundVars>>

AttachSource(r) ==
    LET q == request[r]
    IN  /\ q.at = "link-source"
        /\ link' = Linked(q.ds, q.bot, {})
        /\ Becomes(r, [at |-> "upload"])
        /\ UNCHANGED <<chatbot, image, kb, source, row, home, objects, cleanup, boundVars, spills>>

ReadSelection(r) ==
    LET d == request[r].ds
    IN  /\ request[r].at = "read-selection"
        /\ IF link[d] = None
           THEN Ends(r) /\ Spill({"row", "datasource", "object"})
           ELSE Becomes(r, [at |-> "append", seen |-> Selected(d)]) /\ UNCHANGED spills
        /\ UNCHANGED <<dbVars, objects, cleanup, boundVars>>

(* The new files are appended to the selection as it was read.             *)
AppendSelection(r) ==
    LET q == request[r]
    IN  /\ q.at = "append"
        /\ Ends(r)
        /\ IF link[q.ds] = None
           THEN Spill({"row", "datasource", "object"}) /\ UNCHANGED link
           ELSE /\ link' = [link EXCEPT ![q.ds].selection = q.seen \union q.stored]
                /\ IF q.seen # Selected(q.ds) \/ ~(q.stored \subseteq RowsUnder({q.ds}))
                   THEN Spill({"selection", "row"}) ELSE UNCHANGED spills
        /\ UNCHANGED <<chatbot, image, kb, source, row, home, objects, cleanup, boundVars>>

----------------------------------------------------------------------------
(* Deleting a chatbot: its row first, then, if that does not fail, the KB. *)

(* The header logo of a chatbot is not deleted with it.                    *)
DeleteChatbot(r) ==
    \E c \in Chatbots :
        /\ chatbot[c] = "live"
        /\ request[r] = Idle
        /\ started < MaxRequests
        /\ started' = started + 1
        /\ chatbot' = [chatbot EXCEPT ![c] = "deleted"]
        /\ Becomes(r, [op |-> "delete", at |-> "avatar", bot |-> c, old |-> image[c]["avatar"]])
        /\ IF image[c]["logo"] # None THEN Spill({"object"}) ELSE UNCHANGED spills
        /\ UNCHANGED <<image, kb, source, link, row, home, objects, cleanup, faults>>

DeleteAvatar(r) ==
    /\ request[r].at = "avatar"
    /\ \/ objects' = objects \ {request[r].old} /\ UNCHANGED <<faults, spills>>
       \/ UNCHANGED objects /\ Fault /\ Spill({"object"})
    /\ Becomes(r, [at |-> "wipe", drop |-> LinksOf(request[r].bot)])
    /\ UNCHANGED <<dbVars, cleanup, started>>

(* All objects under the prefixes of the linked datasources.               *)
StoredUnder(ds) == {f \in Files : home[f] \in ds}

WipePrefixes(r) ==
    /\ request[r].at = "wipe"
    /\ \/ objects' = objects \ StoredUnder(request[r].drop) /\ UNCHANGED <<faults, spills>>
       \/ UNCHANGED objects /\ Fault /\ Spill({"object"})
    /\ Becomes(r, [at |-> "delete-kb"])
    /\ UNCHANGED <<dbVars, cleanup, started>>

(* One transaction, which fails if the KB has got a link meanwhile; the    *)
(* failure is logged and the KB stays.  A file that was stored after the   *)
(* prefixes were wiped loses its row and keeps its object.                 *)
DeleteKb(r) ==
    LET c == request[r].bot
        ds == request[r].drop
    IN  /\ request[r].at = "delete-kb"
        /\ Ends(r)
        /\ \/ /\ LinksOf(c) \subseteq ds
              /\ kb' = kb \ {c}
              /\ link' = [d \in Datasources |-> IF d \in ds THEN None ELSE link[d]]
              /\ source' = [d \in Datasources |->
                              IF d \in ds /\ Exists(d) THEN "deleted" ELSE source[d]]
              /\ row' = [f \in Files |-> IF f \in RowsUnder(ds) THEN "deleted" ELSE row[f]]
              /\ IF RowsUnder(ds) \intersect objects # {}
                 THEN Spill({"object"}) ELSE UNCHANGED spills
              /\ UNCHANGED faults
           \/ /\ \/ ~(LinksOf(c) \subseteq ds) /\ UNCHANGED faults
                 \/ Fault
              /\ Spill({"kb"})
              /\ UNCHANGED <<kb, link, source, row>>
        /\ UNCHANGED <<chatbot, image, home, objects, cleanup, started>>

----------------------------------------------------------------------------
(* Replacing and removing the avatar or the header logo.                   *)

BeginImage(r) ==
    \E c \in Chatbots, k \in Kinds, i \in FreshImages \union {None} :
        /\ chatbot[c] = "live"
        /\ Begin(r, [op |-> "image", at |-> IF i = None THEN "commit-image" ELSE "store-image",
                     bot |-> c, kind |-> k, new |-> i, old |-> image[c][k]])

\* Mutant of StoreImage: the old image is deleted before the row refers to the
\* new one.
StoreImageOverOld(r) ==
    /\ request[r].at = "store-image"
    /\ objects' = (objects \ {request[r].old}) \union {request[r].new}
    /\ Becomes(r, [at |-> "commit-image"])
    /\ UNCHANGED <<dbVars, cleanup, boundVars, spills>>

StoreImage(r) ==
    /\ request[r].at = "store-image"
    /\ \/ /\ objects' = objects \union {request[r].new}
          /\ Becomes(r, [at |-> "commit-image"])
          /\ UNCHANGED faults
       \/ Fault /\ Ends(r) /\ UNCHANGED objects
    /\ UNCHANGED <<dbVars, cleanup, started, spills>>

(* A value that is the one that was loaded is not written.                 *)
CommitImage(r) ==
    LET q == request[r]
        current == image[q.bot][q.kind]
    IN  /\ q.at = "commit-image"
        /\ IF chatbot[q.bot] = "live"
           THEN /\ image' = IF q.new = q.old THEN image
                            ELSE [image EXCEPT ![q.bot][q.kind] = q.new]
                /\ Becomes(r, [at |-> "delete-image"])
                /\ IF current # q.old THEN Spill({"object"}) ELSE UNCHANGED spills
           ELSE Ends(r) /\ Spill({"object"}) /\ UNCHANGED image
        /\ UNCHANGED <<chatbot, kb, source, link, row, home, objects, cleanup, boundVars>>

DeleteImage(r) ==
    /\ request[r].at = "delete-image"
    /\ \/ objects' = objects \ {request[r].old} /\ UNCHANGED <<faults, spills>>
       \/ UNCHANGED objects /\ Fault /\ Spill({"object"})
    /\ Ends(r)
    /\ UNCHANGED <<dbVars, cleanup, started>>

(* The process stops, and the request with it.                             *)
RequestDies(r) ==
    /\ request[r] # Idle
    /\ Fault
    /\ Ends(r)
    /\ Spill({"row", "datasource", "object", "kb"})
    /\ UNCHANGED <<dbVars, objects, cleanup, started>>

----------------------------------------------------------------------------
(* The cleanup script.                                                     *)

Unselected == {f \in Files : HasRow(f) /\ f \notin AllSelected}
Unlinked == {d \in Datasources : Exists(d) /\ link[d] = None}

PlanCleanup ==
    /\ cleanup = NoRun
    /\ Unselected # {} \/ Unlinked # {}
    /\ cleanup' = [at |-> "planned", files |-> Unselected, sources |-> Unlinked,
                   alone |-> Busy = {}, since |-> started]
    /\ UNCHANGED <<dbVars, objects, request, boundVars, spills>>

(* One transaction over the plan, which fails if a planned datasource has  *)
(* been linked meanwhile.  A planned file is deleted even if it has been   *)
(* selected meanwhile.                                                     *)
ApplyCleanup ==
    LET gone == {f \in cleanup.files : HasRow(f)} \union RowsUnder(cleanup.sources)
        alone == cleanup.alone /\ cleanup.since = started
    IN  /\ cleanup.at = "planned"
        /\ IF \E d \in cleanup.sources : link[d] # None
           THEN cleanup' = NoRun /\ UNCHANGED <<source, row, spills>>
           ELSE /\ row' = [f \in Files |-> IF f \in gone THEN "deleted" ELSE row[f]]
                /\ source' = [d \in Datasources |->
                                IF d \in cleanup.sources /\ Exists(d) THEN "deleted"
                                                                      ELSE source[d]]
                /\ cleanup' = [cleanup EXCEPT !.at = "objects"]
                /\ spills' = IF alone THEN spills \ {"row", "datasource"}
                             ELSE spills \union {"selection", "row"}
        /\ UNCHANGED <<chatbot, image, kb, link, home, objects, request, boundVars>>

(* With --skip-s3, and on an error, the objects stay.                      *)
DeleteOrphanObjects ==
    /\ cleanup.at = "objects"
    /\ \/ /\ objects' = objects \ (cleanup.files \union StoredUnder(cleanup.sources))
          /\ UNCHANGED spills
       \/ UNCHANGED objects /\ Spill({"object"})
    /\ cleanup' = NoRun
    /\ UNCHANGED <<dbVars, request, boundVars>>

----------------------------------------------------------------------------
RequestStep(r) ==
    \/ BeginCreate(r) \/ CreateMoodleSource(r) \/ CreateFileSource(r) \/ CreateKb(r)
    \/ LinkMoodle(r) \/ LinkFiles(r) \/ CreateChatbot(r)
    \/ SkipFile(r) \/ AddRow(r) \/ StoreFile(r) \/ StoreFileFails(r) \/ MarkUploaded(r)
    \/ Uploaded(r)
    \/ BeginUpdate(r) \/ ReadLinks(r) \/ DropFiles(r) \/ ReapFiles(r) \/ FindLink(r)
    \/ CheckChatbot(r) \/ AttachSource(r) \/ ReadSelection(r) \/ AppendSelection(r)
    \/ DeleteChatbot(r) \/ DeleteAvatar(r) \/ WipePrefixes(r) \/ DeleteKb(r)
    \/ BeginImage(r) \/ StoreImage(r) \/ CommitImage(r) \/ DeleteImage(r)
    \/ RequestDies(r)

Next ==
    \/ \E r \in Requests : RequestStep(r)
    \/ PlanCleanup \/ ApplyCleanup \/ DeleteOrphanObjects

Spec == Init /\ [][Next]_vars

----------------------------------------------------------------------------
(* What a chatbot serves: the files its owner's listing shows, which are   *)
(* those that can be downloaded and previewed, and its images.             *)
Listed(c) == {f \in UNION {Selected(d) : d \in LinksOf(c)} : HasRow(f)}
Shown(c) == {image[c][k] : k \in Kinds} \ {None}

(* Type invariant: rows, links, selections and requests only refer to      *)
(* things of the right kind, and a link is to a KB that exists.            *)
TypeOK ==
    /\ chatbot \in [Chatbots -> {"absent", "live", "deleted"}]
    /\ image \in [Chatbots -> [Kinds -> Images \union {None}]]
    /\ kb \subseteq Chatbots
    /\ source \in [Datasources -> {"absent", "file", "moodle", "deleted"}]
    /\ link \in [Datasources -> {None} \union [kb : kb, selection : SUBSET Files]]
    /\ row \in [Files -> {"absent", "uploading", "uploaded", "error", "deleted"}]
    /\ home \in [Files -> Datasources \union {None}]
    /\ objects \subseteq Files \union Images \union {None}
    /\ \A r \in Requests : request[r].bot \in Chatbots \union {None}
    /\ spills \subseteq Leftovers

(* Everything a live chatbot lists or shows can be fetched from the        *)
(* bucket, however requests, failures and cleanups overlap: objects are    *)
(* deleted only after the commit that takes the last reference away, and   *)
(* the chatbot goes before its KB's objects do (files.py, avatar.py:       *)
(* "never left without an avatar", file_service.py, lifecycle.py).         *)
ServedObjectsExist ==
    \A c \in Chatbots : chatbot[c] = "live" => Listed(c) \union Shown(c) \subseteq objects

(* A selected file has an uploaded row, unless a selection was written     *)
(* over one that had changed since it was read, or a cleanup overlapped    *)
(* with a request.                                                         *)
SelectionsHaveRows ==
    "selection" \notin spills => \A f \in AllSelected : row[f] = "uploaded"

(* When no request and no cleanup is under way, every row, datasource,     *)
(* object and KB belongs to something, but for the kinds of leftovers that *)
(* a fault or an overlap may have caused since the last cleanup that ran   *)
(* alone (the categories of orphan_detection.py).                          *)
NothingLeaks ==
    Busy = {} /\ cleanup = NoRun =>
        /\ "row" \notin spills => Unselected = {}
        /\ "datasource" \notin spills => Unlinked = {}
        /\ "kb" \notin spills => \A c \in kb : chatbot[c] = "live"
        /\ "object" \notin spills =>
              \A o \in objects : \/ o \in Files /\ HasRow(o)
                                 \/ \E c \in Chatbots : chatbot[c] = "live" /\ o \in Shown(c)

============================================================================
