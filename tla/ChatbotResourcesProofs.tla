----------------------- MODULE ChatbotResourcesProofs -----------------------
(***************************************************************************)
(* For any chatbots, files and images, and any requests that overlap, fail *)
(* or die beside the cleanup script: what a live chatbot serves is in the  *)
(* bucket, a selected file has an uploaded row unless an overwritten       *)
(* selection says why not, and at rest nothing is left that no leftover    *)
(* accounts for.                                                           *)
(*                                                                         *)
(* The argument: a datasource is only ever claimed by one chatbot, a file  *)
(* stays under the datasource it was uploaded to, an image name is used    *)
(* once, and what a step takes away (a link, a row, an object) some        *)
(* request or the cleanup is still about to finish with.                   *)
(***************************************************************************)
EXTENDS ChatbotResources, TLAPS

-----------------------------------------------------------------------------
(* Requests: the stages of each operation and what a request holds there.  *)

CreateStages == {"moodle", "datasource", "upload", "store", "mark", "kb", "link-moodle",
                 "link-files", "chatbot"}
UpdateStages == {"read-links", "drop", "reap", "find-link", "datasource", "attach",
                 "link-source", "upload", "store", "mark", "read-selection", "append"}
DeleteStages == {"avatar", "wipe", "delete-kb"}
ImageStages == {"store-image", "commit-image", "delete-image"}

Creates(q) == q.op \in {"create-from-moodle", "create-from-files"} /\ q.at \in CreateStages
Updates(q) == q.op = "update" /\ q.at \in UpdateStages
Deletes(q) == q.op = "delete" /\ q.at \in DeleteStages
Replaces(q) == q.op = "image" /\ q.at \in ImageStages

Uploads(q) == q.at \in {"store", "mark"}
HasSource(q) == q.at \in {"attach", "link-source", "upload", "store", "mark", "read-selection",
                          "append"}
NoFileYet(q) == q.at \in {"moodle", "datasource", "read-links", "drop", "reap", "find-link",
                          "attach", "link-source"}

\* The shape of a request, which stores nothing before it uploads.
RequestOK(q) ==
    /\ DOMAIN q = DOMAIN Idle
    /\ q = Idle \/ Creates(q) \/ Updates(q) \/ Deletes(q) \/ Replaces(q)
    /\ q # Idle => q.bot \in Chatbots
    /\ q.bot \in Chatbots \union {None}
    /\ q.ds \in Datasources \union {None}
    /\ q.moodle \in Datasources \union {None}
    /\ q.todo \subseteq Files
    /\ q.stored \subseteq Files
    /\ Uploads(q) => q.now \in q.todo
    /\ HasSource(q) => q.ds # None
    /\ q.stored # {} => q.ds # None
    /\ NoFileYet(q) => q.stored = {}
    /\ q.at \in {"datasource", "find-link", "attach", "link-source"} => q.todo # {}
    /\ q.at \in {"moodle", "datasource", "read-links", "drop", "reap", "find-link"} => q.ds = None
    /\ q.at = "drop" => /\ DOMAIN q.seen \subseteq Datasources
                        /\ \A d \in DOMAIN q.seen : q.seen[d] \subseteq Files
    /\ q.at = "append" => q.seen \subseteq Files
    /\ q.at \in {"read-links", "drop", "reap"} => q.drop \subseteq Files
    /\ q.at \in {"wipe", "delete-kb"} => q.drop \subseteq Datasources
    /\ q.kind \in Kinds
    /\ q.new \in Images \union {None}
    /\ q.old \in Images \union {None}

CleanupOK ==
    /\ DOMAIN cleanup = DOMAIN NoRun
    /\ cleanup = NoRun \/ cleanup.at \in {"planned", "objects"}
    /\ cleanup.files \subseteq Files
    /\ cleanup.sources \subseteq Datasources
    /\ cleanup.since \in Nat /\ cleanup.since <= started

ShapeOK ==
    /\ TypeOK
    /\ DOMAIN request = Requests
    /\ \A r \in Requests : RequestOK(request[r])
    /\ CleanupOK
    /\ started \in Nat /\ faults \in Nat

-----------------------------------------------------------------------------
(* Chatbots and datasources.                                               *)

\* A request is about a chatbot in the state that its operation takes it to.
BotsOK ==
    \A r \in Requests :
        /\ Creates(request[r]) =>
              /\ chatbot[request[r].bot] = "absent"
              /\ \A q \in Requests \ {r} : request[q].bot # request[r].bot
        /\ Deletes(request[r]) => chatbot[request[r].bot] = "deleted"
        /\ Updates(request[r]) \/ Replaces(request[r]) => chatbot[request[r].bot] # "absent"

\* The datasources a request is about.
Holds(q, d) ==
    \/ d \in {q.ds, q.moodle}
    \/ q.at \in {"wipe", "delete-kb"} /\ d \in q.drop
    \/ q.at = "drop" /\ d \in DOMAIN q.seen

\* The chatbots that a datasource is linked to or that requests use it for.
Claims(d) ==
    {c \in Chatbots : \/ link[d] # None /\ link[d].kb = c
                      \/ \E r \in Requests : request[r].bot = c /\ Holds(request[r], d)}

\* There is at most one, and none before the datasource is made.
ClaimsOK ==
    \A d \in Datasources :
        /\ \A b, c \in Claims(d) : b = c
        /\ source[d] = "absent" => Claims(d) = {}

-----------------------------------------------------------------------------
(* Files.                                                                  *)

\* A file that was uploaded under a datasource, whatever became of it.
Kept(f, d) == home[f] = d /\ row[f] \in {"uploaded", "deleted"}

\* A datasource that is gone with its files.
Dead(d) == source[d] = "deleted" /\ \A f \in Files : home[f] = d => ~ HasRow(f)

\* A datasource linked to the KB of a deleted chatbot.
Doomed(d) == link[d] # None /\ chatbot[link[d].kb] = "deleted"

UploadsOK ==
    /\ \A f \in Files : row[f] # "absent" => home[f] \in Datasources
    /\ \A r \in Requests : \A f \in request[r].todo :
          row[f] = "absent" \/ (Uploads(request[r]) /\ f = request[r].now)
    /\ \A r \in Requests : Uploads(request[r]) =>
          /\ home[request[r].now] = request[r].ds
          /\ row[request[r].now] \in {"uploading", "deleted"}
    /\ \A r, q \in Requests : r # q => request[r].todo \intersect request[q].todo = {}

\* What a request has read or done still describes the files and the links.
Retains(q) ==
    /\ \A f \in q.stored : Kept(f, q.ds)
    /\ q.at = "append" => \A f \in q.seen : Kept(f, q.ds)
    /\ q.at = "drop" => \A d \in DOMAIN q.seen : \A f \in q.seen[d] : Kept(f, d)
    /\ q.at = "reap" => \A f \in q.drop : row[f] = "deleted"
    /\ q.at \in {"wipe", "delete-kb"} => \A d \in q.drop : link[d] # None \/ Dead(d)

KeptOK ==
    /\ \A d \in Datasources : \A f \in Selected(d) : Kept(f, d)
    /\ \A r \in Requests : Retains(request[r])
    /\ cleanup.at = "planned" =>
          /\ \A f \in cleanup.files : row[f] # "absent"
          /\ \A d \in cleanup.sources : source[d] # "absent"
    /\ cleanup.at = "objects" =>
          /\ \A f \in cleanup.files : row[f] = "deleted"
          /\ \A d \in cleanup.sources : Dead(d)

\* A file with a row whose object has been stored.
Needed(f) ==
    HasRow(f) /\ \/ row[f] = "uploaded"
                 \/ \E r \in Requests : request[r].at = "mark" /\ request[r].now = f

\* Its object is gone only with its chatbot.
StoredOK == \A f \in Files : Needed(f) => f \in objects \/ Doomed(home[f])

-----------------------------------------------------------------------------
(* Images.                                                                 *)

\* An image that a request found is its chatbot's alone, and no longer once replaced.
OldOK(q) ==
    \A c \in Chatbots, k \in Kinds :
        q.old # None /\ image[c][k] = q.old => c = q.bot /\ k = q.kind /\ q.at # "delete-image"

\* An image that a request brings is nobody else's, and stored before it is committed.
Brings(q) == q.at \in {"store-image", "commit-image"} /\ q.new # None

NewOK(r) ==
    LET q == request[r] IN
    /\ q.at = "store-image" => q.new # None
    /\ Brings(q) =>
          /\ \A c \in Chatbots, k \in Kinds : image[c][k] # q.new
          /\ \A p \in Requests : request[p].old # q.new
          /\ \A p \in Requests \ {r} : request[p].new # q.new
          /\ q.at = "commit-image" => q.new \in objects

ImagesOK ==
    /\ \A b, c \in Chatbots, j, k \in Kinds :
          image[b][j] # None /\ image[b][j] = image[c][k] => b = c /\ j = k
    /\ \A c \in Chatbots, k \in Kinds :
          /\ chatbot[c] = "absent" => image[c][k] = None
          /\ chatbot[c] = "live" /\ image[c][k] # None => image[c][k] \in objects
    /\ \A r \in Requests : OldOK(request[r]) /\ NewOK(r)

ServedInv == ShapeOK /\ BotsOK /\ ClaimsOK /\ UploadsOK /\ KeptOK /\ StoredOK /\ ImagesOK

-----------------------------------------------------------------------------
(* Selections.                                                             *)

\* A plan made and not overtaken still describes the tables.
PlanOK ==
    cleanup.at = "planned" /\ cleanup.alone /\ cleanup.since = started =>
        Busy = {} /\ cleanup.files = Unselected /\ cleanup.sources = Unlinked

SelectionsOK ==
    "selection" \notin spills =>
        /\ \A f \in AllSelected : row[f] = "uploaded"
        /\ \A r \in Requests : Creates(request[r]) => \A f \in request[r].stored : row[f] = "uploaded"

SelectionInv == ServedInv /\ PlanOK /\ SelectionsOK

-----------------------------------------------------------------------------
(* Leftovers.                                                              *)

\* What a request in a stage has stored, made or taken away.
Filing(q) == q.at \in {"upload", "store", "mark", "kb", "link-moodle", "link-files",
                       "read-selection", "append"}

FilesOf(q) == (IF Filing(q) THEN q.stored ELSE {}) \union (IF Uploads(q) THEN {q.now} ELSE {})

SourcesOf(q) ==
    (IF HasSource(q) \/ q.at \in {"kb", "link-moodle", "link-files"} THEN {q.ds} ELSE {})
      \union (IF q.at \in {"datasource", "upload", "store", "mark", "kb", "link-moodle"}
              THEN {q.moodle} ELSE {})

ObjectsOf(q) ==
    (IF q.at = "mark" THEN {q.now} ELSE {}) \union (IF q.at = "reap" THEN q.drop ELSE {})
      \union (IF q.at \in {"avatar", "delete-image"} THEN {q.old} ELSE {})
      \union (IF q.at = "commit-image" THEN {q.new} ELSE {})

\* The KB that a request makes for a chatbot is there until the chatbot is, and a
\* datasource for files is made for the sake of one.
Staged(q) ==
    /\ Creates(q) /\ q.at \in {"link-moodle", "link-files"} => q.bot \in kb
    /\ Creates(q) /\ q.moodle # None => q.moodle # q.ds
    /\ Updates(q) => q.moodle = None
    /\ HasSource(q) /\ q.at \notin {"read-selection", "append"} /\ q.stored = {} =>
          q.todo # {} \/ "datasource" \in spills
    /\ q.at \in {"kb", "link-moodle", "link-files"} /\ q.ds # None /\ q.stored = {} =>
          "datasource" \in spills

StagesOK == \A r \in Requests : Staged(request[r])

\* The datasources that a request has made and not linked are its own.
Pending(q) ==
    (IF (Creates(q) /\ q.at # "chatbot") \/ q.at \in {"attach", "link-source"} THEN {q.ds} ELSE {})
      \union (IF Creates(q) /\ q.at \notin {"link-files", "chatbot"} THEN {q.moodle} ELSE {})

PendingOK ==
    \A r \in Requests : \A d \in Pending(request[r]) \intersect Datasources :
        link[d] = None /\ \A p \in Requests \ {r} : ~ Holds(request[p], d)

RowsOK ==
    "row" \notin spills =>
        /\ \A f \in Files : HasRow(f) =>
              f \in AllSelected \/ \E r \in Requests : f \in FilesOf(request[r])
        /\ \A r \in Requests : Creates(request[r]) /\ request[r].ds # None => Exists(request[r].ds)

SourcesOK ==
    "datasource" \notin spills =>
        \A d \in Datasources : Exists(d) =>
            link[d] # None \/ \E r \in Requests : d \in SourcesOf(request[r])

KbsOK ==
    "kb" \notin spills =>
        /\ \A c \in kb : \/ chatbot[c] = "live"
                         \/ \E r \in Requests : /\ request[r].bot = c
                                                /\ Creates(request[r]) \/ Deletes(request[r])
        /\ \A r \in Requests :
              Creates(request[r]) /\ request[r].at \notin {"link-moodle", "link-files", "chatbot"} =>
                 request[r].bot \notin kb

\* What an object is there for.
Accounted(o) ==
    \/ o \in Files /\ HasRow(o)
    \/ \E c \in Chatbots : chatbot[c] = "live" /\ o \in Shown(c)
    \/ \E r \in Requests : o \in ObjectsOf(request[r])
    \/ cleanup.at = "objects" /\ o \in cleanup.files \union StoredUnder(cleanup.sources)

ObjectsOK ==
    /\ None \notin objects
    /\ "object" \notin spills => \A o \in objects : Accounted(o)

LeakInv ==
    SelectionInv /\ StagesOK /\ PendingOK /\ RowsOK /\ SourcesOK /\ KbsOK /\ ObjectsOK

-----------------------------------------------------------------------------
(* How a step changes a request.                                           *)

Others(r) ==
    /\ DOMAIN request' = Requests
    /\ \A q \in Requests \ {r} : request'[q] = request[q]

\* What a request keeps from its beginning.
Fixed(q, s) ==
    /\ DOMAIN s = DOMAIN q
    /\ s.op = q.op /\ s.bot = q.bot /\ s.kind = q.kind /\ s.new = q.new /\ s.old = q.old
SameSources(q, s) == s.ds = q.ds /\ s.moodle = q.moodle
SameFiles(q, s) == s.todo = q.todo /\ s.now = q.now /\ s.stored = q.stored
SameReads(q, s) == s.drop = q.drop /\ s.seen = q.seen

LEMMA IdleFields ==
    /\ Idle.op = "none" /\ Idle.at = "idle" /\ Idle.bot = None /\ Idle.ds = None
    /\ Idle.moodle = None /\ Idle.todo = {} /\ Idle.stored = {} /\ Idle.kind = "avatar"
    /\ Idle.new = None /\ Idle.old = None
  BY DEF Idle

LEMMA IdleOK == RequestOK(Idle)
  BY DEF RequestOK, Idle, Kinds, Uploads, HasSource, NoFileYet

LEMMA EndsStep ==
  ASSUME ShapeOK, NEW r \in Requests, Ends(r)
  PROVE  Others(r) /\ request'[r] = Idle
  BY DEF ShapeOK, Ends, Others

LEMMA BecomesStep ==
  ASSUME ShapeOK, NEW r \in Requests, NEW fields, Becomes(r, fields)
  PROVE  Others(r) /\ request'[r] = Updated(request[r], fields)
  BY DEF ShapeOK, Becomes, Others

LEMMA ToStage ==
  ASSUME NEW q, NEW s, NEW a, DOMAIN q = DOMAIN Idle, s = Updated(q, [at |-> a])
  PROVE  /\ Fixed(q, s) /\ SameSources(q, s) /\ SameFiles(q, s) /\ SameReads(q, s)
         /\ s.at = a
  BY DEF Updated, Idle, Fixed, SameSources, SameFiles, SameReads

\* The operation of a request at each stage.
LEMMA Stages ==
  ASSUME NEW q, RequestOK(q)
  PROVE  /\ q.at = "idle" <=> q = Idle
         /\ q.at \in CreateStages \ UpdateStages => Creates(q)
         /\ q.at \in UpdateStages \ CreateStages => Updates(q)
         /\ q.at \in CreateStages \intersect UpdateStages => Creates(q) \/ Updates(q)
         /\ q.at \in DeleteStages => Deletes(q)
         /\ q.at \in ImageStages => Replaces(q)
  BY IdleFields DEF RequestOK, Creates, Updates, Deletes, Replaces, CreateStages, UpdateStages,
     DeleteStages, ImageStages

\* The tables and the bucket are well typed.
TablesOK ==
    /\ chatbot \in [Chatbots -> {"absent", "live", "deleted"}]
    /\ image \in [Chatbots -> [Kinds -> Images \union {None}]]
    /\ kb \subseteq Chatbots
    /\ source \in [Datasources -> {"absent", "file", "moodle", "deleted"}]
    /\ link \in [Datasources -> {None} \union [kb : kb, selection : SUBSET Files]]
    /\ row \in [Files -> {"absent", "uploading", "uploaded", "error", "deleted"}]
    /\ home \in [Files -> Datasources \union {None}]
    /\ objects \subseteq Files \union Images \union {None}
    /\ spills \subseteq Leftovers

LEMMA ShapeTables == ShapeOK => TablesOK
  BY DEF ShapeOK, TypeOK, TablesOK

LEMMA SameTables == TablesOK /\ UNCHANGED <<dbVars, objects>> /\ spills' \subseteq Leftovers => TablesOK'
  BY DEF TablesOK, dbVars

LEMMA ShapeStep ==
  ASSUME ShapeOK, TablesOK', NEW r \in Requests, Others(r), RequestOK(request'[r]),
         cleanup' = cleanup, started' \in {started, started + 1}, faults' \in {faults, faults + 1}
  PROVE  ShapeOK'
<1>1. \A q \in Requests : RequestOK(request'[q])
  BY DEF ShapeOK, Others
<1>2. \A q \in Requests : request'[q].bot \in Chatbots \union {None}
  BY <1>1 DEF RequestOK
<1>3. TypeOK'
  BY <1>2 DEF TypeOK, TablesOK
<1>4. CleanupOK' /\ started' \in Nat /\ faults' \in Nat
  BY DEF ShapeOK, CleanupOK
<1> QED
  BY <1>1, <1>3, <1>4 DEF ShapeOK, Others

\* A request ends, or goes on.
Ended(r) == Others(r) /\ request'[r] = Idle
Proceeds(r) == Others(r) /\ Fixed(request[r], request'[r])

LEMMA EndedShape ==
  ASSUME ShapeOK, TablesOK', NEW r \in Requests, Ends(r),
         cleanup' = cleanup, started' \in {started, started + 1}, faults' \in {faults, faults + 1}
  PROVE  ShapeOK' /\ Ended(r)
  BY EndsStep, IdleOK, ShapeStep DEF Ended

LEMMA CreateMoodleSourceShape ==
  ASSUME ShapeOK, NEW r \in Requests, CreateMoodleSource(r)
  PROVE  LET q == request[r]
             s == request'[r]
         IN  /\ ShapeOK' /\ q.at = "moodle" /\ Creates(q)
             /\ \/ Ended(r)
                \/ /\ Proceeds(r) /\ SameFiles(q, s) /\ SameReads(q, s)
                   /\ s.ds = q.ds /\ s.moodle \in FreshSources
                   /\ source' = [source EXCEPT ![s.moodle] = "moodle"]
                   /\ s.at = (IF q.todo = {} THEN "kb" ELSE "datasource")
<1> DEFINE q == request[r]
           s == request'[r]
<1>1. RequestOK(q) /\ TablesOK
  BY ShapeTables DEF ShapeOK
<1>2. q.at = "moodle" /\ Creates(q)
  BY <1>1, Stages DEF CreateMoodleSource, CreateStages, UpdateStages, DeleteStages, ImageStages
<1>3. TablesOK'
  BY <1>1, <1>2, SameTables DEF CreateMoodleSource, TablesOK, FreshSources, Spill, Leftovers
<1>4. Ends(r) => ShapeOK' /\ Ended(r)
  BY <1>3, EndedShape DEF CreateMoodleSource, Fault, boundVars
<1>5. ASSUME NEW d \in FreshSources, source' = [source EXCEPT ![d] = "moodle"], Becomes(r, [at |-> IF q.todo = {} THEN "kb" ELSE "datasource", moodle |-> d])
      PROVE  /\ ShapeOK' /\ Proceeds(r)
             /\ SameFiles(q, s)
             /\ SameReads(q, s)
             /\ s.ds = q.ds
             /\ s.moodle \in FreshSources
             /\ source' = [source EXCEPT ![s.moodle] = "moodle"]
             /\ s.at = (IF q.todo = {} THEN "kb" ELSE "datasource")
  <2>1. Others(r) /\ s = Updated(q, [at |-> IF q.todo = {} THEN "kb" ELSE "datasource", moodle |-> d])
    BY <1>5, BecomesStep
  <2>2. /\ Fixed(q, s) /\ SameFiles(q, s) /\ SameReads(q, s)
        /\ s.ds = q.ds
        /\ s.moodle \in FreshSources
        /\ source' = [source EXCEPT ![s.moodle] = "moodle"]
        /\ s.at = (IF q.todo = {} THEN "kb" ELSE "datasource")
    BY <1>1, <1>2, <1>5, <2>1 DEF Updated, Idle, Fixed, SameSources, SameFiles, SameReads,
       RequestOK
  <2> HIDE DEF s
  <2>3. RequestOK(s)
    BY <1>1, <1>2, <1>5, <2>2, IdleFields, NoneIsNothing
       DEF RequestOK, Fixed, SameSources, SameFiles, SameReads,
       Creates, Updates, Deletes, Replaces, CreateStages, UpdateStages, DeleteStages,
       ImageStages,
       Uploads, HasSource, NoFileYet, FreshSources
  <2> QED
    BY <1>3, <2>1, <2>2, <2>3, ShapeStep DEF CreateMoodleSource, Fault, Proceeds, boundVars, s
<1> QED
  BY <1>2, <1>4, <1>5 DEF CreateMoodleSource

LEMMA CreateFileSourceShape ==
  ASSUME ShapeOK, NEW r \in Requests, CreateFileSource(r)
  PROVE  LET q == request[r]
             s == request'[r]
         IN  /\ ShapeOK' /\ q.at = "datasource" /\ (Creates(q) \/ Updates(q))
             /\ Proceeds(r) /\ SameFiles(q, s) /\ SameReads(q, s)
             /\ s.moodle = q.moodle /\ s.ds \in FreshSources
             /\ source' = [source EXCEPT ![s.ds] = "file"]
             /\ s.at = (IF q.op = "update" THEN "attach" ELSE "upload")
<1> DEFINE q == request[r]
           s == request'[r]
<1>1. RequestOK(q) /\ TablesOK
  BY ShapeTables DEF ShapeOK
<1>2. q.at = "datasource" /\ (Creates(q) \/ Updates(q))
  BY <1>1, Stages DEF CreateFileSource, CreateStages, UpdateStages, DeleteStages, ImageStages
<1>3. TablesOK'
  BY <1>1, <1>2, SameTables DEF CreateFileSource, TablesOK, FreshSources
<1>4. ASSUME NEW d \in FreshSources, source' = [source EXCEPT ![d] = "file"], Becomes(r, [at |-> IF q.op = "update" THEN "attach" ELSE "upload", ds |-> d])
      PROVE  /\ ShapeOK' /\ Proceeds(r)
             /\ SameFiles(q, s)
             /\ SameReads(q, s)
             /\ s.moodle = q.moodle
             /\ s.ds \in FreshSources
             /\ source' = [source EXCEPT ![s.ds] = "file"]
             /\ s.at = (IF q.op = "update" THEN "attach" ELSE "upload")
  <2>1. Others(r) /\ s = Updated(q, [at |-> IF q.op = "update" THEN "attach" ELSE "upload", ds |-> d])
    BY <1>4, BecomesStep
  <2>2. /\ Fixed(q, s) /\ SameFiles(q, s) /\ SameReads(q, s)
        /\ s.moodle = q.moodle
        /\ s.ds \in FreshSources
        /\ source' = [source EXCEPT ![s.ds] = "file"]
        /\ s.at = (IF q.op = "update" THEN "attach" ELSE "upload")
    BY <1>1, <1>2, <1>4, <2>1 DEF Updated, Idle, Fixed, SameSources, SameFiles, SameReads,
       RequestOK
  <2> HIDE DEF s
  <2>3. RequestOK(s)
    BY <1>1, <1>2, <1>4, <2>2, IdleFields, NoneIsNothing
       DEF RequestOK, Fixed, SameSources, SameFiles, SameReads,
       Creates, Updates, Deletes, Replaces, CreateStages, UpdateStages, DeleteStages,
       ImageStages,
       Uploads, HasSource, NoFileYet, FreshSources
  <2> QED
    BY <1>3, <2>1, <2>2, <2>3, ShapeStep DEF CreateFileSource, Fault, Proceeds, boundVars, s
<1> QED
  BY <1>2, <1>4 DEF CreateFileSource

LEMMA CreateKbShape ==
  ASSUME ShapeOK, NEW r \in Requests, CreateKb(r)
  PROVE  LET q == request[r]
             s == request'[r]
         IN  /\ ShapeOK' /\ q.at = "kb" /\ Creates(q)
             /\ Proceeds(r) /\ SameSources(q, s) /\ SameFiles(q, s)
             /\ SameReads(q, s)
             /\ s.at = (IF q.moodle # None THEN "link-moodle" ELSE "link-files")
<1> DEFINE q == request[r]
           s == request'[r]
<1>1. RequestOK(q) /\ TablesOK
  BY ShapeTables DEF ShapeOK
<1>2. q.at = "kb" /\ Creates(q)
  BY <1>1, Stages DEF CreateKb, CreateStages, UpdateStages, DeleteStages, ImageStages
<1>3. TablesOK'
  <2>1. kb' \subseteq Chatbots /\ kb \subseteq kb' /\ link' = link
    BY <1>1, <1>2, NoneIsNothing DEF CreateKb, TablesOK, RequestOK, Creates, Idle
  <2>2. link' \in [Datasources -> {None} \union [kb : kb', selection : SUBSET Files]]
    BY <1>1, <2>1 DEF TablesOK
  <2> QED
    BY <1>1, <2>1, <2>2 DEF CreateKb, TablesOK
<1>4. ASSUME Becomes(r, [at |-> IF q.moodle # None THEN "link-moodle" ELSE "link-files"])
      PROVE  /\ ShapeOK' /\ Proceeds(r)
             /\ SameSources(q, s)
             /\ SameFiles(q, s)
             /\ SameReads(q, s)
             /\ s.at = (IF q.moodle # None THEN "link-moodle" ELSE "link-files")
  <2>1. Others(r) /\ s = Updated(q, [at |-> IF q.moodle # None THEN "link-moodle" ELSE "link-files"])
    BY <1>4, BecomesStep
  <2>2. /\ Fixed(q, s) /\ SameSources(q, s) /\ SameFiles(q, s) /\ SameReads(q, s)
        /\ s.at = (IF q.moodle # None THEN "link-moodle" ELSE "link-files")
    BY <1>1, <1>2, <1>4, <2>1 DEF Updated, Idle, Fixed, SameSources, SameFiles, SameReads,
       RequestOK
  <2> HIDE DEF s
  <2>3. RequestOK(s)
    BY <1>1, <1>2, <1>4, <2>2, IdleFields, NoneIsNothing
       DEF RequestOK, Fixed, SameSources, SameFiles, SameReads,
       Creates, Updates, Deletes, Replaces, CreateStages, UpdateStages, DeleteStages,
       ImageStages,
       Uploads, HasSource, NoFileYet
  <2> QED
    BY <1>3, <2>1, <2>2, <2>3, ShapeStep DEF CreateKb, Fault, Proceeds, boundVars, s
<1> QED
  BY <1>2, <1>4 DEF CreateKb

LEMMA LinkMoodleShape ==
  ASSUME ShapeOK, NEW r \in Requests, LinkMoodle(r)
  PROVE  LET q == request[r]
             s == request'[r]
         IN  /\ ShapeOK' /\ q.at = "link-moodle" /\ Creates(q)
             /\ Proceeds(r) /\ SameSources(q, s) /\ SameFiles(q, s)
             /\ SameReads(q, s) /\ s.at = "link-files"
<1> DEFINE q == request[r]
           s == request'[r]
<1>1. RequestOK(q) /\ TablesOK
  BY ShapeTables DEF ShapeOK
<1>2. q.at = "link-moodle" /\ Creates(q)
  BY <1>1, Stages DEF LinkMoodle, CreateStages, UpdateStages, DeleteStages, ImageStages
<1>3. TablesOK'
  BY <1>1, <1>2, SameTables DEF LinkMoodle, TablesOK, Linked
<1>4. ASSUME Becomes(r, [at |-> "link-files"])
      PROVE  /\ ShapeOK' /\ Proceeds(r)
             /\ SameSources(q, s)
             /\ SameFiles(q, s)
             /\ SameReads(q, s)
             /\ s.at = "link-files"
  <2>1. Others(r) /\ s = Updated(q, [at |-> "link-files"])
    BY <1>4, BecomesStep
  <2>2. /\ Fixed(q, s) /\ SameSources(q, s) /\ SameFiles(q, s) /\ SameReads(q, s)
        /\ s.at = "link-files"
    BY <1>1, <1>2, <1>4, <2>1 DEF Updated, Idle, Fixed, SameSources, SameFiles, SameReads,
       RequestOK
  <2> HIDE DEF s
  <2>3. RequestOK(s)
    BY <1>1, <1>2, <1>4, <2>2, IdleFields, NoneIsNothing
       DEF RequestOK, Fixed, SameSources, SameFiles, SameReads,
       Creates, Updates, Deletes, Replaces, CreateStages, UpdateStages, DeleteStages,
       ImageStages,
       Uploads, HasSource, NoFileYet
  <2> QED
    BY <1>3, <2>1, <2>2, <2>3, ShapeStep DEF LinkMoodle, Fault, Proceeds, boundVars, s
<1> QED
  BY <1>2, <1>4 DEF LinkMoodle

LEMMA LinkFilesShape ==
  ASSUME ShapeOK, NEW r \in Requests, LinkFiles(r)
  PROVE  LET q == request[r]
             s == request'[r]
         IN  /\ ShapeOK' /\ q.at = "link-files" /\ Creates(q)
             /\ Proceeds(r) /\ SameSources(q, s) /\ SameFiles(q, s)
             /\ SameReads(q, s) /\ s.at = "chatbot"
<1> DEFINE q == request[r]
           s == request'[r]
<1>1. RequestOK(q) /\ TablesOK
  BY ShapeTables DEF ShapeOK
<1>2. q.at = "link-files" /\ Creates(q)
  BY <1>1, Stages DEF LinkFiles, CreateStages, UpdateStages, DeleteStages, ImageStages
<1>3. TablesOK'
  BY <1>1, <1>2, SameTables DEF LinkFiles, TablesOK, Linked, RequestOK
<1>4. ASSUME Becomes(r, [at |-> "chatbot"])
      PROVE  /\ ShapeOK' /\ Proceeds(r)
             /\ SameSources(q, s)
             /\ SameFiles(q, s)
             /\ SameReads(q, s)
             /\ s.at = "chatbot"
  <2>1. Others(r) /\ s = Updated(q, [at |-> "chatbot"])
    BY <1>4, BecomesStep
  <2>2. /\ Fixed(q, s) /\ SameSources(q, s) /\ SameFiles(q, s) /\ SameReads(q, s)
        /\ s.at = "chatbot"
    BY <1>1, <1>2, <1>4, <2>1 DEF Updated, Idle, Fixed, SameSources, SameFiles, SameReads,
       RequestOK
  <2> HIDE DEF s
  <2>3. RequestOK(s)
    BY <1>1, <1>2, <1>4, <2>2, IdleFields, NoneIsNothing
       DEF RequestOK, Fixed, SameSources, SameFiles, SameReads,
       Creates, Updates, Deletes, Replaces, CreateStages, UpdateStages, DeleteStages,
       ImageStages,
       Uploads, HasSource, NoFileYet
  <2> QED
    BY <1>3, <2>1, <2>2, <2>3, ShapeStep DEF LinkFiles, Fault, Proceeds, boundVars, s
<1> QED
  BY <1>2, <1>4 DEF LinkFiles

LEMMA CreateChatbotShape ==
  ASSUME ShapeOK, NEW r \in Requests, CreateChatbot(r)
  PROVE  LET q == request[r]
             s == request'[r]
         IN  /\ ShapeOK' /\ q.at = "chatbot" /\ Creates(q)
             /\ Ended(r)
<1> DEFINE q == request[r]
           s == request'[r]
<1>1. RequestOK(q) /\ TablesOK
  BY ShapeTables DEF ShapeOK
<1>2. q.at = "chatbot" /\ Creates(q)
  BY <1>1, Stages DEF CreateChatbot, CreateStages, UpdateStages, DeleteStages, ImageStages
<1>3. TablesOK'
  BY <1>1, <1>2, SameTables DEF CreateChatbot, TablesOK
<1>4. Ends(r) => ShapeOK' /\ Ended(r)
  BY <1>3, EndedShape DEF CreateChatbot, Fault, boundVars
<1> QED
  BY <1>2, <1>4 DEF CreateChatbot

LEMMA SkipFileShape ==
  ASSUME ShapeOK, NEW r \in Requests, SkipFile(r)
  PROVE  LET q == request[r]
             s == request'[r]
         IN  /\ ShapeOK' /\ q.at = "upload" /\ (Creates(q) \/ Updates(q))
             /\ Proceeds(r) /\ SameSources(q, s) /\ SameReads(q, s)
             /\ s.now = q.now /\ s.stored = q.stored
             /\ s.todo \subseteq q.todo /\ s.at = "upload"
<1> DEFINE q == request[r]
           s == request'[r]
<1>1. RequestOK(q) /\ TablesOK
  BY ShapeTables DEF ShapeOK
<1>2. q.at = "upload" /\ (Creates(q) \/ Updates(q))
  BY <1>1, Stages DEF SkipFile, CreateStages, UpdateStages, DeleteStages, ImageStages
<1>3. TablesOK'
  BY <1>1, <1>2, SameTables DEF SkipFile, TablesOK, Spill, Leftovers, dbVars
<1>4. ASSUME NEW f \in q.todo, Becomes(r, [todo |-> q.todo \ {f}])
      PROVE  /\ ShapeOK' /\ Proceeds(r)
             /\ SameSources(q, s)
             /\ SameReads(q, s)
             /\ s.now = q.now
             /\ s.stored = q.stored
             /\ s.todo \subseteq q.todo
             /\ s.at = "upload"
  <2>1. Others(r) /\ s = Updated(q, [todo |-> q.todo \ {f}])
    BY <1>4, BecomesStep
  <2>2. /\ Fixed(q, s) /\ SameSources(q, s) /\ SameReads(q, s)
        /\ s.now = q.now
        /\ s.stored = q.stored
        /\ s.todo \subseteq q.todo
        /\ s.at = "upload"
    BY <1>1, <1>2, <1>4, <2>1 DEF Updated, Idle, Fixed, SameSources, SameFiles, SameReads,
       RequestOK
  <2> HIDE DEF s
  <2>3. RequestOK(s)
    BY <1>1, <1>2, <1>4, <2>2, IdleFields, NoneIsNothing
       DEF RequestOK, Fixed, SameSources, SameFiles, SameReads,
       Creates, Updates, Deletes, Replaces, CreateStages, UpdateStages, DeleteStages,
       ImageStages,
       Uploads, HasSource, NoFileYet
  <2> QED
    BY <1>3, <2>1, <2>2, <2>3, ShapeStep DEF SkipFile, Fault, Proceeds, boundVars, s
<1> QED
  BY <1>2, <1>4 DEF SkipFile

LEMMA AddRowShape ==
  ASSUME ShapeOK, NEW r \in Requests, AddRow(r)
  PROVE  LET q == request[r]
             s == request'[r]
         IN  /\ ShapeOK' /\ q.at = "upload" /\ (Creates(q) \/ Updates(q))
             /\ Proceeds(r) /\ SameSources(q, s) /\ SameReads(q, s)
             /\ s.todo = q.todo /\ s.stored = q.stored /\ s.now \in q.todo
             /\ s.at = "store"
<1> DEFINE q == request[r]
           s == request'[r]
<1>1. RequestOK(q) /\ TablesOK
  BY ShapeTables DEF ShapeOK
<1>2. q.at = "upload" /\ (Creates(q) \/ Updates(q))
  BY <1>1, Stages DEF AddRow, CreateStages, UpdateStages, DeleteStages, ImageStages
<1>3. TablesOK'
  BY <1>1, <1>2, SameTables DEF AddRow, TablesOK, RequestOK, HasSource
<1>4. ASSUME NEW f \in q.todo, Becomes(r, [at |-> "store", now |-> f])
      PROVE  /\ ShapeOK' /\ Proceeds(r)
             /\ SameSources(q, s)
             /\ SameReads(q, s)
             /\ s.todo = q.todo
             /\ s.stored = q.stored
             /\ s.now \in q.todo
             /\ s.at = "store"
  <2>1. Others(r) /\ s = Updated(q, [at |-> "store", now |-> f])
    BY <1>4, BecomesStep
  <2>2. /\ Fixed(q, s) /\ SameSources(q, s) /\ SameReads(q, s)
        /\ s.todo = q.todo
        /\ s.stored = q.stored
        /\ s.now \in q.todo
        /\ s.at = "store"
    BY <1>1, <1>2, <1>4, <2>1 DEF Updated, Idle, Fixed, SameSources, SameFiles, SameReads,
       RequestOK
  <2> HIDE DEF s
  <2>3. RequestOK(s)
    BY <1>1, <1>2, <1>4, <2>2, IdleFields, NoneIsNothing
       DEF RequestOK, Fixed, SameSources, SameFiles, SameReads,
       Creates, Updates, Deletes, Replaces, CreateStages, UpdateStages, DeleteStages,
       ImageStages,
       Uploads, HasSource, NoFileYet
  <2> QED
    BY <1>3, <2>1, <2>2, <2>3, ShapeStep DEF AddRow, Fault, Proceeds, boundVars, s
<1> QED
  BY <1>2, <1>4 DEF AddRow

LEMMA StoreFileShape ==
  ASSUME ShapeOK, NEW r \in Requests, StoreFile(r)
  PROVE  LET q == request[r]
             s == request'[r]
         IN  /\ ShapeOK' /\ q.at = "store" /\ (Creates(q) \/ Updates(q))
             /\ Proceeds(r) /\ SameSources(q, s) /\ SameFiles(q, s)
             /\ SameReads(q, s) /\ s.at = "mark"
<1> DEFINE q == request[r]
           s == request'[r]
<1>1. RequestOK(q) /\ TablesOK
  BY ShapeTables DEF ShapeOK
<1>2. q.at = "store" /\ (Creates(q) \/ Updates(q))
  BY <1>1, Stages DEF StoreFile, CreateStages, UpdateStages, DeleteStages, ImageStages
<1>3. TablesOK'
  BY <1>1, <1>2, SameTables DEF StoreFile, TablesOK, RequestOK, Uploads, dbVars
<1>4. ASSUME Becomes(r, [at |-> "mark"])
      PROVE  /\ ShapeOK' /\ Proceeds(r)
             /\ SameSources(q, s)
             /\ SameFiles(q, s)
             /\ SameReads(q, s)
             /\ s.at = "mark"
  <2>1. Others(r) /\ s = Updated(q, [at |-> "mark"])
    BY <1>4, BecomesStep
  <2>2. /\ Fixed(q, s) /\ SameSources(q, s) /\ SameFiles(q, s) /\ SameReads(q, s)
        /\ s.at = "mark"
    BY <1>1, <1>2, <1>4, <2>1 DEF Updated, Idle, Fixed, SameSources, SameFiles, SameReads,
       RequestOK
  <2> HIDE DEF s
  <2>3. RequestOK(s)
    BY <1>1, <1>2, <1>4, <2>2, IdleFields, NoneIsNothing
       DEF RequestOK, Fixed, SameSources, SameFiles, SameReads,
       Creates, Updates, Deletes, Replaces, CreateStages, UpdateStages, DeleteStages,
       ImageStages,
       Uploads, HasSource, NoFileYet
  <2> QED
    BY <1>3, <2>1, <2>2, <2>3, ShapeStep DEF StoreFile, Fault, Proceeds, boundVars, s
<1> QED
  BY <1>2, <1>4 DEF StoreFile

LEMMA StoreFileFailsShape ==
  ASSUME ShapeOK, NEW r \in Requests, StoreFileFails(r)
  PROVE  LET q == request[r]
             s == request'[r]
         IN  /\ ShapeOK' /\ q.at = "store" /\ (Creates(q) \/ Updates(q))
             /\ \/ Ended(r)
                \/ /\ Proceeds(r) /\ SameSources(q, s) /\ SameReads(q, s)
                   /\ s.now = q.now /\ s.stored = q.stored
                   /\ s.todo = q.todo \ {q.now} /\ s.at = "upload"
<1> DEFINE q == request[r]
           s == request'[r]
<1>1. RequestOK(q) /\ TablesOK
  BY ShapeTables DEF ShapeOK
<1>2. q.at = "store" /\ (Creates(q) \/ Updates(q))
  BY <1>1, Stages DEF StoreFileFails, CreateStages, UpdateStages, DeleteStages, ImageStages
<1>3. TablesOK'
  BY <1>1, <1>2, SameTables DEF StoreFileFails, TablesOK, RequestOK, Uploads, Spill, Leftovers
<1>4. Ends(r) => ShapeOK' /\ Ended(r)
  BY <1>3, EndedShape DEF StoreFileFails, Fault, boundVars
<1>5. ASSUME Becomes(r, [at |-> "upload", todo |-> q.todo \ {q.now}])
      PROVE  /\ ShapeOK' /\ Proceeds(r)
             /\ SameSources(q, s)
             /\ SameReads(q, s)
             /\ s.now = q.now
             /\ s.stored = q.stored
             /\ s.todo = q.todo \ {q.now}
             /\ s.at = "upload"
  <2>1. Others(r) /\ s = Updated(q, [at |-> "upload", todo |-> q.todo \ {q.now}])
    BY <1>5, BecomesStep
  <2>2. /\ Fixed(q, s) /\ SameSources(q, s) /\ SameReads(q, s)
        /\ s.now = q.now
        /\ s.stored = q.stored
        /\ s.todo = q.todo \ {q.now}
        /\ s.at = "upload"
    BY <1>1, <1>2, <1>5, <2>1 DEF Updated, Idle, Fixed, SameSources, SameFiles, SameReads,
       RequestOK
  <2> HIDE DEF s
  <2>3. RequestOK(s)
    BY <1>1, <1>2, <1>5, <2>2, IdleFields, NoneIsNothing
       DEF RequestOK, Fixed, SameSources, SameFiles, SameReads,
       Creates, Updates, Deletes, Replaces, CreateStages, UpdateStages, DeleteStages,
       ImageStages,
       Uploads, HasSource, NoFileYet
  <2> QED
    BY <1>3, <2>1, <2>2, <2>3, ShapeStep DEF StoreFileFails, Fault, Proceeds, boundVars, s
<1> QED
  BY <1>2, <1>4, <1>5 DEF StoreFileFails

LEMMA MarkUploadedShape ==
  ASSUME ShapeOK, NEW r \in Requests, MarkUploaded(r)
  PROVE  LET q == request[r]
             s == request'[r]
         IN  /\ ShapeOK' /\ q.at = "mark" /\ (Creates(q) \/ Updates(q))
             /\ \/ Ended(r)
                \/ /\ Proceeds(r) /\ SameSources(q, s) /\ SameReads(q, s)
                   /\ s.now = q.now /\ s.stored = q.stored \union {q.now}
                   /\ s.todo = q.todo \ {q.now} /\ s.at = "upload"
<1> DEFINE q == request[r]
           s == request'[r]
<1>1. RequestOK(q) /\ TablesOK
  BY ShapeTables DEF ShapeOK
<1>2. q.at = "mark" /\ (Creates(q) \/ Updates(q))
  BY <1>1, Stages DEF MarkUploaded, CreateStages, UpdateStages, DeleteStages, ImageStages
<1>3. TablesOK'
  BY <1>1, <1>2, SameTables DEF MarkUploaded, TablesOK, RequestOK, Uploads, Spill, Leftovers
<1>4. Ends(r) => ShapeOK' /\ Ended(r)
  BY <1>3, EndedShape DEF MarkUploaded, Fault, boundVars
<1>5. ASSUME Becomes(r, [at |-> "upload", todo |-> q.todo \ {q.now},
                       stored |-> q.stored \union {q.now}])
      PROVE  /\ ShapeOK' /\ Proceeds(r)
             /\ SameSources(q, s)
             /\ SameReads(q, s)
             /\ s.now = q.now
             /\ s.stored = q.stored \union {q.now}
             /\ s.todo = q.todo \ {q.now}
             /\ s.at = "upload"
  <2>1. Others(r) /\ s = Updated(q, [at |-> "upload", todo |-> q.todo \ {q.now},
                                          stored |-> q.stored \union {q.now}])
    BY <1>5, BecomesStep
  <2>2. /\ Fixed(q, s) /\ SameSources(q, s) /\ SameReads(q, s)
        /\ s.now = q.now
        /\ s.stored = q.stored \union {q.now}
        /\ s.todo = q.todo \ {q.now}
        /\ s.at = "upload"
    BY <1>1, <1>2, <1>5, <2>1 DEF Updated, Idle, Fixed, SameSources, SameFiles, SameReads,
       RequestOK
  <2> HIDE DEF s
  <2>3. RequestOK(s)
    BY <1>1, <1>2, <1>5, <2>2, IdleFields, NoneIsNothing
       DEF RequestOK, Fixed, SameSources, SameFiles, SameReads,
       Creates, Updates, Deletes, Replaces, CreateStages, UpdateStages, DeleteStages,
       ImageStages,
       Uploads, HasSource, NoFileYet
  <2> QED
    BY <1>3, <2>1, <2>2, <2>3, ShapeStep DEF MarkUploaded, Fault, Proceeds, boundVars, s
<1> QED
  BY <1>2, <1>4, <1>5 DEF MarkUploaded

LEMMA UploadedShape ==
  ASSUME ShapeOK, NEW r \in Requests, Uploaded(r)
  PROVE  LET q == request[r]
             s == request'[r]
         IN  /\ ShapeOK' /\ q.at = "upload" /\ (Creates(q) \/ Updates(q))
             /\ \/ Ended(r)
                \/ /\ Proceeds(r) /\ SameSources(q, s) /\ SameFiles(q, s)
                   /\ SameReads(q, s) /\ s.at = "read-selection"
                \/ /\ Proceeds(r) /\ SameSources(q, s) /\ SameFiles(q, s)
                   /\ SameReads(q, s) /\ s.at = "kb"
<1> DEFINE q == request[r]
           s == request'[r]
<1>1. RequestOK(q) /\ TablesOK
  BY ShapeTables DEF ShapeOK
<1>2. q.at = "upload" /\ (Creates(q) \/ Updates(q))
  BY <1>1, Stages DEF Uploaded, CreateStages, UpdateStages, DeleteStages, ImageStages
<1>3. TablesOK'
  BY <1>1, <1>2, SameTables DEF Uploaded, TablesOK, dbVars
<1>4. Ends(r) => ShapeOK' /\ Ended(r)
  BY <1>3, EndedShape DEF Uploaded, Fault, boundVars
<1>5. ASSUME q.op = "update", q.stored # {}, Becomes(r, [at |-> "read-selection"])
      PROVE  /\ ShapeOK' /\ Proceeds(r)
             /\ SameSources(q, s)
             /\ SameFiles(q, s)
             /\ SameReads(q, s)
             /\ s.at = "read-selection"
  <2>1. Others(r) /\ s = Updated(q, [at |-> "read-selection"])
    BY <1>5, BecomesStep
  <2>2. /\ Fixed(q, s) /\ SameSources(q, s) /\ SameFiles(q, s) /\ SameReads(q, s)
        /\ s.at = "read-selection"
    BY <1>1, <1>2, <1>5, <2>1 DEF Updated, Idle, Fixed, SameSources, SameFiles, SameReads,
       RequestOK
  <2> HIDE DEF s
  <2>3. RequestOK(s)
    BY <1>1, <1>2, <1>5, <2>2, IdleFields, NoneIsNothing
       DEF RequestOK, Fixed, SameSources, SameFiles, SameReads,
       Creates, Updates, Deletes, Replaces, CreateStages, UpdateStages, DeleteStages,
       ImageStages,
       Uploads, HasSource, NoFileYet
  <2> QED
    BY <1>3, <2>1, <2>2, <2>3, ShapeStep DEF Uploaded, Fault, Proceeds, boundVars, s
<1>6. ASSUME q.op # "update", Becomes(r, [at |-> "kb"])
      PROVE  /\ ShapeOK' /\ Proceeds(r)
             /\ SameSources(q, s)
             /\ SameFiles(q, s)
             /\ SameReads(q, s)
             /\ s.at = "kb"
  <2>1. Others(r) /\ s = Updated(q, [at |-> "kb"])
    BY <1>6, BecomesStep
  <2>2. /\ Fixed(q, s) /\ SameSources(q, s) /\ SameFiles(q, s) /\ SameReads(q, s)
        /\ s.at = "kb"
    BY <1>1, <1>2, <1>6, <2>1 DEF Updated, Idle, Fixed, SameSources, SameFiles, SameReads,
       RequestOK
  <2> HIDE DEF s
  <2>3. RequestOK(s)
    BY <1>1, <1>2, <1>6, <2>2, IdleFields, NoneIsNothing
       DEF RequestOK, Fixed, SameSources, SameFiles, SameReads,
       Creates, Updates, Deletes, Replaces, CreateStages, UpdateStages, DeleteStages,
       ImageStages,
       Uploads, HasSource, NoFileYet
  <2> QED
    BY <1>3, <2>1, <2>2, <2>3, ShapeStep DEF Uploaded, Fault, Proceeds, boundVars, s
<1> QED
  BY <1>2, <1>4, <1>5, <1>6 DEF Uploaded

LEMMA ReadLinksShape ==
  ASSUME ShapeOK, NEW r \in Requests, ReadLinks(r)
  PROVE  LET q == request[r]
             s == request'[r]
         IN  /\ ShapeOK' /\ q.at = "read-links" /\ Updates(q)
             /\ \/ Ended(r)
                \/ /\ Proceeds(r) /\ SameSources(q, s) /\ SameFiles(q, s)
                   /\ s.drop = q.drop
                   /\ s.seen = [d \in LinksOf(q.bot) |-> Selected(d)]
                   /\ s.at = "drop"
<1> DEFINE q == request[r]
           s == request'[r]
<1>1. RequestOK(q) /\ TablesOK
  BY ShapeTables DEF ShapeOK
<1>2. q.at = "read-links" /\ Updates(q)
  BY <1>1, Stages DEF ReadLinks, CreateStages, UpdateStages, DeleteStages, ImageStages
<1>3. TablesOK'
  BY <1>1, <1>2, SameTables DEF ReadLinks, TablesOK, dbVars
<1>4. Ends(r) => ShapeOK' /\ Ended(r)
  BY <1>3, EndedShape DEF ReadLinks, Fault, boundVars
<1>5. ASSUME Becomes(r, [at |-> "drop", seen |-> [d \in LinksOf(q.bot) |-> Selected(d)]])
      PROVE  /\ ShapeOK' /\ Proceeds(r)
             /\ SameSources(q, s)
             /\ SameFiles(q, s)
             /\ s.drop = q.drop
             /\ s.seen = [d \in LinksOf(q.bot) |-> Selected(d)]
             /\ s.at = "drop"
  <2>1. Others(r) /\ s = Updated(q, [at |-> "drop", seen |-> [d \in LinksOf(q.bot) |-> Selected(d)]])
    BY <1>5, BecomesStep
  <2>2. /\ Fixed(q, s) /\ SameSources(q, s) /\ SameFiles(q, s)
        /\ s.drop = q.drop
        /\ s.seen = [d \in LinksOf(q.bot) |-> Selected(d)]
        /\ s.at = "drop"
    BY <1>1, <1>2, <1>5, <2>1 DEF Updated, Idle, Fixed, SameSources, SameFiles, SameReads,
       RequestOK
  <2> HIDE DEF s
  <2>3. RequestOK(s)
    BY <1>1, <1>2, <1>5, <2>2, IdleFields, NoneIsNothing
       DEF RequestOK, Fixed, SameSources, SameFiles, SameReads,
       Creates, Updates, Deletes, Replaces, CreateStages, UpdateStages, DeleteStages,
       ImageStages,
       Uploads, HasSource, NoFileYet, LinksOf, Selected, TablesOK
  <2> QED
    BY <1>3, <2>1, <2>2, <2>3, ShapeStep DEF ReadLinks, Fault, Proceeds, boundVars, s
<1> QED
  BY <1>2, <1>4, <1>5 DEF ReadLinks

LEMMA ReapFilesShape ==
  ASSUME ShapeOK, NEW r \in Requests, ReapFiles(r)
  PROVE  LET q == request[r]
             s == request'[r]
         IN  /\ ShapeOK' /\ q.at = "reap" /\ Updates(q)
             /\ \/ Ended(r)
                \/ /\ Proceeds(r) /\ SameSources(q, s) /\ SameFiles(q, s)
                   /\ s.drop = {} /\ s.at = "find-link"
<1> DEFINE q == request[r]
           s == request'[r]
<1>1. RequestOK(q) /\ TablesOK
  BY ShapeTables DEF ShapeOK
<1>2. q.at = "reap" /\ Updates(q)
  BY <1>1, Stages DEF ReapFiles, CreateStages, UpdateStages, DeleteStages, ImageStages
<1>3. TablesOK'
  BY <1>1, <1>2, SameTables DEF ReapFiles, TablesOK, dbVars, Spill, Leftovers
<1>4. Ends(r) => ShapeOK' /\ Ended(r)
  BY <1>3, EndedShape DEF ReapFiles, Fault, boundVars
<1>5. ASSUME q.todo # {}, Becomes(r, [at |-> "find-link", drop |-> {}])
      PROVE  /\ ShapeOK' /\ Proceeds(r)
             /\ SameSources(q, s)
             /\ SameFiles(q, s)
             /\ s.drop = {}
             /\ s.at = "find-link"
  <2>1. Others(r) /\ s = Updated(q, [at |-> "find-link", drop |-> {}])
    BY <1>5, BecomesStep
  <2>2. /\ Fixed(q, s) /\ SameSources(q, s) /\ SameFiles(q, s)
        /\ s.drop = {}
        /\ s.at = "find-link"
    BY <1>1, <1>2, <1>5, <2>1 DEF Updated, Idle, Fixed, SameSources, SameFiles, SameReads,
       RequestOK
  <2> HIDE DEF s
  <2>3. RequestOK(s)
    BY <1>1, <1>2, <1>5, <2>2, IdleFields, NoneIsNothing
       DEF RequestOK, Fixed, SameSources, SameFiles, SameReads,
       Creates, Updates, Deletes, Replaces, CreateStages, UpdateStages, DeleteStages,
       ImageStages,
       Uploads, HasSource, NoFileYet
  <2> QED
    BY <1>3, <2>1, <2>2, <2>3, ShapeStep DEF ReapFiles, Fault, Proceeds, boundVars, s
<1> QED
  BY <1>2, <1>4, <1>5 DEF ReapFiles

LEMMA FindLinkShape ==
  ASSUME ShapeOK, NEW r \in Requests, FindLink(r)
  PROVE  LET q == request[r]
             s == request'[r]
         IN  /\ ShapeOK' /\ q.at = "find-link" /\ Updates(q)
             /\ \/ /\ Proceeds(r) /\ SameSources(q, s) /\ SameFiles(q, s)
                   /\ SameReads(q, s) /\ s.at = "datasource"
                \/ /\ Proceeds(r) /\ SameFiles(q, s) /\ SameReads(q, s)
                   /\ s.moodle = q.moodle /\ s.ds \in LinksOf(q.bot)
                   /\ s.at = "upload"
<1> DEFINE q == request[r]
           s == request'[r]
<1>1. RequestOK(q) /\ TablesOK
  BY ShapeTables DEF ShapeOK
<1>2. q.at = "find-link" /\ Updates(q)
  BY <1>1, Stages DEF FindLink, CreateStages, UpdateStages, DeleteStages, ImageStages
<1>3. TablesOK'
  BY <1>1, <1>2, SameTables DEF FindLink, TablesOK, dbVars
<1>4. ASSUME Becomes(r, [at |-> "datasource"])
      PROVE  /\ ShapeOK' /\ Proceeds(r)
             /\ SameSources(q, s)
             /\ SameFiles(q, s)
             /\ SameReads(q, s)
             /\ s.at = "datasource"
  <2>1. Others(r) /\ s = Updated(q, [at |-> "datasource"])
    BY <1>4, BecomesStep
  <2>2. /\ Fixed(q, s) /\ SameSources(q, s) /\ SameFiles(q, s) /\ SameReads(q, s)
        /\ s.at = "datasource"
    BY <1>1, <1>2, <1>4, <2>1 DEF Updated, Idle, Fixed, SameSources, SameFiles, SameReads,
       RequestOK
  <2> HIDE DEF s
  <2>3. RequestOK(s)
    BY <1>1, <1>2, <1>4, <2>2, IdleFields, NoneIsNothing
       DEF RequestOK, Fixed, SameSources, SameFiles, SameReads,
       Creates, Updates, Deletes, Replaces, CreateStages, UpdateStages, DeleteStages,
       ImageStages,
       Uploads, HasSource, NoFileYet
  <2> QED
    BY <1>3, <2>1, <2>2, <2>3, ShapeStep DEF FindLink, Fault, Proceeds, boundVars, s
<1>5. ASSUME NEW d \in LinksOf(q.bot), Becomes(r, [at |-> "upload", ds |-> d])
      PROVE  /\ ShapeOK' /\ Proceeds(r)
             /\ SameFiles(q, s)
             /\ SameReads(q, s)
             /\ s.moodle = q.moodle
             /\ s.ds \in LinksOf(q.bot)
             /\ s.at = "upload"
  <2>1. Others(r) /\ s = Updated(q, [at |-> "upload", ds |-> d])
    BY <1>5, BecomesStep
  <2>2. /\ Fixed(q, s) /\ SameFiles(q, s) /\ SameReads(q, s)
        /\ s.moodle = q.moodle
        /\ s.ds \in LinksOf(q.bot)
        /\ s.at = "upload"
    BY <1>1, <1>2, <1>5, <2>1 DEF Updated, Idle, Fixed, SameSources, SameFiles, SameReads,
       RequestOK
  <2> HIDE DEF s
  <2>3. RequestOK(s)
    BY <1>1, <1>2, <1>5, <2>2, IdleFields, NoneIsNothing
       DEF RequestOK, Fixed, SameSources, SameFiles, SameReads,
       Creates, Updates, Deletes, Replaces, CreateStages, UpdateStages, DeleteStages,
       ImageStages,
       Uploads, HasSource, NoFileYet, LinksOf
  <2> QED
    BY <1>3, <2>1, <2>2, <2>3, ShapeStep DEF FindLink, Fault, Proceeds, boundVars, s
<1> QED
  BY <1>2, <1>4, <1>5 DEF FindLink

LEMMA CheckChatbotShape ==
  ASSUME ShapeOK, NEW r \in Requests, CheckChatbot(r)
  PROVE  LET q == request[r]
             s == request'[r]
         IN  /\ ShapeOK' /\ q.at = "attach" /\ Updates(q)
             /\ \/ Ended(r)
                \/ /\ Proceeds(r) /\ SameSources(q, s) /\ SameFiles(q, s)
                   /\ SameReads(q, s) /\ s.at = "link-source"
<1> DEFINE q == request[r]
           s == request'[r]
<1>1. RequestOK(q) /\ TablesOK
  BY ShapeTables DEF ShapeOK
<1>2. q.at = "attach" /\ Updates(q)
  BY <1>1, Stages DEF CheckChatbot, CreateStages, UpdateStages, DeleteStages, ImageStages
<1>3. TablesOK'
  BY <1>1, <1>2, SameTables DEF CheckChatbot, TablesOK, dbVars, Spill, Leftovers
<1>4. Ends(r) => ShapeOK' /\ Ended(r)
  BY <1>3, EndedShape DEF CheckChatbot, Fault, boundVars
<1>5. ASSUME Becomes(r, [at |-> "link-source"])
      PROVE  /\ ShapeOK' /\ Proceeds(r)
             /\ SameSources(q, s)
             /\ SameFiles(q, s)
             /\ SameReads(q, s)
             /\ s.at = "link-source"
  <2>1. Others(r) /\ s = Updated(q, [at |-> "link-source"])
    BY <1>5, BecomesStep
  <2>2. /\ Fixed(q, s) /\ SameSources(q, s) /\ SameFiles(q, s) /\ SameReads(q, s)
        /\ s.at = "link-source"
    BY <1>1, <1>2, <1>5, <2>1 DEF Updated, Idle, Fixed, SameSources, SameFiles, SameReads,
       RequestOK
  <2> HIDE DEF s
  <2>3. RequestOK(s)
    BY <1>1, <1>2, <1>5, <2>2, IdleFields, NoneIsNothing
       DEF RequestOK, Fixed, SameSources, SameFiles, SameReads,
       Creates, Updates, Deletes, Replaces, CreateStages, UpdateStages, DeleteStages,
       ImageStages,
       Uploads, HasSource, NoFileYet
  <2> QED
    BY <1>3, <2>1, <2>2, <2>3, ShapeStep DEF CheckChatbot, Fault, Proceeds, boundVars, s
<1> QED
  BY <1>2, <1>4, <1>5 DEF CheckChatbot

LEMMA AttachSourceShape ==
  ASSUME ShapeOK, NEW r \in Requests, AttachSource(r)
  PROVE  LET q == request[r]
             s == request'[r]
         IN  /\ ShapeOK' /\ q.at = "link-source" /\ Updates(q)
             /\ Proceeds(r) /\ SameSources(q, s) /\ SameFiles(q, s)
             /\ SameReads(q, s) /\ s.at = "upload"
<1> DEFINE q == request[r]
           s == request'[r]
<1>1. RequestOK(q) /\ TablesOK
  BY ShapeTables DEF ShapeOK
<1>2. q.at = "link-source" /\ Updates(q)
  BY <1>1, Stages DEF AttachSource, CreateStages, UpdateStages, DeleteStages, ImageStages
<1>3. TablesOK'
  BY <1>1, <1>2, SameTables DEF AttachSource, TablesOK, Linked
<1>4. ASSUME Becomes(r, [at |-> "upload"])
      PROVE  /\ ShapeOK' /\ Proceeds(r)
             /\ SameSources(q, s)
             /\ SameFiles(q, s)
             /\ SameReads(q, s)
             /\ s.at = "upload"
  <2>1. Others(r) /\ s = Updated(q, [at |-> "upload"])
    BY <1>4, BecomesStep
  <2>2. /\ Fixed(q, s) /\ SameSources(q, s) /\ SameFiles(q, s) /\ SameReads(q, s)
        /\ s.at = "upload"
    BY <1>1, <1>2, <1>4, <2>1 DEF Updated, Idle, Fixed, SameSources, SameFiles, SameReads,
       RequestOK
  <2> HIDE DEF s
  <2>3. RequestOK(s)
    BY <1>1, <1>2, <1>4, <2>2, IdleFields, NoneIsNothing
       DEF RequestOK, Fixed, SameSources, SameFiles, SameReads,
       Creates, Updates, Deletes, Replaces, CreateStages, UpdateStages, DeleteStages,
       ImageStages,
       Uploads, HasSource, NoFileYet
  <2> QED
    BY <1>3, <2>1, <2>2, <2>3, ShapeStep DEF AttachSource, Fault, Proceeds, boundVars, s
<1> QED
  BY <1>2, <1>4 DEF AttachSource

LEMMA ReadSelectionShape ==
  ASSUME ShapeOK, NEW r \in Requests, ReadSelection(r)
  PROVE  LET q == request[r]
             s == request'[r]
         IN  /\ ShapeOK' /\ q.at = "read-selection" /\ Updates(q)
             /\ \/ Ended(r)
                \/ /\ Proceeds(r) /\ SameSources(q, s) /\ SameFiles(q, s)
                   /\ s.drop = q.drop /\ s.seen = Selected(q.ds)
                   /\ s.at = "append"
<1> DEFINE q == request[r]
           s == request'[r]
<1>1. RequestOK(q) /\ TablesOK
  BY ShapeTables DEF ShapeOK
<1>2. q.at = "read-selection" /\ Updates(q)
  BY <1>1, Stages DEF ReadSelection, CreateStages, UpdateStages, DeleteStages, ImageStages
<1>3. TablesOK'
  BY <1>1, <1>2, SameTables DEF ReadSelection, TablesOK, dbVars, Spill, Leftovers
<1>4. Ends(r) => ShapeOK' /\ Ended(r)
  BY <1>3, EndedShape DEF ReadSelection, Fault, boundVars
<1>5. ASSUME Becomes(r, [at |-> "append", seen |-> Selected(q.ds)])
      PROVE  /\ ShapeOK' /\ Proceeds(r)
             /\ SameSources(q, s)
             /\ SameFiles(q, s)
             /\ s.drop = q.drop
             /\ s.seen = Selected(q.ds)
             /\ s.at = "append"
  <2>1. Others(r) /\ s = Updated(q, [at |-> "append", seen |-> Selected(q.ds)])
    BY <1>5, BecomesStep
  <2>2. /\ Fixed(q, s) /\ SameSources(q, s) /\ SameFiles(q, s)
        /\ s.drop = q.drop
        /\ s.seen = Selected(q.ds)
        /\ s.at = "append"
    BY <1>1, <1>2, <1>5, <2>1 DEF Updated, Idle, Fixed, SameSources, SameFiles, SameReads,
       RequestOK
  <2> HIDE DEF s
  <2>3. RequestOK(s)
    BY <1>1, <1>2, <1>5, <2>2, IdleFields, NoneIsNothing
       DEF RequestOK, Fixed, SameSources, SameFiles, SameReads,
       Creates, Updates, Deletes, Replaces, CreateStages, UpdateStages, DeleteStages,
       ImageStages,
       Uploads, HasSource, NoFileYet, Selected, TablesOK
  <2> QED
    BY <1>3, <2>1, <2>2, <2>3, ShapeStep DEF ReadSelection, Fault, Proceeds, boundVars, s
<1> QED
  BY <1>2, <1>4, <1>5 DEF ReadSelection

LEMMA AppendSelectionShape ==
  ASSUME ShapeOK, NEW r \in Requests, AppendSelection(r)
  PROVE  LET q == request[r]
             s == request'[r]
         IN  /\ ShapeOK' /\ q.at = "append" /\ Updates(q)
             /\ Ended(r)
<1> DEFINE q == request[r]
           s == request'[r]
<1>1. RequestOK(q) /\ TablesOK
  BY ShapeTables DEF ShapeOK
<1>2. q.at = "append" /\ Updates(q)
  BY <1>1, Stages DEF AppendSelection, CreateStages, UpdateStages, DeleteStages, ImageStages
<1>3. TablesOK'
  <2>1. CASE link[q.ds] = None
    BY <1>1, <2>1 DEF AppendSelection, TablesOK, Spill, Leftovers
  <2>2. CASE link[q.ds] # None
    <3>1. q.ds \in Datasources /\ q.seen \union q.stored \subseteq Files
      BY <1>1, <1>2 DEF RequestOK, HasSource
    <3>2. link[q.ds] \in [kb : kb, selection : SUBSET Files]
      BY <1>1, <2>2, <3>1 DEF TablesOK
    <3>3. [link[q.ds] EXCEPT !.selection = q.seen \union q.stored]
             \in [kb : kb, selection : SUBSET Files]
      BY <3>1, <3>2
    <3>4. link' = [link EXCEPT ![q.ds] = [@ EXCEPT !.selection = q.seen \union q.stored]]
      BY <2>2 DEF AppendSelection
    <3>5. link' \in [Datasources -> {None} \union [kb : kb, selection : SUBSET Files]]
      BY <1>1, <3>1, <3>3, <3>4 DEF TablesOK
    <3> QED
      BY <1>1, <3>5 DEF AppendSelection, TablesOK, Spill, Leftovers
  <2> QED
    BY <2>1, <2>2
<1>4. Ends(r) => ShapeOK' /\ Ended(r)
  BY <1>3, EndedShape DEF AppendSelection, Fault, boundVars
<1> QED
  BY <1>2, <1>4 DEF AppendSelection

LEMMA DeleteAvatarShape ==
  ASSUME ShapeOK, NEW r \in Requests, DeleteAvatar(r)
  PROVE  LET q == request[r]
             s == request'[r]
         IN  /\ ShapeOK' /\ q.at = "avatar" /\ Deletes(q)
             /\ Proceeds(r) /\ SameSources(q, s) /\ SameFiles(q, s)
             /\ s.seen = q.seen /\ s.drop = LinksOf(q.bot) /\ s.at = "wipe"
<1> DEFINE q == request[r]
           s == request'[r]
<1>1. RequestOK(q) /\ TablesOK
  BY ShapeTables DEF ShapeOK
<1>2. q.at = "avatar" /\ Deletes(q)
  BY <1>1, Stages DEF DeleteAvatar, CreateStages, UpdateStages, DeleteStages, ImageStages
<1>3. TablesOK'
  BY <1>1, <1>2, SameTables DEF DeleteAvatar, TablesOK, dbVars, Spill, Leftovers
<1>4. ASSUME Becomes(r, [at |-> "wipe", drop |-> LinksOf(q.bot)])
      PROVE  /\ ShapeOK' /\ Proceeds(r)
             /\ SameSources(q, s)
             /\ SameFiles(q, s)
             /\ s.seen = q.seen
             /\ s.drop = LinksOf(q.bot)
             /\ s.at = "wipe"
  <2>1. Others(r) /\ s = Updated(q, [at |-> "wipe", drop |-> LinksOf(q.bot)])
    BY <1>4, BecomesStep
  <2>2. /\ Fixed(q, s) /\ SameSources(q, s) /\ SameFiles(q, s)
        /\ s.seen = q.seen
        /\ s.drop = LinksOf(q.bot)
        /\ s.at = "wipe"
    BY <1>1, <1>2, <1>4, <2>1 DEF Updated, Idle, Fixed, SameSources, SameFiles, SameReads,
       RequestOK
  <2> HIDE DEF s
  <2>3. RequestOK(s)
    BY <1>1, <1>2, <1>4, <2>2, IdleFields, NoneIsNothing
       DEF RequestOK, Fixed, SameSources, SameFiles, SameReads,
       Creates, Updates, Deletes, Replaces, CreateStages, UpdateStages, DeleteStages,
       ImageStages,
       Uploads, HasSource, NoFileYet, LinksOf
  <2> QED
    BY <1>3, <2>1, <2>2, <2>3, ShapeStep DEF DeleteAvatar, Fault, Proceeds, boundVars, s
<1> QED
  BY <1>2, <1>4 DEF DeleteAvatar

LEMMA WipePrefixesShape ==
  ASSUME ShapeOK, NEW r \in Requests, WipePrefixes(r)
  PROVE  LET q == request[r]
             s == request'[r]
         IN  /\ ShapeOK' /\ q.at = "wipe" /\ Deletes(q)
             /\ Proceeds(r) /\ SameSources(q, s) /\ SameFiles(q, s)
             /\ SameReads(q, s) /\ s.at = "delete-kb"
<1> DEFINE q == request[r]
           s == request'[r]
<1>1. RequestOK(q) /\ TablesOK
  BY ShapeTables DEF ShapeOK
<1>2. q.at = "wipe" /\ Deletes(q)
  BY <1>1, Stages DEF WipePrefixes, CreateStages, UpdateStages, DeleteStages, ImageStages
<1>3. TablesOK'
  BY <1>1, <1>2, SameTables DEF WipePrefixes, TablesOK, dbVars, Spill, Leftovers
<1>4. ASSUME Becomes(r, [at |-> "delete-kb"])
      PROVE  /\ ShapeOK' /\ Proceeds(r)
             /\ SameSources(q, s)
             /\ SameFiles(q, s)
             /\ SameReads(q, s)
             /\ s.at = "delete-kb"
  <2>1. Others(r) /\ s = Updated(q, [at |-> "delete-kb"])
    BY <1>4, BecomesStep
  <2>2. /\ Fixed(q, s) /\ SameSources(q, s) /\ SameFiles(q, s) /\ SameReads(q, s)
        /\ s.at = "delete-kb"
    BY <1>1, <1>2, <1>4, <2>1 DEF Updated, Idle, Fixed, SameSources, SameFiles, SameReads,
       RequestOK
  <2> HIDE DEF s
  <2>3. RequestOK(s)
    BY <1>1, <1>2, <1>4, <2>2, IdleFields, NoneIsNothing
       DEF RequestOK, Fixed, SameSources, SameFiles, SameReads,
       Creates, Updates, Deletes, Replaces, CreateStages, UpdateStages, DeleteStages,
       ImageStages,
       Uploads, HasSource, NoFileYet
  <2> QED
    BY <1>3, <2>1, <2>2, <2>3, ShapeStep DEF WipePrefixes, Fault, Proceeds, boundVars, s
<1> QED
  BY <1>2, <1>4 DEF WipePrefixes

LEMMA DeleteKbShape ==
  ASSUME ShapeOK, NEW r \in Requests, DeleteKb(r)
  PROVE  LET q == request[r]
             s == request'[r]
         IN  /\ ShapeOK' /\ q.at = "delete-kb" /\ Deletes(q)
             /\ Ended(r)
<1> DEFINE q == request[r]
           s == request'[r]
<1>1. RequestOK(q) /\ TablesOK
  BY ShapeTables DEF ShapeOK
<1>2. q.at = "delete-kb" /\ Deletes(q)
  BY <1>1, Stages DEF DeleteKb, CreateStages, UpdateStages, DeleteStages, ImageStages
<1>3. TablesOK'
  <2>1. CASE UNCHANGED <<kb, link, source, row>>
    BY <1>1, <2>1 DEF DeleteKb, TablesOK, Spill, Leftovers
  <2>2. CASE /\ LinksOf(q.bot) \subseteq q.drop
              /\ kb' = kb \ {q.bot}
              /\ link' = [d \in Datasources |-> IF d \in q.drop THEN None ELSE link[d]]
              /\ source' = [d \in Datasources |->
                              IF d \in q.drop /\ Exists(d) THEN "deleted" ELSE source[d]]
              /\ row' = [f \in Files |-> IF f \in RowsUnder(q.drop) THEN "deleted" ELSE row[f]]
    <3>1. kb' \subseteq Chatbots
      BY <1>1, <2>2 DEF TablesOK
    <3>2. ASSUME NEW d \in Datasources
          PROVE  (IF d \in q.drop THEN None ELSE link[d])
                   \in {None} \union [kb : kb', selection : SUBSET Files]
      BY <1>1, <2>2 DEF TablesOK, LinksOf
    <3>3. link' \in [Datasources -> {None} \union [kb : kb', selection : SUBSET Files]]
      BY <2>2, <3>2
    <3>4. /\ source' \in [Datasources -> {"absent", "file", "moodle", "deleted"}]
          /\ row' \in [Files -> {"absent", "uploading", "uploaded", "error", "deleted"}]
      BY <1>1, <2>2 DEF TablesOK
    <3> QED
      BY <1>1, <3>1, <3>3, <3>4 DEF DeleteKb, TablesOK, Spill, Leftovers
  <2> QED
    BY <2>1, <2>2 DEF DeleteKb
<1>4. Ends(r) => ShapeOK' /\ Ended(r)
  BY <1>3, EndedShape DEF DeleteKb, Fault, boundVars
<1> QED
  BY <1>2, <1>4 DEF DeleteKb

LEMMA StoreImageShape ==
  ASSUME ShapeOK, NEW r \in Requests, StoreImage(r)
  PROVE  LET q == request[r]
             s == request'[r]
         IN  /\ ShapeOK' /\ q.at = "store-image" /\ Replaces(q)
             /\ \/ Ended(r)
                \/ /\ Proceeds(r) /\ SameSources(q, s) /\ SameFiles(q, s)
                   /\ SameReads(q, s) /\ s.at = "commit-image"
<1> DEFINE q == request[r]
           s == request'[r]
<1>1. RequestOK(q) /\ TablesOK
  BY ShapeTables DEF ShapeOK
<1>2. q.at = "store-image" /\ Replaces(q)
  BY <1>1, Stages DEF StoreImage, CreateStages, UpdateStages, DeleteStages, ImageStages
<1>3. TablesOK'
  BY <1>1, <1>2, SameTables DEF StoreImage, TablesOK, dbVars, RequestOK
<1>4. Ends(r) => ShapeOK' /\ Ended(r)
  BY <1>3, EndedShape DEF StoreImage, Fault, boundVars
<1>5. ASSUME Becomes(r, [at |-> "commit-image"])
      PROVE  /\ ShapeOK' /\ Proceeds(r)
             /\ SameSources(q, s)
             /\ SameFiles(q, s)
             /\ SameReads(q, s)
             /\ s.at = "commit-image"
  <2>1. Others(r) /\ s = Updated(q, [at |-> "commit-image"])
    BY <1>5, BecomesStep
  <2>2. /\ Fixed(q, s) /\ SameSources(q, s) /\ SameFiles(q, s) /\ SameReads(q, s)
        /\ s.at = "commit-image"
    BY <1>1, <1>2, <1>5, <2>1 DEF Updated, Idle, Fixed, SameSources, SameFiles, SameReads,
       RequestOK
  <2> HIDE DEF s
  <2>3. RequestOK(s)
    BY <1>1, <1>2, <1>5, <2>2, IdleFields, NoneIsNothing
       DEF RequestOK, Fixed, SameSources, SameFiles, SameReads,
       Creates, Updates, Deletes, Replaces, CreateStages, UpdateStages, DeleteStages,
       ImageStages,
       Uploads, HasSource, NoFileYet
  <2> QED
    BY <1>3, <2>1, <2>2, <2>3, ShapeStep DEF StoreImage, Fault, Proceeds, boundVars, s
<1> QED
  BY <1>2, <1>4, <1>5 DEF StoreImage

LEMMA CommitImageShape ==
  ASSUME ShapeOK, NEW r \in Requests, CommitImage(r)
  PROVE  LET q == request[r]
             s == request'[r]
         IN  /\ ShapeOK' /\ q.at = "commit-image" /\ Replaces(q)
             /\ \/ Ended(r)
                \/ /\ Proceeds(r) /\ SameSources(q, s) /\ SameFiles(q, s)
                   /\ SameReads(q, s) /\ s.at = "delete-image"
<1> DEFINE q == request[r]
           s == request'[r]
<1>1. RequestOK(q) /\ TablesOK
  BY ShapeTables DEF ShapeOK
<1>2. q.at = "commit-image" /\ Replaces(q)
  BY <1>1, Stages DEF CommitImage, CreateStages, UpdateStages, DeleteStages, ImageStages
<1>3. TablesOK'
  <2>1. q.bot \in Chatbots /\ q.kind \in Kinds /\ q.new \in Images \union {None}
    BY <1>1, <1>2, IdleFields DEF RequestOK, Replaces
  <2>2. /\ image[q.bot] \in [Kinds -> Images \union {None}]
        /\ [image[q.bot] EXCEPT ![q.kind] = q.new] \in [Kinds -> Images \union {None}]
    BY <1>1, <2>1 DEF TablesOK
  <2>3. image' \in {image, [image EXCEPT ![q.bot] = [image[q.bot] EXCEPT ![q.kind] = q.new]]}
    BY DEF CommitImage
  <2>4. image' \in [Chatbots -> [Kinds -> Images \union {None}]]
    BY <1>1, <2>1, <2>2, <2>3 DEF TablesOK
  <2> QED
    BY <1>1, <2>4 DEF CommitImage, TablesOK, Spill, Leftovers
<1>4. Ends(r) => ShapeOK' /\ Ended(r)
  BY <1>3, EndedShape DEF CommitImage, Fault, boundVars
<1>5. ASSUME Becomes(r, [at |-> "delete-image"])
      PROVE  /\ ShapeOK' /\ Proceeds(r)
             /\ SameSources(q, s)
             /\ SameFiles(q, s)
             /\ SameReads(q, s)
             /\ s.at = "delete-image"
  <2>1. Others(r) /\ s = Updated(q, [at |-> "delete-image"])
    BY <1>5, BecomesStep
  <2>2. /\ Fixed(q, s) /\ SameSources(q, s) /\ SameFiles(q, s) /\ SameReads(q, s)
        /\ s.at = "delete-image"
    BY <1>1, <1>2, <1>5, <2>1 DEF Updated, Idle, Fixed, SameSources, SameFiles, SameReads,
       RequestOK
  <2> HIDE DEF s
  <2>3. RequestOK(s)
    BY <1>1, <1>2, <1>5, <2>2, IdleFields, NoneIsNothing
       DEF RequestOK, Fixed, SameSources, SameFiles, SameReads,
       Creates, Updates, Deletes, Replaces, CreateStages, UpdateStages, DeleteStages,
       ImageStages,
       Uploads, HasSource, NoFileYet
  <2> QED
    BY <1>3, <2>1, <2>2, <2>3, ShapeStep DEF CommitImage, Fault, Proceeds, boundVars, s
<1> QED
  BY <1>2, <1>4, <1>5 DEF CommitImage

LEMMA DeleteImageShape ==
  ASSUME ShapeOK, NEW r \in Requests, DeleteImage(r)
  PROVE  LET q == request[r]
             s == request'[r]
         IN  /\ ShapeOK' /\ q.at = "delete-image" /\ Replaces(q)
             /\ Ended(r)
<1> DEFINE q == request[r]
           s == request'[r]
<1>1. RequestOK(q) /\ TablesOK
  BY ShapeTables DEF ShapeOK
<1>2. q.at = "delete-image" /\ Replaces(q)
  BY <1>1, Stages DEF DeleteImage, CreateStages, UpdateStages, DeleteStages, ImageStages
<1>3. TablesOK'
  BY <1>1, <1>2, SameTables DEF DeleteImage, TablesOK, dbVars, Spill, Leftovers
<1>4. Ends(r) => ShapeOK' /\ Ended(r)
  BY <1>3, EndedShape DEF DeleteImage, Fault, boundVars
<1> QED
  BY <1>2, <1>4 DEF DeleteImage

LEMMA BeginCreateShape ==
  ASSUME ShapeOK, NEW r \in Requests, BeginCreate(r)
  PROVE  LET s == request'[r]
         IN  /\ ShapeOK' /\ Others(r) /\ request[r] = Idle /\ Creates(s)
             /\ s.at \in {"moodle", "datasource"} /\ s.ds = None /\ s.moodle = None
             /\ s.todo \subseteq FreshFiles /\ s.stored = {} /\ s.new = None /\ s.old = None
             /\ s.at = "datasource" => s.todo # {}
             /\ chatbot[s.bot] = "absent" /\ \A q \in Requests : request[q].bot # s.bot
<1> DEFINE s == request'[r]
<1>1. PICK c \in Chatbots, add \in SUBSET FreshFiles, moodle \in BOOLEAN :
         /\ chatbot[c] = "absent"
         /\ \A q \in Requests : request[q].bot # c
         /\ moodle \/ add # {}
         /\ Begin(r, [op |-> IF moodle THEN "create-from-moodle" ELSE "create-from-files",
                      at |-> IF moodle THEN "moodle" ELSE "datasource",
                      bot |-> c, todo |-> add])
  BY DEF BeginCreate
<1>2. /\ Others(r) /\ request[r] = Idle
      /\ s = Updated(Idle, [op |-> IF moodle THEN "create-from-moodle" ELSE "create-from-files",
                            at |-> IF moodle THEN "moodle" ELSE "datasource",
                            bot |-> c, todo |-> add])
  BY <1>1, BecomesStep DEF Begin
<1>3. /\ DOMAIN s = DOMAIN Idle /\ s.op \in {"create-from-moodle", "create-from-files"}
      /\ s.at = (IF moodle THEN "moodle" ELSE "datasource") /\ s.bot = c /\ s.todo = add
      /\ s.ds = None /\ s.moodle = None /\ s.stored = {} /\ s.kind = "avatar"
      /\ s.new = None /\ s.old = None
  BY <1>2 DEF Updated, Idle
<1> HIDE DEF s
<1>4. RequestOK(s) /\ Creates(s)
  BY <1>1, <1>3, IdleFields DEF RequestOK, Creates, CreateStages, Uploads, HasSource,
     NoFileYet, FreshFiles, Kinds
<1>5. TablesOK'
  BY <1>1, ShapeTables, SameTables DEF Begin, TablesOK
<1>6. ShapeOK'
  BY <1>1, <1>2, <1>4, <1>5, ShapeStep DEF Begin, s
<1> QED
  BY <1>1, <1>2, <1>3, <1>4, <1>6 DEF s

LEMMA BeginUpdateShape ==
  ASSUME ShapeOK, NEW r \in Requests, BeginUpdate(r)
  PROVE  LET s == request'[r]
         IN  /\ ShapeOK' /\ Others(r) /\ request[r] = Idle /\ Updates(s)
             /\ s.at \in {"find-link", "read-links"} /\ s.ds = None /\ s.moodle = None
             /\ s.todo \subseteq FreshFiles /\ s.stored = {} /\ s.new = None /\ s.old = None
             /\ s.at = "find-link" => s.todo # {}
             /\ chatbot[s.bot] = "live"
<1> DEFINE s == request'[r]
<1>1. PICK c \in Chatbots, add \in SUBSET FreshFiles :
        \E drop \in SUBSET UNION {Selected(d) : d \in LinksOf(c)} :
         /\ chatbot[c] = "live"
         /\ add \union drop # {}
         /\ Begin(r, [op |-> "update", at |-> IF drop = {} THEN "find-link" ELSE "read-links",
                      bot |-> c, todo |-> add, drop |-> drop])
  BY DEF BeginUpdate
<1>2. PICK drop \in SUBSET UNION {Selected(d) : d \in LinksOf(c)} :
         /\ chatbot[c] = "live"
         /\ add \union drop # {}
         /\ Begin(r, [op |-> "update", at |-> IF drop = {} THEN "find-link" ELSE "read-links",
                      bot |-> c, todo |-> add, drop |-> drop])
  BY <1>1
<1>3. /\ Others(r) /\ request[r] = Idle
      /\ s = Updated(Idle, [op |-> "update", at |-> IF drop = {} THEN "find-link" ELSE "read-links",
                            bot |-> c, todo |-> add, drop |-> drop])
  BY <1>2, BecomesStep DEF Begin
<1>4. /\ DOMAIN s = DOMAIN Idle /\ s.op = "update"
      /\ s.at = (IF drop = {} THEN "find-link" ELSE "read-links") /\ s.bot = c /\ s.todo = add
      /\ s.ds = None /\ s.moodle = None /\ s.stored = {} /\ s.kind = "avatar"
      /\ s.new = None /\ s.old = None /\ s.drop = drop
  BY <1>3 DEF Updated, Idle
<1>5. TablesOK /\ TablesOK'
  BY <1>2, ShapeTables, SameTables DEF Begin, TablesOK
<1>6. drop \subseteq Files
  BY <1>5 DEF LinksOf, Selected, TablesOK
<1> HIDE DEF s
<1>7. RequestOK(s) /\ Updates(s)
  BY <1>2, <1>4, <1>6, IdleFields DEF RequestOK, Updates, UpdateStages, Uploads, HasSource,
     NoFileYet, FreshFiles, Kinds
<1>8. ShapeOK'
  BY <1>2, <1>3, <1>5, <1>7, ShapeStep DEF Begin, s
<1> QED
  BY <1>2, <1>3, <1>4, <1>7, <1>8 DEF s

LEMMA BeginImageShape ==
  ASSUME ShapeOK, NEW r \in Requests, BeginImage(r)
  PROVE  LET s == request'[r]
         IN  /\ ShapeOK' /\ Others(r) /\ request[r] = Idle /\ Replaces(s)
             /\ s.at = (IF s.new = None THEN "commit-image" ELSE "store-image")
             /\ s.ds = None /\ s.moodle = None /\ s.todo = {} /\ s.stored = {}
             /\ s.new \in FreshImages \union {None} /\ s.old = image[s.bot][s.kind]
             /\ chatbot[s.bot] = "live"
<1> DEFINE s == request'[r]
<1>1. PICK c \in Chatbots, k \in Kinds, i \in FreshImages \union {None} :
         /\ chatbot[c] = "live"
         /\ Begin(r, [op |-> "image", at |-> IF i = None THEN "commit-image" ELSE "store-image",
                      bot |-> c, kind |-> k, new |-> i, old |-> image[c][k]])
  BY DEF BeginImage
<1>2. /\ Others(r) /\ request[r] = Idle
      /\ s = Updated(Idle, [op |-> "image", at |-> IF i = None THEN "commit-image" ELSE "store-image",
                            bot |-> c, kind |-> k, new |-> i, old |-> image[c][k]])
  BY <1>1, BecomesStep DEF Begin
<1>3. /\ DOMAIN s = DOMAIN Idle /\ s.op = "image"
      /\ s.at = (IF i = None THEN "commit-image" ELSE "store-image") /\ s.bot = c /\ s.todo = {}
      /\ s.ds = None /\ s.moodle = None /\ s.stored = {} /\ s.kind = k
      /\ s.new = i /\ s.old = image[c][k]
  BY <1>2 DEF Updated, Idle
<1>4. TablesOK /\ TablesOK'
  BY <1>1, ShapeTables, SameTables DEF Begin, TablesOK
<1> HIDE DEF s
<1>5. RequestOK(s) /\ Replaces(s)
  BY <1>3, <1>4, IdleFields DEF RequestOK, Replaces, ImageStages, Uploads, HasSource,
     NoFileYet, FreshImages,
     TablesOK
<1>6. ShapeOK'
  BY <1>1, <1>2, <1>4, <1>5, ShapeStep DEF Begin, s
<1> QED
  BY <1>1, <1>2, <1>3, <1>5, <1>6 DEF s

LEMMA DeleteChatbotShape ==
  ASSUME ShapeOK, NEW r \in Requests, DeleteChatbot(r)
  PROVE  LET s == request'[r]
         IN  /\ ShapeOK' /\ Others(r) /\ request[r] = Idle /\ Deletes(s) /\ s.at = "avatar"
             /\ s.ds = None /\ s.moodle = None /\ s.todo = {} /\ s.stored = {}
             /\ s.new = None /\ s.old = image[s.bot]["avatar"] /\ s.kind = "avatar"
             /\ chatbot[s.bot] = "live" /\ chatbot' = [chatbot EXCEPT ![s.bot] = "deleted"]
             /\ spills' = (IF image[s.bot]["logo"] # None THEN spills \union {"object"} ELSE spills)
<1> DEFINE s == request'[r]
<1>1. PICK c \in Chatbots :
         /\ chatbot[c] = "live"
         /\ request[r] = Idle
         /\ started' = started + 1
         /\ chatbot' = [chatbot EXCEPT ![c] = "deleted"]
         /\ Becomes(r, [op |-> "delete", at |-> "avatar", bot |-> c, old |-> image[c]["avatar"]])
         /\ IF image[c]["logo"] # None THEN Spill({"object"}) ELSE UNCHANGED spills
         /\ UNCHANGED <<image, kb, source, link, row, home, objects, cleanup, faults>>
  BY DEF DeleteChatbot
<1>2. /\ Others(r)
      /\ s = Updated(Idle, [op |-> "delete", at |-> "avatar", bot |-> c, old |-> image[c]["avatar"]])
  BY <1>1, BecomesStep
<1>3. /\ DOMAIN s = DOMAIN Idle /\ s.op = "delete"
      /\ s.at = "avatar" /\ s.bot = c /\ s.todo = {}
      /\ s.ds = None /\ s.moodle = None /\ s.stored = {} /\ s.kind = "avatar"
      /\ s.new = None /\ s.old = image[c]["avatar"]
  BY <1>2 DEF Updated, Idle
<1>4. TablesOK /\ TablesOK'
  BY <1>1, ShapeTables DEF TablesOK, Spill, Leftovers
<1> HIDE DEF s
<1>5. RequestOK(s) /\ Deletes(s)
  BY <1>3, <1>4, IdleFields DEF RequestOK, Deletes, DeleteStages, Uploads, HasSource,
     NoFileYet, Kinds, TablesOK
<1>6. ShapeOK'
  BY <1>1, <1>2, <1>4, <1>5, ShapeStep DEF s
<1> QED
  BY <1>1, <1>2, <1>3, <1>5, <1>6 DEF s, Spill

\* What taking files off the selections that were read does.
Touched(q) == {d \in DOMAIN q.seen : q.seen[d] \intersect q.drop # {}}
Emptied(q) == RemovedSources(q.seen, q.drop)
Gone(q) ==
    {f \in {g \in q.drop : \E d \in Touched(q) : g \in q.seen[d]} : HasRow(f)}
      \union RowsUnder(Emptied(q))

LEMMA DropFilesShape ==
  ASSUME ShapeOK, NEW r \in Requests, DropFiles(r)
  PROVE  LET q == request[r]
             s == request'[r]
         IN  /\ ShapeOK' /\ q.at = "drop" /\ Updates(q)
             /\ \/ Ended(r) /\ UNCHANGED <<source, link, row, spills>>
                \/ /\ Proceeds(r)
                   /\ SameSources(q, s) /\ SameFiles(q, s)
                   /\ s.at = "reap" /\ s.drop = Gone(q)
                   /\ \A d \in Touched(q) : link[d] # None
                   /\ link' = [d \in Datasources |->
                                 IF d \in Emptied(q) THEN None
                                 ELSE IF d \in Touched(q)
                                      THEN [link[d] EXCEPT !.selection = q.seen[d] \ q.drop]
                                      ELSE link[d]]
                   /\ source' = [d \in Datasources |->
                                   IF d \in Emptied(q) THEN "deleted" ELSE source[d]]
                   /\ row' = [f \in Files |-> IF f \in Gone(q) THEN "deleted" ELSE row[f]]
                   /\ spills' = (IF \E d \in Touched(q) : q.seen[d] # Selected(d)
                                 THEN spills \union {"selection", "row"} ELSE spills)
<1> DEFINE q == request[r]
           s == request'[r]
<1>1. RequestOK(q) /\ TablesOK
  BY ShapeTables DEF ShapeOK
<1>2. q.at = "drop" /\ Updates(q)
  BY <1>1, Stages DEF DropFiles, CreateStages, UpdateStages
<1>3. CASE Ends(r) /\ UNCHANGED <<source, link, row, spills>>
  <2>1. TablesOK'
    BY <1>1, <1>3 DEF DropFiles, TablesOK
  <2>2. ShapeOK' /\ Ended(r)
    BY <1>3, <2>1, EndedShape DEF DropFiles, boundVars
  <2> QED
    BY <1>2, <1>3, <2>2
<1>4. CASE ~ (Ends(r) /\ UNCHANGED <<source, link, row, spills>>)
  <2>1. /\ \A d \in Touched(q) : link[d] # None
        /\ link' = [d \in Datasources |->
                      IF d \in Emptied(q) THEN None
                      ELSE IF d \in Touched(q)
                           THEN [link[d] EXCEPT !.selection = q.seen[d] \ q.drop]
                           ELSE link[d]]
        /\ source' = [d \in Datasources |-> IF d \in Emptied(q) THEN "deleted" ELSE source[d]]
        /\ row' = [f \in Files |-> IF f \in Gone(q) THEN "deleted" ELSE row[f]]
        /\ spills' = (IF \E d \in Touched(q) : q.seen[d] # Selected(d)
                      THEN spills \union {"selection", "row"} ELSE spills)
        /\ Becomes(r, [at |-> "reap", drop |-> Gone(q)])
    BY <1>4 DEF DropFiles, Touched, Emptied, Gone, Spill
  <2>2. Others(r) /\ s = Updated(q, [at |-> "reap", drop |-> Gone(q)])
    BY <2>1, BecomesStep
  <2>3. /\ Fixed(q, s) /\ SameSources(q, s) /\ SameFiles(q, s)
        /\ s.at = "reap" /\ s.drop = Gone(q)
    BY <1>1, <2>2 DEF Updated, Idle, Fixed, SameSources, SameFiles, RequestOK
  <2>4. Touched(q) \subseteq Datasources /\ \A d \in DOMAIN q.seen : q.seen[d] \subseteq Files
    BY <1>1, <1>2 DEF RequestOK, Touched
  <2>5. Gone(q) \subseteq Files
    BY <1>1, <1>2 DEF Gone, RowsUnder, RequestOK
  <2>6. ASSUME NEW d \in Datasources
        PROVE  (IF d \in Emptied(q) THEN None
                ELSE IF d \in Touched(q) THEN [link[d] EXCEPT !.selection = q.seen[d] \ q.drop]
                ELSE link[d]) \in {None} \union [kb : kb, selection : SUBSET Files]
    <3>1. link[d] \in {None} \union [kb : kb, selection : SUBSET Files]
      BY <1>1 DEF TablesOK
    <3>2. CASE d \in Touched(q)
      <4>1. link[d] \in [kb : kb, selection : SUBSET Files] /\ q.seen[d] \ q.drop \subseteq Files
        BY <2>1, <2>4, <3>1, <3>2 DEF Touched
      <4>2. [link[d] EXCEPT !.selection = q.seen[d] \ q.drop] \in [kb : kb, selection : SUBSET Files]
        BY <4>1
      <4> QED
        BY <3>2, <4>2
    <3> QED
      BY <3>1, <3>2
  <2>7. link' \in [Datasources -> {None} \union [kb : kb, selection : SUBSET Files]]
    BY <2>1, <2>6
  <2>8. kb' = kb /\ chatbot' = chatbot /\ image' = image /\ home' = home /\ objects' = objects
    BY DEF DropFiles
  <2>9. TablesOK'
    BY <1>1, <2>1, <2>7, <2>8 DEF TablesOK, Leftovers
  <2> HIDE DEF s
  <2>10. RequestOK(s)
    BY <1>1, <1>2, <2>3, <2>5, IdleFields DEF RequestOK, Fixed, SameSources, SameFiles, Updates,
       UpdateStages, Uploads, HasSource, NoFileYet
  <2>11. ShapeOK' /\ Proceeds(r)
    BY <2>2, <2>3, <2>9, <2>10, ShapeStep DEF DropFiles, Proceeds, boundVars, s
  <2> QED
    BY <1>2, <2>1, <2>3, <2>11 DEF s
<1> QED
  BY <1>3, <1>4

LEMMA RequestDiesShape ==
  ASSUME ShapeOK, NEW r \in Requests, RequestDies(r)
  PROVE  ShapeOK' /\ Ended(r)
<1>1. TablesOK'
  BY ShapeTables, SameTables DEF RequestDies, TablesOK, Spill, Leftovers
<1> QED
  BY <1>1, EndedShape DEF RequestDies, Fault

LEMMA CleanupShape ==
  ASSUME ShapeOK, PlanCleanup \/ ApplyCleanup \/ DeleteOrphanObjects
  PROVE  ShapeOK' /\ request' = request
<1>1. TablesOK /\ CleanupOK /\ started \in Nat
  BY ShapeTables DEF ShapeOK
<1>2. /\ request' = request /\ UNCHANGED <<chatbot, image, kb, link, home, started, faults>>
  BY DEF PlanCleanup, ApplyCleanup, DeleteOrphanObjects, dbVars, boundVars
<1>3. spills' \subseteq Leftovers
  BY <1>1 DEF PlanCleanup, ApplyCleanup, DeleteOrphanObjects, Spill, Leftovers, TablesOK, dbVars
<1>4. CASE PlanCleanup
  <2>1. TablesOK'
    BY <1>1, <1>4, SameTables DEF PlanCleanup, TablesOK
  <2>2. cleanup' = [at |-> "planned", files |-> Unselected, sources |-> Unlinked,
                    alone |-> Busy = {}, since |-> started]
    BY <1>4 DEF PlanCleanup
  <2>3. CleanupOK'
    BY <1>1, <1>2, <2>2 DEF CleanupOK, Unselected, Unlinked, NoRun
  <2> QED
    BY <1>2, <2>1, <2>3 DEF ShapeOK, TypeOK, TablesOK
<1>5. CASE ApplyCleanup
  <2>1. TablesOK'
    BY <1>1, <1>2, <1>3, <1>5 DEF ApplyCleanup, TablesOK
  <2>2. cleanup' \in {NoRun, [cleanup EXCEPT !.at = "objects"]}
    BY <1>5 DEF ApplyCleanup
  <2>3. CleanupOK'
    BY <1>1, <1>2, <2>2 DEF CleanupOK, NoRun
  <2> QED
    BY <1>2, <2>1, <2>3 DEF ShapeOK, TypeOK, TablesOK
<1>6. CASE DeleteOrphanObjects
  <2>1. TablesOK'
    BY <1>1, <1>2, <1>3, <1>6 DEF DeleteOrphanObjects, TablesOK, dbVars
  <2>2. CleanupOK'
    BY <1>1, <1>2, <1>6 DEF DeleteOrphanObjects, CleanupOK, NoRun
  <2> QED
    BY <1>2, <2>1, <2>2 DEF ShapeOK, TypeOK, TablesOK
<1> QED
  BY <1>4, <1>5, <1>6

LEMMA StutterShape ==
  ASSUME ShapeOK, UNCHANGED vars
  PROVE  ShapeOK'
  BY DEF ShapeOK, TypeOK, CleanupOK, vars, dbVars, boundVars

LEMMA StepShape == ShapeOK /\ [Next]_vars => ShapeOK'
<1> SUFFICES ASSUME ShapeOK, Next PROVE ShapeOK'
  BY StutterShape
<1>1. ASSUME NEW r \in Requests, RequestStep(r) PROVE ShapeOK'
  BY <1>1, BeginCreateShape, CreateMoodleSourceShape, CreateFileSourceShape, CreateKbShape,
     LinkMoodleShape, LinkFilesShape, CreateChatbotShape, SkipFileShape, AddRowShape,
     StoreFileShape, StoreFileFailsShape, MarkUploadedShape, UploadedShape, BeginUpdateShape,
     ReadLinksShape, DropFilesShape, ReapFilesShape, FindLinkShape, CheckChatbotShape,
     AttachSourceShape, ReadSelectionShape, AppendSelectionShape, DeleteChatbotShape,
     DeleteAvatarShape, WipePrefixesShape, DeleteKbShape, BeginImageShape, StoreImageShape,
     CommitImageShape, DeleteImageShape, RequestDiesShape DEF RequestStep
<1>2. CASE PlanCleanup \/ ApplyCleanup \/ DeleteOrphanObjects
  BY <1>2, CleanupShape
<1> QED
  BY <1>1, <1>2 DEF Next

-----------------------------------------------------------------------------
(* Chatbots and datasources, step by step.                                 *)

Runs(r) == Ended(r) \/ Proceeds(r)

\* Every request step begins an operation, ends one or goes on with it.
LEMMA StepRuns ==
  ASSUME ShapeOK, NEW r \in Requests, RequestStep(r)
  PROVE  \/ BeginCreate(r) \/ BeginUpdate(r) \/ BeginImage(r) \/ DeleteChatbot(r) \/ CreateChatbot(r)
         \/ Runs(r) /\ chatbot' = chatbot
<1>1. ASSUME CreateMoodleSource(r) \/ CreateFileSource(r) \/ CreateKb(r) \/ LinkMoodle(r) \/ LinkFiles(r)
             \/ SkipFile(r) \/ AddRow(r) \/ StoreFile(r) \/ StoreFileFails(r) \/ MarkUploaded(r)
             \/ Uploaded(r)
      PROVE  Runs(r) /\ chatbot' = chatbot
  <2>1. chatbot' = chatbot
    BY <1>1 DEF CreateMoodleSource, CreateFileSource, CreateKb, LinkMoodle, LinkFiles,
       SkipFile, AddRow,
       StoreFile, StoreFileFails, MarkUploaded, Uploaded, dbVars
  <2>2. Runs(r)
    BY <1>1, CreateMoodleSourceShape, CreateFileSourceShape, CreateKbShape, LinkMoodleShape,
       LinkFilesShape, SkipFileShape, AddRowShape, StoreFileShape, StoreFileFailsShape,
       MarkUploadedShape, UploadedShape DEF Runs
  <2> QED
    BY <2>1, <2>2
<1>2. ASSUME ReadLinks(r) \/ DropFiles(r) \/ ReapFiles(r) \/ FindLink(r) \/ CheckChatbot(r)
             \/ AttachSource(r) \/ ReadSelection(r) \/ AppendSelection(r)
      PROVE  Runs(r) /\ chatbot' = chatbot
  <2>1. chatbot' = chatbot
    BY <1>2 DEF ReadLinks, DropFiles, ReapFiles, FindLink, CheckChatbot, AttachSource,
       ReadSelection,
       AppendSelection, dbVars
  <2>2. Runs(r)
    BY <1>2, ReadLinksShape, DropFilesShape, ReapFilesShape, FindLinkShape, CheckChatbotShape,
       AttachSourceShape, ReadSelectionShape, AppendSelectionShape DEF Runs
  <2> QED
    BY <2>1, <2>2
<1>3. ASSUME DeleteAvatar(r) \/ WipePrefixes(r) \/ DeleteKb(r) \/ StoreImage(r) \/ CommitImage(r)
             \/ DeleteImage(r) \/ RequestDies(r)
      PROVE  Runs(r) /\ chatbot' = chatbot
  <2>1. chatbot' = chatbot
    BY <1>3 DEF DeleteAvatar, WipePrefixes, DeleteKb, StoreImage, CommitImage, DeleteImage,
       RequestDies,
       dbVars
  <2>2. Runs(r)
    BY <1>3, DeleteAvatarShape, WipePrefixesShape, DeleteKbShape, StoreImageShape,
       CommitImageShape,
       DeleteImageShape, RequestDiesShape DEF Runs
  <2> QED
    BY <2>1, <2>2
<1> QED
  BY <1>1, <1>2, <1>3 DEF RequestStep

\* An operation stays what it is, and an idle request is none.
LEMMA SameOperation ==
  ASSUME ShapeOK, ShapeOK', NEW r \in Requests, Runs(r)
  PROVE  LET q == request[r]
             s == request'[r]
         IN  /\ s = Idle \/ s.bot = q.bot
             /\ Creates(s) => Creates(q)
             /\ Updates(s) => Updates(q)
             /\ Deletes(s) => Deletes(q)
             /\ Replaces(s) => Replaces(q)
             /\ Proceeds(r) /\ Creates(q) => Creates(s)
<1>1. RequestOK(request[r]) /\ RequestOK(request'[r])
  BY DEF ShapeOK
<1> QED
  BY <1>1, IdleFields DEF Runs, Ended, Proceeds, Fixed, RequestOK, Creates, Updates, Deletes,
     Replaces

LEMMA BotsStep == ServedInv /\ [Next]_vars => BotsOK'
<1> SUFFICES ASSUME ServedInv, [Next]_vars PROVE BotsOK'
  OBVIOUS
<1> USE DEF ServedInv
<1>1. ShapeOK /\ ShapeOK' /\ BotsOK /\ TablesOK
  BY StepShape, ShapeTables
<1>2. ASSUME UNCHANGED <<request, chatbot>> PROVE BotsOK'
  BY <1>1, <1>2 DEF BotsOK
<1>3. ASSUME NEW r \in Requests, RequestStep(r) PROVE BotsOK'
  <2> DEFINE s == request'[r]
  <2>1. CASE Runs(r) /\ chatbot' = chatbot
    <3>1. ASSUME NEW p \in Requests
          PROVE  /\ request'[p].bot \in {request[p].bot, None}
                 /\ Creates(request'[p]) => Creates(request[p]) /\ request'[p].bot = request[p].bot
                                            /\ request'[p].bot # None
                 /\ Deletes(request'[p]) => Deletes(request[p]) /\ request'[p].bot = request[p].bot
                 /\ Updates(request'[p]) \/ Replaces(request'[p]) =>
                       /\ Updates(request[p]) \/ Replaces(request[p])
                       /\ request'[p].bot = request[p].bot
      <4>1. RequestOK(request'[p])
        BY <1>1 DEF ShapeOK
      <4>2. p # r => request'[p] = request[p]
        BY <2>1 DEF Runs, Ended, Proceeds, Others
      <4>3. ~ (Creates(Idle) \/ Updates(Idle) \/ Deletes(Idle) \/ Replaces(Idle))
        BY IdleFields DEF Creates, Updates, Deletes, Replaces
      <4>4. Creates(request'[p]) => request'[p].bot # None
        BY <4>1, <4>3, NoneIsNothing DEF RequestOK
      <4>5. p = r => \/ request'[p] = Idle
                     \/ /\ request'[p].bot = request[p].bot
                        /\ Creates(request'[p]) => Creates(request[p])
                        /\ Updates(request'[p]) => Updates(request[p])
                        /\ Deletes(request'[p]) => Deletes(request[p])
                        /\ Replaces(request'[p]) => Replaces(request[p])
        BY <1>1, <2>1, SameOperation
      <4> QED
        BY <4>2, <4>3, <4>4, <4>5, IdleFields
    <3> QED
      BY <1>1, <2>1, <3>1 DEF BotsOK
  <2>2. CASE BeginCreate(r)
    <3>1. /\ Others(r) /\ Creates(s) /\ chatbot[s.bot] = "absent" /\ chatbot' = chatbot
          /\ \A q \in Requests : request[q].bot # s.bot
      BY <1>1, <2>2, BeginCreateShape DEF BeginCreate, Begin, dbVars
    <3> QED
      BY <1>1, <3>1 DEF BotsOK, Others, Creates, Updates, Deletes, Replaces
  <2>3. CASE BeginUpdate(r) \/ BeginImage(r)
    <3>1. /\ Others(r) /\ chatbot[s.bot] = "live" /\ chatbot' = chatbot /\ (Updates(s) \/ Replaces(s))
      BY <1>1, <2>3, BeginUpdateShape, BeginImageShape
         DEF BeginUpdate, BeginImage, Begin, dbVars
    <3> QED
      BY <1>1, <3>1 DEF BotsOK, Others, Creates, Updates, Deletes, Replaces
  <2>4. CASE DeleteChatbot(r)
    <3>1. /\ Others(r) /\ Deletes(s) /\ chatbot[s.bot] = "live"
          /\ chatbot' = [chatbot EXCEPT ![s.bot] = "deleted"]
      BY <1>1, <2>4, DeleteChatbotShape
    <3>2. s.bot \in Chatbots /\ \A q \in Requests : request[q] # Idle => request[q].bot \in Chatbots
      BY <1>1, <3>1, IdleFields DEF ShapeOK, RequestOK, Deletes
    <3>3. \A q \in Requests :
             Creates(request[q]) \/ Updates(request[q]) \/ Deletes(request[q]) \/ Replaces(request[q])
               => request[q].bot \in Chatbots
      BY <3>2, IdleFields DEF Creates, Updates, Deletes, Replaces
    <3>4. \A b \in Chatbots : chatbot'[b] = IF b = s.bot THEN "deleted" ELSE chatbot[b]
      BY <1>1, <3>1 DEF TablesOK
    <3>5. ~ Creates(s) /\ ~ Updates(s) /\ ~ Replaces(s)
      BY <3>1 DEF Creates, Updates, Deletes, Replaces
    <3>6. \A q \in Requests \ {r} : request'[q] = request[q]
      BY <3>1 DEF Others
    <3> HIDE DEF s
    <3>7. ASSUME NEW p \in Requests \ {r}
          PROVE  /\ Creates(request'[p]) =>
                       /\ chatbot'[request'[p].bot] = "absent"
                       /\ \A q \in Requests \ {p} : request'[q].bot # request'[p].bot
                 /\ Deletes(request'[p]) => chatbot'[request'[p].bot] = "deleted"
                 /\ Updates(request'[p]) \/ Replaces(request'[p]) => chatbot'[request'[p].bot] # "absent"
      <4>1. Creates(request[p]) => s.bot # request[p].bot
        BY <1>1, <3>1, <3>7 DEF BotsOK
      <4> QED
        BY <1>1, <3>1, <3>2, <3>3, <3>4, <3>6, <3>7, <4>1 DEF BotsOK, s
    <3> QED
      BY <3>1, <3>2, <3>4, <3>5, <3>7 DEF BotsOK, s
  <2>5. CASE CreateChatbot(r)
    <3>1. Others(r) /\ s = Idle /\ Creates(request[r])
      BY <1>1, <2>5, CreateChatbotShape DEF Ended
    <3>2. chatbot' = [chatbot EXCEPT ![request[r].bot] = "live"]
      BY <2>5 DEF CreateChatbot
    <3>3. \A q \in Requests \ {r} : request[q].bot # request[r].bot
      BY <1>1, <3>1 DEF BotsOK
    <3>4. \A q \in Requests : request[q] # Idle => request[q].bot \in Chatbots
      BY <1>1 DEF ShapeOK, RequestOK
    <3>5. ~ (Creates(Idle) \/ Updates(Idle) \/ Deletes(Idle) \/ Replaces(Idle))
      BY IdleFields DEF Creates, Updates, Deletes, Replaces
    <3>6. ASSUME NEW q \in Requests \ {r}
          PROVE  /\ request'[q] = request[q]
                 /\ chatbot'[request[q].bot] = chatbot[request[q].bot] \/ request[q] = Idle
      BY <1>1, <3>1, <3>2, <3>3, <3>4 DEF Others, TablesOK
    <3> QED
      <4>1. \A q \in Requests : Creates(request'[q]) => request'[q].bot # None
        BY <1>1, <3>5, NoneIsNothing DEF ShapeOK, RequestOK
      <4>2. s.bot = None
        BY <3>1, IdleFields
      <4> HIDE DEF s
      <4>3. \A q \in Requests : Creates(request[q]) \/ Updates(request[q]) \/ Deletes(request[q])
                                 \/ Replaces(request[q]) => request[q] # Idle
        BY <3>5
      <4> QED
        BY <1>1, <3>1, <3>5, <3>6, <4>1, <4>2, <4>3 DEF BotsOK, s
  <2> QED
    BY <1>1, <1>3, <2>1, <2>2, <2>3, <2>4, <2>5, StepRuns
<1>4. CASE PlanCleanup \/ ApplyCleanup \/ DeleteOrphanObjects
  BY <1>2, <1>4 DEF PlanCleanup, ApplyCleanup, DeleteOrphanObjects, dbVars
<1> QED
  BY <1>2, <1>3, <1>4 DEF Next, vars, dbVars

\* A step claims no datasource for another chatbot when the links it makes and the
\* datasources its request comes to hold are its chatbot's already, or new.
LEMMA ClaimsFrame ==
  ASSUME ShapeOK, ShapeOK', ClaimsOK, NEW r \in Requests, Others(r),
         \A d \in Datasources : source'[d] = "absent" => source[d] = "absent",
         \A d \in Datasources : link'[d] # None =>
            link'[d] = link[d] \/ link'[d].kb \in Claims(d),
         \A d \in Datasources : request'[r].bot \in Chatbots /\ Holds(request'[r], d) =>
            request'[r].bot \in Claims(d) \/ (source[d] = "absent" /\ source'[d] # "absent")
  PROVE  ClaimsOK'
<1> DEFINE s == request'[r]
<1>1. TablesOK /\ TablesOK'
  BY ShapeTables DEF ShapeOK, TypeOK, TablesOK
<1>2. ASSUME NEW d \in Datasources, NEW c \in Chatbots,
             \/ link'[d] # None /\ link'[d].kb = c
             \/ \E q \in Requests : request'[q].bot = c /\ Holds(request'[q], d)
      PROVE  \/ c \in Claims(d)
             \/ c = s.bot /\ source[d] = "absent" /\ source'[d] # "absent"
  <2>1. CASE link'[d] # None /\ link'[d].kb = c
    BY <1>2, <2>1 DEF Claims
  <2>2. ASSUME NEW q \in Requests, request'[q].bot = c, Holds(request'[q], d), q # r
        PROVE  c \in Claims(d)
    BY <2>2 DEF Others, Claims
  <2>3. CASE s.bot = c /\ Holds(s, d)
    BY <2>3
  <2> QED
    BY <1>2, <2>1, <2>2, <2>3
<1>3. ASSUME NEW d \in Datasources, NEW c \in Claims(d)'
      PROVE  c \in Claims(d) \/ (c = s.bot /\ source[d] = "absent" /\ source'[d] # "absent")
  BY <1>2, <1>3 DEF Claims, Holds
<1> HIDE DEF s
<1> QED
  BY <1>3 DEF ClaimsOK

\* The datasources that a request holds come with it from stage to stage.
LEMMA HoldsNoMore ==
  ASSUME NEW q, NEW s, Fixed(q, s), SameSources(q, s),
         s.at \notin {"wipe", "delete-kb", "drop"},
         NEW d, Holds(s, d)
  PROVE  Holds(q, d)
  BY DEF Holds, SameSources

LEMMA ClaimsQuiet ==
  ASSUME ShapeOK, ShapeOK', ClaimsOK, NEW r \in Requests, UNCHANGED <<source, link>>,
         \/ Ended(r)
         \/ /\ Proceeds(r) /\ SameSources(request[r], request'[r])
            /\ request'[r].at \notin {"wipe", "delete-kb", "drop"}
  PROVE  ClaimsOK'
<1>1. CASE Ended(r)
  BY <1>1, ClaimsFrame, IdleFields, NoneIsNothing DEF Ended
<1>2. CASE Proceeds(r) /\ SameSources(request[r], request'[r])
           /\ request'[r].at \notin {"wipe", "delete-kb", "drop"}
  <2>1. \A d \in Datasources : Holds(request'[r], d) => Holds(request[r], d)
    BY <1>2, HoldsNoMore DEF Proceeds
  <2>2. request'[r].bot = request[r].bot
    BY <1>2 DEF Proceeds, Fixed
  <2>3. \A d \in Datasources : request'[r].bot \in Chatbots /\ Holds(request'[r], d) =>
            request'[r].bot \in Claims(d)
    BY <2>1, <2>2 DEF Claims
  <2> QED
    BY <1>2, <2>3, ClaimsFrame DEF Proceeds
<1> QED
  BY <1>1, <1>2

\* A request claims what it holds for its chatbot.
LEMMA HeldIsClaimed ==
  ASSUME ShapeOK, NEW r \in Requests, NEW d \in Datasources, Holds(request[r], d), request[r] # Idle
  PROVE  request[r].bot \in Claims(d)
  BY DEF Claims, ShapeOK, RequestOK

LEMMA LinkIsClaim ==
  ASSUME ShapeOK, NEW d \in Datasources, link[d] # None
  PROVE  link[d].kb \in Claims(d) /\ link[d].kb \in kb /\ link[d].kb \in Chatbots
  BY ShapeTables DEF Claims, TablesOK

\* A link a request makes.
LEMMA LinkedStep ==
  ASSUME ShapeOK, NEW d \in Datasources \union {None}, NEW c \in Chatbots, NEW selection,
         link' = Linked(d, c, selection)
  PROVE  \A e \in Datasources :
            \/ link'[e] = link[e]
            \/ e = d /\ link'[e] = [kb |-> c, selection |-> selection] /\ Exists(d)
  BY ShapeTables DEF Linked, TablesOK

LEMMA ClaimsStep == ServedInv /\ [Next]_vars => ClaimsOK'
<1> SUFFICES ASSUME ServedInv, [Next]_vars PROVE ClaimsOK'
  OBVIOUS
<1>1. ShapeOK /\ ShapeOK' /\ TablesOK /\ ClaimsOK
  BY StepShape, ShapeTables DEF ServedInv
<1>2. ASSUME NEW r \in Requests, RequestStep(r) PROVE ClaimsOK'
  <2> DEFINE q == request[r]
             s == request'[r]
  <2>1. RequestOK(q)
    BY <1>1 DEF ShapeOK
  <2>2. ASSUME UNCHANGED <<source, link>>,
               \/ Ended(r)
               \/ Proceeds(r) /\ SameSources(q, s) /\ s.at \notin {"wipe", "delete-kb", "drop"}
        PROVE  ClaimsOK'
    BY <1>1, <2>2, ClaimsQuiet
  <2>3. CASE CreateKb(r) \/ CreateChatbot(r) \/ SkipFile(r) \/ AddRow(r) \/ StoreFile(r)
    <3>1. UNCHANGED <<source, link>>
      BY <2>3 DEF CreateKb, CreateChatbot, SkipFile, AddRow, StoreFile, dbVars
    <3>2. \/ Ended(r)
          \/ Proceeds(r) /\ SameSources(q, s) /\ s.at \notin {"wipe", "delete-kb", "drop"}
      BY <1>1, <2>3, CreateKbShape, CreateChatbotShape, SkipFileShape, AddRowShape,
         StoreFileShape
    <3> QED
      BY <2>2, <3>1, <3>2
  <2>4. CASE StoreFileFails(r) \/ MarkUploaded(r) \/ Uploaded(r) \/ ReapFiles(r) \/ CheckChatbot(r)
             \/ ReadSelection(r)
    <3>1. UNCHANGED <<source, link>>
      BY <2>4 DEF StoreFileFails, MarkUploaded, Uploaded, ReapFiles, CheckChatbot,
         ReadSelection, dbVars
    <3>2. \/ Ended(r)
          \/ Proceeds(r) /\ SameSources(q, s) /\ s.at \notin {"wipe", "delete-kb", "drop"}
      BY <1>1, <2>4, StoreFileFailsShape, MarkUploadedShape, UploadedShape, ReapFilesShape,
         CheckChatbotShape, ReadSelectionShape
    <3> QED
      BY <2>2, <3>1, <3>2
  <2>5. CASE StoreImage(r) \/ CommitImage(r) \/ DeleteImage(r) \/ RequestDies(r)
    <3>1. UNCHANGED <<source, link>>
      BY <2>5 DEF StoreImage, CommitImage, DeleteImage, RequestDies, dbVars
    <3>2. \/ Ended(r)
          \/ Proceeds(r) /\ SameSources(q, s) /\ s.at \notin {"wipe", "delete-kb", "drop"}
      BY <1>1, <2>5, StoreImageShape, CommitImageShape, DeleteImageShape, RequestDiesShape
    <3> QED
      BY <2>2, <3>1, <3>2
  <2>6. CASE BeginCreate(r) \/ BeginUpdate(r) \/ BeginImage(r) \/ DeleteChatbot(r)
    <3>1. UNCHANGED <<source, link>>
      BY <2>6 DEF BeginCreate, BeginUpdate, BeginImage, DeleteChatbot, Begin, dbVars
    <3>2. Others(r) /\ s.ds = None /\ s.moodle = None /\ s.at \notin {"wipe", "delete-kb", "drop"}
      BY <1>1, <2>6, BeginCreateShape, BeginUpdateShape, BeginImageShape, DeleteChatbotShape
    <3>3. \A d \in Datasources : ~ Holds(s, d)
      BY <3>2, NoneIsNothing DEF Holds
    <3> QED
      BY <1>1, <3>1, <3>2, <3>3, ClaimsFrame
  <2>7. CASE CreateMoodleSource(r) \/ CreateFileSource(r)
    <3>1. link' = link
      BY <2>7 DEF CreateMoodleSource, CreateFileSource
    <3>2. PICK e \in FreshSources :
             /\ \A d \in Datasources \ {e} : source'[d] = source[d]
             /\ source[e] = "absent" /\ source'[e] # "absent"
             /\ \/ Ended(r)
                \/ /\ Proceeds(r) /\ s.at \notin {"wipe", "delete-kb", "drop"}
                   /\ s.ds \in {q.ds, e} /\ s.moodle \in {q.moodle, e}
      <4>1. PICK e \in FreshSources, kind \in {"moodle", "file"} : source' = [source EXCEPT ![e] = kind]
        BY <2>7 DEF CreateMoodleSource, CreateFileSource
      <4>2. CASE Ended(r)
        BY <1>1, <4>1, <4>2 DEF FreshSources, TablesOK
      <4>3. CASE ~ Ended(r)
        <5>1. /\ Proceeds(r) /\ s.at \notin {"wipe", "delete-kb", "drop"}
              /\ \/ /\ s.ds = q.ds /\ s.moodle \in FreshSources
                    /\ source' = [source EXCEPT ![s.moodle] = "moodle"]
                 \/ /\ s.moodle = q.moodle /\ s.ds \in FreshSources
                    /\ source' = [source EXCEPT ![s.ds] = "file"]
          BY <1>1, <2>7, <4>3, CreateMoodleSourceShape, CreateFileSourceShape
        <5> HIDE DEF s, q
        <5> QED
          BY <1>1, <5>1 DEF FreshSources, TablesOK
      <4> QED
        BY <4>2, <4>3
    <3>3. \A d \in Datasources : source'[d] = "absent" => source[d] = "absent"
      BY <3>2
    <3>4. CASE Ended(r)
      BY <1>1, <3>1, <3>3, <3>4, ClaimsFrame, IdleFields, NoneIsNothing DEF Ended
    <3>5. CASE ~ Ended(r)
      <4>1. /\ Others(r) /\ s.bot = q.bot /\ s.at \notin {"wipe", "delete-kb", "drop"}
            /\ s.ds \in {q.ds, e} /\ s.moodle \in {q.moodle, e}
        BY <3>2, <3>5 DEF Proceeds, Fixed
      <4>2. \A d \in Datasources : s.bot \in Chatbots /\ Holds(s, d) => d = e \/ s.bot \in Claims(d)
        BY <4>1 DEF Holds, Claims
      <4> QED
        BY <1>1, <3>1, <3>2, <3>3, <4>1, <4>2, ClaimsFrame
    <3> QED
      BY <3>4, <3>5
  <2>8. CASE LinkMoodle(r) \/ LinkFiles(r) \/ AttachSource(r)
    <3>1. source' = source
      BY <2>8 DEF LinkMoodle, LinkFiles, AttachSource
    <3>2. /\ Proceeds(r) /\ SameSources(q, s) /\ s.at \notin {"wipe", "delete-kb", "drop"}
          /\ q # Idle
      BY <1>1, <2>8, LinkMoodleShape, LinkFilesShape, AttachSourceShape, IdleFields
    <3>3. \A d \in Datasources : link'[d] = link[d] \/ (link'[d].kb = q.bot /\ Holds(q, d))
      <4>1. q.bot \in Chatbots /\ q.ds \in Datasources \union {None}
            /\ q.moodle \in Datasources \union {None}
        BY <2>1, <3>2 DEF RequestOK
      <4>2. \/ link' = link
            \/ \E selection : link' = Linked(q.moodle, q.bot, selection)
            \/ \E selection : link' = Linked(q.ds, q.bot, selection)
        BY <2>8 DEF LinkMoodle, LinkFiles, AttachSource
      <4>3. ASSUME NEW e \in {q.moodle, q.ds}, NEW selection, link' = Linked(e, q.bot, selection)
            PROVE  \A d \in Datasources : link'[d] = link[d] \/ (link'[d].kb = q.bot /\ Holds(q, d))
        <5>1. \A d \in Datasources :
                \/ link'[d] = link[d]
                \/ d = e /\ link'[d] = [kb |-> q.bot, selection |-> selection]
          BY <1>1, <4>1, <4>3, LinkedStep
        <5> QED
          BY <5>1 DEF Holds
      <4> QED
        BY <4>2, <4>3
    <3>4. \A d \in Datasources : Holds(s, d) => Holds(q, d)
      BY <3>2, HoldsNoMore DEF Proceeds
    <3>5. s.bot = q.bot
      BY <3>2 DEF Proceeds, Fixed
    <3>6. \A d \in Datasources : Holds(q, d) => q.bot \in Claims(d)
      BY <1>1, <3>2, HeldIsClaimed
    <3> QED
      BY <1>1, <3>1, <3>2, <3>3, <3>4, <3>5, <3>6, ClaimsFrame DEF Proceeds
  <2>9. CASE ReadLinks(r) \/ FindLink(r) \/ DeleteAvatar(r) \/ WipePrefixes(r)
    <3>1. UNCHANGED <<source, link>>
      BY <2>9 DEF ReadLinks, FindLink, DeleteAvatar, WipePrefixes, dbVars
    <3>2. CASE Ended(r) \/ s.at = "datasource"
      BY <1>1, <2>2, <2>9, <3>1, <3>2, ReadLinksShape, FindLinkShape, DeleteAvatarShape,
         WipePrefixesShape
    <3>3. CASE ~ Ended(r) /\ s.at # "datasource"
      <4>1. /\ Proceeds(r) /\ s.moodle = q.moodle /\ s.ds \in LinksOf(q.bot) \union {q.ds}
            /\ s.at = "drop" => DOMAIN s.seen = LinksOf(q.bot)
            /\ s.at \in {"wipe", "delete-kb"} => s.drop = LinksOf(q.bot) \/ (q.at = "wipe" /\ s.drop = q.drop)
            /\ q.at \in {"read-links", "find-link", "avatar", "wipe"}
        BY <1>1, <2>9, <3>3, ReadLinksShape, FindLinkShape, DeleteAvatarShape, WipePrefixesShape
           DEF SameSources, SameReads
      <4>2. /\ Others(r) /\ s.bot = q.bot /\ q # Idle
        BY <4>1, IdleFields DEF Proceeds, Fixed
      <4>3. \A d \in Datasources : Holds(s, d) => d \in LinksOf(q.bot) \/ Holds(q, d)
        BY <4>1 DEF Holds
      <4>4. \A d \in LinksOf(q.bot) : q.bot \in Claims(d)
        BY <1>1, <2>1, <4>2 DEF LinksOf, Claims, RequestOK
      <4> QED
        BY <1>1, <3>1, <4>2, <4>3, <4>4, HeldIsClaimed, ClaimsFrame
    <3> QED
      BY <3>2, <3>3
  <2>10. CASE AppendSelection(r) \/ DeleteKb(r)
    <3>1. Ended(r) /\ q.at \in {"append", "delete-kb"}
      BY <1>1, <2>10, AppendSelectionShape, DeleteKbShape
    <3>2. \A d \in Datasources : source'[d] = "absent" => source[d] = "absent"
      BY <1>1, <2>10 DEF AppendSelection, DeleteKb, TablesOK, Exists
    <3>3. \A d \in Datasources : link'[d] # None => link[d] # None /\ link'[d].kb = link[d].kb
      <4>1. CASE AppendSelection(r)
        <5>1. q.ds \in Datasources
          BY <2>1, <3>1, <1>1, <4>1, AppendSelectionShape DEF RequestOK, HasSource
        <5>2. CASE link[q.ds] = None
          BY <4>1, <5>2 DEF AppendSelection
        <5>3. CASE link[q.ds] # None
          <6>1. link[q.ds] \in [kb : kb, selection : SUBSET Files]
            BY <1>1, <5>1, <5>3 DEF TablesOK
          <6>2. link' = [link EXCEPT ![q.ds] = [@ EXCEPT !.selection = q.seen \union q.stored]]
            BY <4>1, <5>3 DEF AppendSelection
          <6> QED
            BY <1>1, <5>1, <5>3, <6>1, <6>2 DEF TablesOK
        <5> QED
          BY <5>2, <5>3
      <4>2. CASE DeleteKb(r)
        BY <1>1, <4>2 DEF DeleteKb
      <4> QED
        BY <2>10, <4>1, <4>2
    <3>4. \A d \in Datasources : link'[d] # None => link'[d].kb \in Claims(d)
      BY <1>1, <3>3, LinkIsClaim
    <3> QED
      BY <1>1, <3>1, <3>2, <3>4, ClaimsFrame, IdleFields, NoneIsNothing DEF Ended
  <2>11. CASE DropFiles(r)
    <3>1. CASE Ended(r) /\ UNCHANGED <<source, link, row, spills>>
      BY <1>1, <2>2, <3>1
    <3>2. CASE ~ (Ended(r) /\ UNCHANGED <<source, link, row, spills>>)
      <4>1. /\ Proceeds(r) /\ SameSources(q, s) /\ s.at = "reap" /\ q # Idle
            /\ \A d \in Touched(q) : link[d] # None
            /\ link' = [d \in Datasources |->
                          IF d \in Emptied(q) THEN None
                          ELSE IF d \in Touched(q)
                               THEN [link[d] EXCEPT !.selection = q.seen[d] \ q.drop]
                               ELSE link[d]]
            /\ source' = [d \in Datasources |-> IF d \in Emptied(q) THEN "deleted" ELSE source[d]]
        BY <1>1, <2>11, <3>2, DropFilesShape, IdleFields
      <4>2. \A d \in Datasources : source'[d] = "absent" => source[d] = "absent"
        BY <4>1
      <4>3. ASSUME NEW d \in Datasources, link'[d] # None
            PROVE  link'[d].kb \in Claims(d)
        <5>1. link[d] # None
          BY <4>1, <4>3
        <5>2. link[d] \in [kb : kb, selection : SUBSET Files]
          BY <1>1, <5>1 DEF TablesOK
        <5>3. link'[d].kb = link[d].kb
          BY <4>1, <4>3, <5>2
        <5> QED
          BY <1>1, <5>1, <5>3, LinkIsClaim
      <4>4. \A d \in Datasources : Holds(s, d) => Holds(q, d)
        BY <4>1, HoldsNoMore DEF Proceeds
      <4>5. s.bot = q.bot
        BY <4>1 DEF Proceeds, Fixed
      <4>6. \A d \in Datasources : Holds(q, d) => q.bot \in Claims(d)
        BY <1>1, <4>1, HeldIsClaimed
      <4> QED
        BY <1>1, <4>1, <4>2, <4>3, <4>4, <4>5, <4>6, ClaimsFrame DEF Proceeds
    <3> QED
      BY <3>1, <3>2
  <2> QED
    BY <1>2, <2>3, <2>4, <2>5, <2>6, <2>7, <2>8, <2>9, <2>10, <2>11 DEF RequestStep
<1>3. CASE PlanCleanup \/ ApplyCleanup \/ DeleteOrphanObjects
  <2>1. /\ request' = request /\ link' = link
        /\ \A d \in Datasources : source'[d] = "absent" => source[d] = "absent"
    BY <1>1, <1>3 DEF PlanCleanup, ApplyCleanup, DeleteOrphanObjects, dbVars, Exists, TablesOK
  <2> QED
    BY <1>1, <2>1 DEF ClaimsOK, Claims, Holds
<1>4. CASE UNCHANGED vars
  BY <1>1, <1>4 DEF ClaimsOK, Claims, Holds, vars, dbVars
<1> QED
  BY <1>2, <1>3, <1>4 DEF Next

-----------------------------------------------------------------------------
(* What no step undoes.                                                    *)

Stable ==
    /\ \A f \in Files : row[f] # "absent" => home'[f] = home[f] /\ row'[f] # "absent"
    /\ \A f \in Files : row[f] = "deleted" => row'[f] = "deleted"
    /\ \A f \in Files : row[f] = "uploaded" => row'[f] \in {"uploaded", "deleted"}
    /\ \A f \in Files : HasRow(f)' => HasRow(f) \/ Exists(home'[f])
    /\ \A d \in Datasources : source[d] = "deleted" => source'[d] = "deleted"
    /\ \A d \in Datasources : source[d] # "absent" => source'[d] # "absent"
    /\ \A c \in Chatbots : chatbot[c] = "deleted" => chatbot'[c] = "deleted"
    /\ \A d \in Datasources : link[d] # None =>
          (link'[d] # None /\ link'[d].kb = link[d].kb) \/ Dead(d)'

\* A file is under a datasource that was made, as its uploading request holds that.
LEMMA StableStep == ServedInv /\ [Next]_vars => Stable
<1> SUFFICES ASSUME ServedInv, [Next]_vars PROVE Stable
  OBVIOUS
<1>1. /\ ShapeOK /\ TablesOK /\ BotsOK /\ ClaimsOK /\ UploadsOK
      /\ \A r \in Requests : RequestOK(request[r])
  BY ShapeTables DEF ServedInv, ShapeOK
<1>2. ASSUME UNCHANGED dbVars PROVE Stable
  BY <1>2 DEF Stable, dbVars, HasRow
<1>3. ASSUME NEW r \in Requests, RequestStep(r) PROVE Stable
  <2> DEFINE q == request[r]
  <2>1. CASE BeginCreate(r) \/ SkipFile(r) \/ StoreFile(r) \/ Uploaded(r) \/ BeginUpdate(r) \/ ReadLinks(r)
             \/ ReapFiles(r) \/ FindLink(r) \/ CheckChatbot(r) \/ ReadSelection(r)
    BY <1>2, <2>1 DEF BeginCreate, SkipFile, StoreFile, Uploaded, BeginUpdate, ReadLinks,
       ReapFiles,
       FindLink, CheckChatbot, ReadSelection, Begin
  <2>2. CASE DeleteAvatar(r) \/ WipePrefixes(r) \/ BeginImage(r) \/ StoreImage(r) \/ DeleteImage(r)
             \/ RequestDies(r)
    BY <1>2, <2>2 DEF DeleteAvatar, WipePrefixes, BeginImage, StoreImage, DeleteImage,
       RequestDies, Begin
  <2>3. CASE CreateMoodleSource(r) \/ CreateFileSource(r)
    <3>1. UNCHANGED <<chatbot, link, row, home>>
      BY <2>3 DEF CreateMoodleSource, CreateFileSource
    <3>2. \A d \in Datasources : source[d] # "absent" => source'[d] = source[d]
      BY <1>1, <2>3 DEF CreateMoodleSource, CreateFileSource, FreshSources, TablesOK
    <3> QED
      BY <3>1, <3>2 DEF Stable, HasRow
  <2>4. CASE CreateKb(r) \/ CommitImage(r)
    BY <2>4 DEF CreateKb, CommitImage, Stable, HasRow
  <2>5. CASE LinkMoodle(r) \/ LinkFiles(r) \/ AttachSource(r)
    <3>1. UNCHANGED <<chatbot, source, row, home>>
      BY <2>5 DEF LinkMoodle, LinkFiles, AttachSource
    <3>2. q # Idle
      BY <1>1, <2>5, LinkMoodleShape, LinkFilesShape, AttachSourceShape, IdleFields
    <3>3. /\ q.bot \in Chatbots /\ q.ds \in Datasources \union {None}
          /\ q.moodle \in Datasources \union {None} /\ q.stored \subseteq Files
      BY <1>1, <3>2 DEF RequestOK
    <3>4. \/ link' = link
          \/ \E e \in {q.moodle, q.ds}, selection \in SUBSET Files : link' = Linked(e, q.bot, selection)
      BY <2>5, <3>3 DEF LinkMoodle, LinkFiles, AttachSource
    <3>5. ASSUME NEW e \in {q.moodle, q.ds}, NEW selection \in SUBSET Files,
                 link' = Linked(e, q.bot, selection),
                 NEW d \in Datasources, link[d] # None, link'[d] # link[d]
          PROVE  link'[d] # None /\ link'[d].kb = link[d].kb
      <4>1. e = d /\ link'[d] = [kb |-> q.bot, selection |-> selection]
        BY <1>1, <3>3, <3>5, LinkedStep
      <4>2. Holds(q, d)
        BY <4>1 DEF Holds
      <4>3. q.bot \in Claims(d) /\ link[d].kb \in Claims(d)
        BY <1>1, <3>2, <3>5, <4>2, HeldIsClaimed, LinkIsClaim
      <4>4. q.bot = link[d].kb
        BY <1>1, <4>3 DEF ClaimsOK
      <4>5. [kb |-> q.bot, selection |-> selection] \in [kb : Chatbots, selection : SUBSET Files]
        BY <3>3
      <4> QED
        BY <4>1, <4>4, <4>5, NoneIsNothing
    <3> QED
      BY <3>1, <3>4, <3>5 DEF Stable, HasRow
  <2>6. CASE CreateChatbot(r)
    <3>1. chatbot[q.bot] = "absent"
      BY <1>1, <2>6, CreateChatbotShape DEF BotsOK
    <3>2. UNCHANGED <<source, link, row, home>> /\ chatbot' = [chatbot EXCEPT ![q.bot] = "live"]
      BY <2>6 DEF CreateChatbot
    <3> QED
      BY <1>1, <3>1, <3>2 DEF Stable, TablesOK, HasRow
  <2>7. CASE AddRow(r)
    <3>1. PICK f \in q.todo : row' = [row EXCEPT ![f] = "uploading"] /\ home' = [home EXCEPT ![f] = q.ds]
      BY <2>7 DEF AddRow
    <3>2. f \in Files /\ row[f] = "absent" /\ Exists(q.ds)
      BY <1>1, <2>7 DEF UploadsOK, RequestOK, Uploads, AddRow
    <3>3. UNCHANGED <<chatbot, source, link>>
      BY <2>7 DEF AddRow
    <3> QED
      BY <1>1, <3>1, <3>2, <3>3 DEF Stable, TablesOK, HasRow
  <2>8. CASE StoreFileFails(r) \/ MarkUploaded(r)
    <3>1. q.now \in Files /\ row[q.now] \in {"uploading", "deleted"}
      BY <1>1, <2>8, StoreFileFailsShape, MarkUploadedShape DEF UploadsOK, RequestOK, Uploads
    <3>2. /\ UNCHANGED <<chatbot, source, link, home>>
          /\ \/ row' = row
             \/ HasRow(q.now) /\ row' = [row EXCEPT ![q.now] = "error"]
             \/ HasRow(q.now) /\ row' = [row EXCEPT ![q.now] = "uploaded"]
      BY <2>8 DEF StoreFileFails, MarkUploaded
    <3> QED
      BY <1>1, <3>1, <3>2 DEF Stable, TablesOK, HasRow
  <2>9. CASE DropFiles(r)
    <3>1. CASE UNCHANGED <<source, link, row, spills>>
      BY <1>2, <2>9, <3>1 DEF DropFiles, dbVars
    <3>2. CASE ~ UNCHANGED <<source, link, row, spills>>
      <4>1. /\ \A d \in Touched(q) : link[d] # None
            /\ link' = [d \in Datasources |->
                          IF d \in Emptied(q) THEN None
                          ELSE IF d \in Touched(q)
                               THEN [link[d] EXCEPT !.selection = q.seen[d] \ q.drop]
                               ELSE link[d]]
            /\ source' = [d \in Datasources |-> IF d \in Emptied(q) THEN "deleted" ELSE source[d]]
            /\ row' = [f \in Files |-> IF f \in Gone(q) THEN "deleted" ELSE row[f]]
        BY <1>1, <2>9, <3>2, DropFilesShape
      <4>2. UNCHANGED <<chatbot, home>>
        BY <2>9 DEF DropFiles
      <4>3. /\ \A f \in Gone(q) : HasRow(f)
            /\ \A f \in Files : HasRow(f) /\ home[f] \in Emptied(q) => f \in Gone(q)
        BY DEF Gone, RowsUnder
      <4>4. Touched(q) \subseteq Datasources /\ \A d \in DOMAIN q.seen : q.seen[d] \subseteq Files
        BY <1>1, <2>9 DEF RequestOK, Touched, DropFiles
      <4>5. ASSUME NEW d \in Datasources, link[d] # None
            PROVE  (link'[d] # None /\ link'[d].kb = link[d].kb) \/ Dead(d)'
        <5>1. CASE d \in Emptied(q)
          BY <4>1, <4>2, <4>3, <5>1 DEF Dead, HasRow
        <5>2. CASE d \in Touched(q) \ Emptied(q)
          <6>1. link[d] \in [kb : kb, selection : SUBSET Files] /\ kb \subseteq Chatbots
            BY <1>1, <4>5 DEF TablesOK
          <6>2. q.seen[d] \ q.drop \subseteq Files
            BY <4>4, <5>2 DEF Touched
          <6>3. /\ link'[d] = [link[d] EXCEPT !.selection = q.seen[d] \ q.drop]
                /\ link'[d] \in [kb : Chatbots, selection : SUBSET Files]
            BY <4>1, <5>2, <6>1, <6>2
          <6> QED
            BY <6>1, <6>3, NoneIsNothing
        <5>3. CASE d \notin Touched(q) /\ d \notin Emptied(q)
          BY <4>1, <4>5, <5>3
        <5> QED
          BY <5>1, <5>2, <5>3
      <4> HIDE DEF q
      <4> QED
        BY <4>1, <4>2, <4>3, <4>5 DEF Stable, HasRow
    <3> QED
      BY <3>1, <3>2
  <2>10. CASE AppendSelection(r)
    <3>1. UNCHANGED <<chatbot, source, row, home>>
      BY <2>10 DEF AppendSelection
    <3>2. q.ds \in Datasources /\ q.seen \union q.stored \subseteq Files
      BY <1>1, <2>10 DEF RequestOK, HasSource, AppendSelection
    <3>3. CASE link[q.ds] = None
      BY <1>2, <2>10, <3>3 DEF AppendSelection, dbVars
    <3>4. CASE link[q.ds] # None
      <4>1. link[q.ds] \in [kb : kb, selection : SUBSET Files] /\ kb \subseteq Chatbots
        BY <1>1, <3>2, <3>4 DEF TablesOK
      <4>2. link' = [link EXCEPT ![q.ds] = [@ EXCEPT !.selection = q.seen \union q.stored]]
        BY <2>10, <3>4 DEF AppendSelection
      <4>3. [link[q.ds] EXCEPT !.selection = q.seen \union q.stored]
               \in [kb : Chatbots, selection : SUBSET Files]
        BY <3>2, <4>1
      <4>4. \A d \in Datasources : link[d] # None => link'[d] # None /\ link'[d].kb = link[d].kb
        BY <1>1, <3>2, <4>1, <4>2, <4>3, NoneIsNothing DEF TablesOK
      <4> QED
        BY <3>1, <4>4 DEF Stable, HasRow
    <3> QED
      BY <3>3, <3>4
  <2>11. CASE DeleteChatbot(r)
    <3>1. UNCHANGED <<source, link, row, home>>
      BY <2>11 DEF DeleteChatbot
    <3>2. \A c \in Chatbots : chatbot[c] = "deleted" => chatbot'[c] = "deleted"
      BY <1>1, <2>11 DEF DeleteChatbot, TablesOK
    <3> QED
      BY <3>1, <3>2 DEF Stable, HasRow
  <2>12. CASE DeleteKb(r)
    <3>1. UNCHANGED <<chatbot, home>>
      BY <2>12 DEF DeleteKb
    <3>2. CASE UNCHANGED <<kb, link, source, row>>
      BY <3>1, <3>2 DEF Stable, HasRow
    <3>3. CASE ~ UNCHANGED <<kb, link, source, row>>
      <4>1. /\ link' = [d \in Datasources |-> IF d \in q.drop THEN None ELSE link[d]]
            /\ source' = [d \in Datasources |->
                            IF d \in q.drop /\ Exists(d) THEN "deleted" ELSE source[d]]
            /\ row' = [f \in Files |-> IF f \in RowsUnder(q.drop) THEN "deleted" ELSE row[f]]
        BY <2>12, <3>3 DEF DeleteKb
      <4>2. \A d \in Datasources : link[d] # None => source[d] # "absent"
        BY <1>1, LinkIsClaim DEF ClaimsOK
      <4>3. ASSUME NEW d \in Datasources, link[d] # None
            PROVE  (link'[d] # None /\ link'[d].kb = link[d].kb) \/ Dead(d)'
        <5>1. CASE d \in q.drop
          <6>1. source'[d] = "deleted"
            BY <1>1, <4>1, <4>2, <4>3, <5>1 DEF Exists, TablesOK
          <6>2. \A f \in Files : home'[f] = d => ~ HasRow(f)'
            BY <3>1, <4>1, <5>1 DEF RowsUnder, HasRow
          <6> QED
            BY <6>1, <6>2 DEF Dead
        <5>2. CASE d \notin q.drop
          BY <4>1, <4>3, <5>2
        <5> QED
          BY <5>1, <5>2
      <4> HIDE DEF q
      <4> QED
        BY <3>1, <4>1, <4>3 DEF Stable, HasRow, RowsUnder
    <3> QED
      BY <3>2, <3>3
  <2> QED
    BY <1>3, <2>1, <2>2, <2>3, <2>4, <2>5, <2>6, <2>7, <2>8, <2>9, <2>10, <2>11, <2>12
       DEF RequestStep
<1>4. CASE ApplyCleanup
  <2>1. UNCHANGED <<chatbot, link, home>>
    BY <1>4 DEF ApplyCleanup
  <2>2. \/ UNCHANGED <<source, row>>
        \/ /\ \A f \in Files : row'[f] = row[f] \/ (HasRow(f) /\ row'[f] = "deleted")
           /\ \A d \in Datasources : source'[d] = source[d] \/ source'[d] = "deleted"
    BY <1>1, <1>4 DEF ApplyCleanup, RowsUnder
  <2> QED
    BY <2>1, <2>2 DEF Stable, HasRow
<1>5. CASE PlanCleanup \/ DeleteOrphanObjects \/ UNCHANGED vars
  BY <1>2, <1>5 DEF PlanCleanup, DeleteOrphanObjects, vars
<1> QED
  BY <1>3, <1>4, <1>5 DEF Next

\* What Stable keeps.
StaysKept(f, d) == home'[f] = d /\ row'[f] \in {"uploaded", "deleted"}

LEMMA KeptStays ==
  ASSUME Stable, NEW f \in Files, NEW d, Kept(f, d)
  PROVE  StaysKept(f, d)
  BY DEF Stable, Kept, StaysKept

LEMMA DeadStays ==
  ASSUME Stable, NEW d \in Datasources, Dead(d)
  PROVE  Dead(d)'
  BY DEF Stable, Dead, HasRow, Exists

LEMMA DoomedStays ==
  ASSUME Stable, TablesOK, NEW d \in Datasources, Doomed(d)
  PROVE  Doomed(d)' \/ Dead(d)'
<1>1. link[d].kb \in Chatbots
  BY DEF Doomed, TablesOK
<1> QED
  BY <1>1 DEF Stable, Doomed

-----------------------------------------------------------------------------
(* Files, step by step.                                                    *)

\* Rows that change are deleted, and no file moves.
RowsFall ==
    /\ home' = home
    /\ \A f \in Files : row'[f] = row[f] \/ (HasRow(f) /\ row'[f] = "deleted")

\* The files a request is about go with it.
UploadGoesOn(r) ==
    /\ Others(r)
    /\ request'[r].todo \subseteq request[r].todo \/ request'[r].todo \subseteq FreshFiles
    /\ Uploads(request'[r]) =>
          Uploads(request[r]) /\ request'[r].now = request[r].now /\ request'[r].ds = request[r].ds
    /\ Uploads(request[r]) /\ ~ Uploads(request'[r]) => request'[r].todo = {}

LEMMA EndedGoesOn ==
  ASSUME NEW r \in Requests, Ended(r)
  PROVE  UploadGoesOn(r)
  BY IdleFields DEF Ended, UploadGoesOn, Uploads

LEMMA UploadsFrame ==
  ASSUME ShapeOK, ShapeOK', UploadsOK, NEW r \in Requests, UploadGoesOn(r), RowsFall
  PROVE  UploadsOK'
<1>1. \A q \in Requests : RequestOK(request[q]) /\ RequestOK(request'[q])
  BY DEF ShapeOK
<1>2. \A q \in Requests \ {r} : request'[q] = request[q]
  BY DEF UploadGoesOn, Others
<1>3. ASSUME NEW f \in request'[r].todo
      PROVE  /\ row'[f] = "absent" \/ (Uploads(request'[r]) /\ f = request'[r].now)
             /\ \A q \in Requests \ {r} : f \notin request[q].todo
  <2>1. CASE f \in request[r].todo
    BY <1>1, <1>3, <2>1 DEF UploadsOK, UploadGoesOn, RowsFall, RequestOK, HasRow
  <2>2. CASE f \in FreshFiles
    BY <1>1, <1>3, <2>2 DEF FreshFiles, Taken, RowsFall, HasRow
  <2> QED
    BY <1>3, <2>1, <2>2 DEF UploadGoesOn
<1>4. ASSUME NEW q \in Requests, NEW f \in request'[q].todo
      PROVE  row'[f] = "absent" \/ (Uploads(request'[q]) /\ f = request'[q].now)
  <2>1. CASE q = r
    BY <1>3, <1>4, <2>1
  <2>2. CASE q # r
    BY <1>1, <1>2, <1>4, <2>2 DEF UploadsOK, RowsFall, RequestOK, HasRow
  <2> QED
    BY <2>1, <2>2
<1>5. ASSUME NEW q \in Requests, Uploads(request'[q])
      PROVE  /\ home'[request'[q].now] = request'[q].ds
             /\ row'[request'[q].now] \in {"uploading", "deleted"}
  <2>1. Uploads(request[q]) /\ request'[q].now = request[q].now /\ request'[q].ds = request[q].ds
    BY <1>2, <1>5 DEF UploadGoesOn
  <2>2. request[q].now \in Files
    BY <1>1, <2>1 DEF RequestOK
  <2> QED
    BY <2>1, <2>2 DEF UploadsOK, RowsFall
<1>6. ASSUME NEW p \in Requests, NEW q \in Requests, p # q
      PROVE  request'[p].todo \intersect request'[q].todo = {}
  BY <1>2, <1>3, <1>6 DEF UploadsOK
<1>7. \A f \in Files : row'[f] # "absent" => home'[f] \in Datasources
  BY DEF UploadsOK, RowsFall, HasRow
<1> QED
  BY <1>4, <1>5, <1>6, <1>7 DEF UploadsOK

\* The steps that change the rows of single files, or none but fall.
LEMMA RowsFallStep ==
  ASSUME ShapeOK, NEW r \in Requests, RequestStep(r), ~ AddRow(r), ~ StoreFileFails(r), ~ MarkUploaded(r)
  PROVE  RowsFall
<1>1. CASE BeginCreate(r) \/ CreateMoodleSource(r) \/ CreateFileSource(r) \/ CreateKb(r) \/ LinkMoodle(r)
           \/ LinkFiles(r) \/ CreateChatbot(r) \/ SkipFile(r) \/ StoreFile(r) \/ Uploaded(r)
  BY <1>1 DEF BeginCreate, CreateMoodleSource, CreateFileSource, CreateKb, LinkMoodle,
     LinkFiles,
     CreateChatbot, SkipFile, StoreFile, Uploaded, Begin, dbVars, RowsFall
<1>2. CASE BeginUpdate(r) \/ ReadLinks(r) \/ ReapFiles(r) \/ FindLink(r) \/ CheckChatbot(r)
           \/ AttachSource(r) \/ ReadSelection(r) \/ AppendSelection(r)
  BY <1>2 DEF BeginUpdate, ReadLinks, ReapFiles, FindLink, CheckChatbot, AttachSource,
     ReadSelection,
     AppendSelection, Begin, dbVars, RowsFall
<1>3. CASE DeleteChatbot(r) \/ DeleteAvatar(r) \/ WipePrefixes(r) \/ BeginImage(r) \/ StoreImage(r)
           \/ CommitImage(r) \/ DeleteImage(r) \/ RequestDies(r)
  BY <1>3 DEF DeleteChatbot, DeleteAvatar, WipePrefixes, BeginImage, StoreImage, CommitImage,
     DeleteImage,
     RequestDies, Begin, dbVars, RowsFall
<1>4. CASE DropFiles(r)
  <2>1. home' = home
    BY <1>4 DEF DropFiles
  <2>2. \/ row' = row
        \/ row' = [f \in Files |-> IF f \in Gone(request[r]) THEN "deleted" ELSE row[f]]
    BY <1>4, DropFilesShape
  <2> QED
    BY <2>1, <2>2 DEF RowsFall, Gone, RowsUnder
<1>5. CASE DeleteKb(r)
  BY <1>5 DEF DeleteKb, RowsFall, RowsUnder
<1> QED
  BY <1>1, <1>2, <1>3, <1>4, <1>5 DEF RequestStep

LEMMA CleanupFalls ==
  ASSUME PlanCleanup \/ ApplyCleanup \/ DeleteOrphanObjects \/ UNCHANGED vars
  PROVE  RowsFall /\ request' = request
  BY DEF PlanCleanup, ApplyCleanup, DeleteOrphanObjects, vars, dbVars, RowsFall, RowsUnder

LEMMA GoesOnStep ==
  ASSUME ShapeOK, NEW r \in Requests, RequestStep(r), ~ AddRow(r), ~ StoreFileFails(r), ~ MarkUploaded(r)
  PROVE  UploadGoesOn(r)
<1> DEFINE q == request[r]
           s == request'[r]
<1>1. CASE BeginCreate(r) \/ BeginUpdate(r) \/ BeginImage(r) \/ DeleteChatbot(r)
  <2>1. /\ Others(r) /\ q = Idle /\ s.todo \subseteq FreshFiles
        /\ s.at \notin {"store", "mark"}
    BY <1>1, BeginCreateShape, BeginUpdateShape, BeginImageShape, DeleteChatbotShape
  <2> QED
    BY <2>1, IdleFields DEF UploadGoesOn, Uploads
<1>2. ASSUME \/ Ended(r)
             \/ /\ Others(r) /\ s.todo \subseteq q.todo
                /\ q.at \notin {"store", "mark"} /\ s.at \notin {"store", "mark"}
      PROVE  UploadGoesOn(r)
  BY <1>2, EndedGoesOn DEF UploadGoesOn, Uploads
<1>3. CASE CreateMoodleSource(r) \/ CreateFileSource(r) \/ CreateKb(r) \/ LinkMoodle(r) \/ LinkFiles(r)
           \/ CreateChatbot(r) \/ SkipFile(r) \/ Uploaded(r)
  <2>1. \/ Ended(r)
        \/ /\ Others(r) /\ s.todo \subseteq q.todo
           /\ q.at \notin {"store", "mark"} /\ s.at \notin {"store", "mark"}
    BY <1>3, CreateMoodleSourceShape, CreateFileSourceShape, CreateKbShape, LinkMoodleShape,
       LinkFilesShape,
       CreateChatbotShape, SkipFileShape, UploadedShape DEF Proceeds, SameFiles
  <2> QED
    BY <1>2, <2>1
<1>4. CASE ReadLinks(r) \/ DropFiles(r) \/ ReapFiles(r) \/ FindLink(r) \/ CheckChatbot(r) \/ AttachSource(r)
           \/ ReadSelection(r) \/ AppendSelection(r)
  <2>1. \/ Ended(r)
        \/ /\ Others(r) /\ s.todo \subseteq q.todo
           /\ q.at \notin {"store", "mark"} /\ s.at \notin {"store", "mark"}
    BY <1>4, ReadLinksShape, DropFilesShape, ReapFilesShape, FindLinkShape, CheckChatbotShape,
       AttachSourceShape, ReadSelectionShape, AppendSelectionShape DEF Proceeds, SameFiles
  <2> QED
    BY <1>2, <2>1
<1>5. CASE DeleteAvatar(r) \/ WipePrefixes(r) \/ DeleteKb(r) \/ StoreImage(r) \/ CommitImage(r)
           \/ DeleteImage(r) \/ RequestDies(r)
  <2>1. \/ Ended(r)
        \/ /\ Others(r) /\ s.todo \subseteq q.todo
           /\ q.at \notin {"store", "mark"} /\ s.at \notin {"store", "mark"}
    BY <1>5, DeleteAvatarShape, WipePrefixesShape, DeleteKbShape, StoreImageShape,
       CommitImageShape,
       DeleteImageShape, RequestDiesShape DEF Proceeds, SameFiles
  <2> QED
    BY <1>2, <2>1
<1>6. CASE StoreFile(r)
  <2>1. Others(r) /\ SameFiles(q, s) /\ SameSources(q, s) /\ q.at = "store" /\ s.at = "mark"
    BY <1>6, StoreFileShape DEF Proceeds
  <2> QED
    BY <2>1 DEF UploadGoesOn, Uploads, SameFiles, SameSources
<1> QED
  BY <1>1, <1>3, <1>4, <1>5, <1>6 DEF RequestStep

LEMMA UploadsStep == ServedInv /\ [Next]_vars => UploadsOK'
<1> SUFFICES ASSUME ServedInv, [Next]_vars PROVE UploadsOK'
  OBVIOUS
<1>1. ShapeOK /\ ShapeOK' /\ TablesOK /\ UploadsOK /\ \A p \in Requests : RequestOK(request[p])
  BY StepShape, ShapeTables DEF ServedInv, ShapeOK
<1>2. ASSUME NEW r \in Requests, AddRow(r) PROVE UploadsOK'
  <2> DEFINE q == request[r]
             s == request'[r]
  <2>1. PICK f \in q.todo : /\ row' = [row EXCEPT ![f] = "uploading"]
                            /\ home' = [home EXCEPT ![f] = q.ds]
                            /\ Becomes(r, [at |-> "store", now |-> f])
    BY <1>2 DEF AddRow
  <2>2. Others(r) /\ s = Updated(q, [at |-> "store", now |-> f])
    BY <1>1, <2>1, BecomesStep
  <2>3. DOMAIN q = DOMAIN Idle /\ q.at = "upload" /\ q.ds \in Datasources /\ f \in Files
    BY <1>1, <1>2 DEF RequestOK, AddRow, HasSource
  <2>4. s.at = "store" /\ s.now = f /\ s.todo = q.todo /\ s.ds = q.ds
    BY <2>2, <2>3 DEF Updated, Idle
  <2>5. /\ \A p \in Requests \ {r} : request'[p] = request[p] /\ f \notin request[p].todo
        /\ \A p \in Requests : Uploads(request[p]) => request[p].now \in request[p].todo
        /\ \A g \in q.todo : row[g] = "absent"
        /\ \A p \in Requests : request[p].todo \subseteq Files
    BY <1>1, <2>1, <2>2, <2>3 DEF UploadsOK, Others, RequestOK, Uploads
  <2> HIDE DEF q, s
  <2>6. \A g \in Files : /\ row'[g] = IF g = f THEN "uploading" ELSE row[g]
                         /\ home'[g] = IF g = f THEN q.ds ELSE home[g]
    BY <1>1, <2>1 DEF TablesOK
  <2>7. ASSUME NEW p \in Requests, NEW g \in request'[p].todo
        PROVE  row'[g] = "absent" \/ (Uploads(request'[p]) /\ g = request'[p].now)
    BY <1>1, <2>3, <2>4, <2>5, <2>6, <2>7 DEF UploadsOK, Uploads, q, s
  <2>8. ASSUME NEW p \in Requests, Uploads(request'[p])
        PROVE  /\ home'[request'[p].now] = request'[p].ds
               /\ row'[request'[p].now] \in {"uploading", "deleted"}
    BY <1>1, <2>3, <2>4, <2>5, <2>6, <2>8 DEF UploadsOK, q, s
  <2>9. \A p, t \in Requests : p # t => request'[p].todo \intersect request'[t].todo = {}
    BY <1>1, <2>4, <2>5 DEF UploadsOK, q, s
  <2>10. \A g \in Files : row'[g] # "absent" => home'[g] \in Datasources
    BY <1>1, <2>3, <2>6 DEF UploadsOK
  <2> QED
    BY <2>7, <2>8, <2>9, <2>10 DEF UploadsOK
<1>3. ASSUME NEW r \in Requests, StoreFileFails(r) \/ MarkUploaded(r) PROVE UploadsOK'
  <2> DEFINE q == request[r]
             s == request'[r]
  <2>1. /\ Uploads(q) /\ Others(r) /\ s.todo \subseteq q.todo \ {q.now} /\ ~ Uploads(s)
    BY <1>1, <1>3, StoreFileFailsShape, MarkUploadedShape, IdleFields
       DEF Ended, Proceeds, Uploads
  <2>2. q.now \in q.todo /\ q.now \in Files
    BY <1>1, <2>1 DEF RequestOK
  <2>3. home' = home /\ \A g \in Files \ {q.now} : row'[g] = row[g]
    BY <1>1, <1>3 DEF StoreFileFails, MarkUploaded, TablesOK
  <2>4. row[q.now] # "absent"
    BY <1>1, <2>1 DEF UploadsOK
  <2>5. /\ \A p \in Requests \ {r} : request'[p] = request[p] /\ q.now \notin request[p].todo
        /\ \A p \in Requests : Uploads(request[p]) => request[p].now \in request[p].todo
        /\ \A g \in q.todo \ {q.now} : row[g] = "absent"
        /\ \A p \in Requests : request[p].todo \subseteq Files
    BY <1>1, <2>1, <2>2 DEF UploadsOK, Others, RequestOK
  <2> HIDE DEF q, s
  <2>6. ASSUME NEW p \in Requests, NEW g \in request'[p].todo
        PROVE  row'[g] = "absent" \/ (Uploads(request'[p]) /\ g = request'[p].now)
    BY <1>1, <2>1, <2>3, <2>5, <2>6 DEF UploadsOK, q, s
  <2>7. ASSUME NEW p \in Requests, Uploads(request'[p])
        PROVE  /\ home'[request'[p].now] = request'[p].ds
               /\ row'[request'[p].now] \in {"uploading", "deleted"}
    BY <1>1, <2>1, <2>3, <2>5, <2>7 DEF UploadsOK, q, s
  <2>8. \A p, t \in Requests : p # t => request'[p].todo \intersect request'[t].todo = {}
    BY <1>1, <2>1, <2>5 DEF UploadsOK, q, s
  <2>9. \A g \in Files : row'[g] # "absent" => home'[g] \in Datasources
    BY <1>1, <2>2, <2>3, <2>4 DEF UploadsOK
  <2> QED
    BY <2>6, <2>7, <2>8, <2>9 DEF UploadsOK
<1>4. ASSUME NEW r \in Requests, RequestStep(r) PROVE UploadsOK'
  BY <1>1, <1>2, <1>3, <1>4, UploadsFrame, RowsFallStep, GoesOnStep
<1>5. CASE PlanCleanup \/ ApplyCleanup \/ DeleteOrphanObjects \/ UNCHANGED vars
  <2>1. RowsFall /\ request' = request
    BY <1>5, CleanupFalls
  <2>2. \A p \in Requests : Uploads(request[p]) => request[p].now \in Files
    BY <1>1 DEF RequestOK
  <2>3. \A p \in Requests : request[p].todo \subseteq Files
    BY <1>1 DEF RequestOK
  <2> QED
    BY <1>1, <2>1, <2>2, <2>3 DEF UploadsOK, RowsFall, HasRow
<1> QED
  BY <1>4, <1>5 DEF Next

\* The links that a request changes select files that stay under their datasource, and
\* what the request retains is still so.
LEMMA KeptFrame ==
  ASSUME ServedInv, ShapeOK', Stable, NEW r \in Requests, Others(r), cleanup' = cleanup,
         \A d \in Datasources : \A f \in Selected(d)' : f \in Selected(d) \/ StaysKept(f, d),
         Retains(request[r])'
  PROVE  KeptOK'
<1>1. /\ KeptOK /\ TablesOK /\ CleanupOK
      /\ \A p \in Requests : RequestOK(request[p])
  BY ShapeTables DEF ServedInv, ShapeOK
<1>2. \A d \in Datasources : Selected(d) \subseteq Files
  BY <1>1 DEF Selected, TablesOK
<1>3. \A d \in Datasources : \A f \in Selected(d)' : StaysKept(f, d)
  BY <1>1, <1>2, KeptStays DEF KeptOK
<1>4. ASSUME NEW p \in Requests \ {r} PROVE Retains(request[p])'
  <2> DEFINE q == request[p]
  <2>1. request'[p] = q
    BY DEF Others
  <2>2. RequestOK(q) /\ Retains(q)
    BY <1>1 DEF KeptOK
  <2>3. \A f \in q.stored : StaysKept(f, q.ds)
    BY <2>2, KeptStays DEF Retains, RequestOK
  <2>4. q.at = "append" => \A f \in q.seen : StaysKept(f, q.ds)
    BY <2>2, KeptStays DEF Retains, RequestOK
  <2>5. q.at = "drop" => \A d \in DOMAIN q.seen : \A f \in q.seen[d] : StaysKept(f, d)
    BY <2>2, KeptStays DEF Retains, RequestOK
  <2>6. q.at = "reap" => \A f \in q.drop : row'[f] = "deleted"
    BY <2>2 DEF Retains, RequestOK, Stable
  <2>7. q.at \in {"wipe", "delete-kb"} => \A d \in q.drop : link'[d] # None \/ Dead(d)'
    BY <2>2, DeadStays DEF Retains, RequestOK, Stable
  <2> HIDE DEF q
  <2> QED
    BY <2>1, <2>3, <2>4, <2>5, <2>6, <2>7 DEF Retains, Kept, StaysKept, Dead, HasRow
<1>5. \A p \in Requests : Retains(request[p])'
  BY <1>4
<1>6. cleanup.at = "planned" =>
         /\ \A f \in cleanup.files : row'[f] # "absent"
         /\ \A d \in cleanup.sources : source'[d] # "absent"
  BY <1>1 DEF KeptOK, CleanupOK, Stable
<1>7. cleanup.at = "objects" =>
         /\ \A f \in cleanup.files : row'[f] = "deleted"
         /\ \A d \in cleanup.sources : Dead(d)'
  BY <1>1, DeadStays DEF KeptOK, CleanupOK, Stable
<1> QED
  BY <1>3, <1>5, <1>6, <1>7 DEF KeptOK, Kept, StaysKept

LEMMA EndedRetains ==
  ASSUME NEW r \in Requests, Ended(r)
  PROVE  Retains(request[r])'
  BY IdleFields DEF Ended, Retains

\* A request that reads nothing retains what it had.
LEMMA RetainsOn ==
  ASSUME ServedInv, Stable, NEW r \in Requests,
         request'[r].stored = request[r].stored,
         request'[r].ds = request[r].ds \/ request'[r].stored = {},
         request'[r].at \notin {"append", "drop", "reap", "wipe", "delete-kb"}
  PROVE  Retains(request[r])'
<1>1. Retains(request[r]) /\ RequestOK(request[r])
  BY DEF ServedInv, KeptOK, ShapeOK
<1>2. \A f \in request'[r].stored : StaysKept(f, request'[r].ds)
  BY <1>1, KeptStays DEF Retains, RequestOK
<1> QED
  BY <1>2 DEF Retains, Kept, StaysKept

LEMMA KeptStep == ServedInv /\ [Next]_vars => KeptOK'
<1> SUFFICES ASSUME ServedInv, [Next]_vars PROVE KeptOK'
  OBVIOUS
<1>1. ShapeOK /\ ShapeOK' /\ TablesOK /\ KeptOK /\ UploadsOK /\ ClaimsOK /\ Stable
      /\ \A p \in Requests : RequestOK(request[p])
  BY StepShape, ShapeTables, StableStep DEF ServedInv, ShapeOK
<1>2. ASSUME NEW r \in Requests, RequestStep(r) PROVE KeptOK'
  <2> DEFINE q == request[r]
             s == request'[r]
  <2>1. ASSUME UNCHANGED <<link, cleanup>>, Others(r),
               s.stored = q.stored, s.ds = q.ds \/ s.stored = {},
               s.at \notin {"append", "drop", "reap", "wipe", "delete-kb"}
        PROVE  KeptOK'
    BY <1>1, <2>1, RetainsOn, KeptFrame DEF Selected
  <2>2. ASSUME UNCHANGED <<link, cleanup>>, Ended(r)
        PROVE  KeptOK'
    BY <1>1, <2>2, EndedRetains, KeptFrame DEF Selected, Ended
  <2>3. CASE BeginCreate(r) \/ BeginUpdate(r) \/ BeginImage(r) \/ DeleteChatbot(r)
    <3>1. UNCHANGED <<link, cleanup>>
      BY <2>3 DEF BeginCreate, BeginUpdate, BeginImage, DeleteChatbot, Begin, dbVars
    <3>2. /\ Others(r) /\ s.stored = {} /\ q.stored = {}
          /\ s.at \notin {"append", "drop", "reap", "wipe", "delete-kb"}
      BY <1>1, <2>3, BeginCreateShape, BeginUpdateShape, BeginImageShape, DeleteChatbotShape,
         IdleFields
    <3> QED
      BY <2>1, <3>1, <3>2
  <2>4. CASE CreateMoodleSource(r) \/ CreateFileSource(r) \/ CreateKb(r) \/ CreateChatbot(r)
             \/ SkipFile(r) \/ AddRow(r) \/ StoreFile(r) \/ StoreFileFails(r) \/ Uploaded(r)
    <3>1. UNCHANGED <<link, cleanup>>
      BY <2>4 DEF CreateMoodleSource, CreateFileSource, CreateKb, CreateChatbot, SkipFile,
         AddRow,
         StoreFile, StoreFileFails, Uploaded, dbVars
    <3>2. q.at = "datasource" => q.stored = {}
      BY <1>1 DEF RequestOK, NoFileYet
    <3>3. \/ Ended(r)
          \/ /\ Others(r) /\ s.stored = q.stored /\ (s.ds = q.ds \/ s.stored = {})
             /\ s.at \notin {"append", "drop", "reap", "wipe", "delete-kb"}
      BY <1>1, <2>4, <3>2, CreateMoodleSourceShape, CreateFileSourceShape, CreateKbShape,
         CreateChatbotShape, SkipFileShape, AddRowShape, StoreFileShape, StoreFileFailsShape,
         UploadedShape DEF Proceeds, SameFiles, SameSources
    <3> QED
      BY <2>1, <2>2, <3>1, <3>3
  <2>5. CASE ReapFiles(r) \/ FindLink(r) \/ CheckChatbot(r) \/ StoreImage(r) \/ CommitImage(r)
             \/ DeleteImage(r) \/ RequestDies(r)
    <3>1. UNCHANGED <<link, cleanup>>
      BY <2>5 DEF ReapFiles, FindLink, CheckChatbot, StoreImage, CommitImage, DeleteImage,
         RequestDies, dbVars
    <3>2. q.at = "find-link" => q.stored = {}
      BY <1>1 DEF RequestOK, NoFileYet
    <3>3. \/ Ended(r)
          \/ /\ Others(r) /\ s.stored = q.stored /\ (s.ds = q.ds \/ s.stored = {})
             /\ s.at \notin {"append", "drop", "reap", "wipe", "delete-kb"}
      BY <1>1, <2>5, <3>2, ReapFilesShape, FindLinkShape, CheckChatbotShape, StoreImageShape,
         CommitImageShape, DeleteImageShape, RequestDiesShape
         DEF Proceeds, SameFiles, SameSources
    <3> QED
      BY <2>1, <2>2, <3>1, <3>3
  <2>6. CASE MarkUploaded(r)
    <3>1. UNCHANGED <<link, cleanup, home>>
      BY <2>6 DEF MarkUploaded
    <3>2. CASE Ended(r)
      BY <2>2, <3>1, <3>2
    <3>3. CASE ~ Ended(r)
      <4>1. /\ Others(r) /\ s.ds = q.ds /\ s.stored = q.stored \union {q.now} /\ s.at = "upload"
            /\ Uploads(q)
        BY <1>1, <2>6, <3>3, MarkUploadedShape DEF Proceeds, SameSources, Uploads
      <4>2. HasRow(q.now)
        BY <1>1, <2>6, <3>3, EndsStep DEF MarkUploaded, Ended
      <4>3. q.now \in Files /\ home[q.now] = q.ds
        BY <1>1, <4>1 DEF UploadsOK, RequestOK
      <4>4. row'[q.now] = "uploaded"
        BY <1>1, <2>6, <4>2, <4>3 DEF MarkUploaded, TablesOK
      <4>5. \A f \in q.stored : StaysKept(f, q.ds)
        BY <1>1, KeptStays DEF KeptOK, Retains, RequestOK
      <4>6. StaysKept(q.now, q.ds)
        BY <3>1, <4>3, <4>4 DEF Kept, StaysKept
      <4>7. Retains(request[r])'
        BY <4>1, <4>5, <4>6 DEF Retains, Kept, StaysKept
      <4> QED
        BY <1>1, <3>1, <4>1, <4>7, KeptFrame DEF Selected
    <3> QED
      BY <3>2, <3>3
  <2>7. CASE ReadLinks(r)
    <3>1. UNCHANGED <<link, cleanup, row, home>>
      BY <2>7 DEF ReadLinks, dbVars
    <3>2. CASE Ended(r)
      BY <2>2, <3>1, <3>2
    <3>3. CASE ~ Ended(r)
      <4>1. /\ Others(r) /\ s.stored = q.stored /\ q.at = "read-links" /\ s.at = "drop"
            /\ s.seen = [d \in LinksOf(q.bot) |-> Selected(d)]
        BY <1>1, <2>7, <3>3, ReadLinksShape DEF Proceeds, SameFiles
      <4>2. s.stored = {}
        BY <1>1, <4>1 DEF RequestOK, NoFileYet
      <4>3. \A d \in DOMAIN s.seen : \A f \in s.seen[d] : StaysKept(f, d)
        BY <1>1, <3>1, <4>1 DEF KeptOK, LinksOf, Kept, StaysKept
      <4> HIDE DEF s
      <4>4. Retains(request[r])'
        BY <4>1, <4>2, <4>3 DEF Retains, Kept, StaysKept, s
      <4> QED
        BY <1>1, <3>1, <4>1, <4>4, KeptFrame DEF Selected
    <3> QED
      BY <3>2, <3>3
  <2>8. CASE ReadSelection(r)
    <3>1. UNCHANGED <<link, cleanup, row, home>>
      BY <2>8 DEF ReadSelection, dbVars
    <3>2. CASE Ended(r)
      BY <2>2, <3>1, <3>2
    <3>3. CASE ~ Ended(r)
      <4>1. /\ Others(r) /\ s.stored = q.stored /\ s.ds = q.ds /\ q.at = "read-selection"
            /\ s.at = "append" /\ s.seen = Selected(q.ds)
        BY <1>1, <2>8, <3>3, ReadSelectionShape DEF Proceeds, SameFiles, SameSources
      <4>2. q.ds \in Datasources
        BY <1>1, <4>1 DEF RequestOK, HasSource
      <4>3. \A f \in s.seen : StaysKept(f, s.ds)
        BY <1>1, <3>1, <4>1, <4>2 DEF KeptOK, Kept, StaysKept
      <4>4. \A f \in s.stored : StaysKept(f, s.ds)
        BY <1>1, <3>1, <4>1 DEF KeptOK, Retains, Kept, StaysKept
      <4> HIDE DEF s
      <4>5. Retains(request[r])'
        BY <4>1, <4>3, <4>4 DEF Retains, Kept, StaysKept, s
      <4> QED
        BY <1>1, <3>1, <4>1, <4>5, KeptFrame DEF Selected
    <3> QED
      BY <3>2, <3>3
  <2>9. CASE DeleteAvatar(r) \/ WipePrefixes(r)
    <3>1. UNCHANGED <<link, cleanup, row, home, source>>
      BY <2>9 DEF DeleteAvatar, WipePrefixes, dbVars
    <3>2. /\ Others(r) /\ s.stored = q.stored /\ s.ds = q.ds /\ s.at \in {"wipe", "delete-kb"}
          /\ s.drop = LinksOf(q.bot) \/ (q.at = "wipe" /\ s.drop = q.drop)
      BY <1>1, <2>9, DeleteAvatarShape, WipePrefixesShape
         DEF Proceeds, SameFiles, SameSources, SameReads
    <3>3. \A f \in s.stored : StaysKept(f, s.ds)
      BY <1>1, <3>1, <3>2 DEF KeptOK, Retains, Kept, StaysKept
    <3>4. \A d \in s.drop : link'[d] # None \/ Dead(d)'
      BY <1>1, <3>1, <3>2 DEF KeptOK, Retains, Dead, HasRow, LinksOf
    <3> HIDE DEF s
    <3>5. Retains(request[r])'
      BY <3>2, <3>3, <3>4 DEF Retains, Kept, StaysKept, Dead, HasRow, s
    <3> QED
      BY <1>1, <3>1, <3>2, <3>5, KeptFrame DEF Selected
  <2>10. CASE LinkMoodle(r) \/ LinkFiles(r) \/ AttachSource(r)
    <3>1. UNCHANGED <<cleanup, row, home>>
      BY <2>10 DEF LinkMoodle, LinkFiles, AttachSource
    <3>2. /\ Others(r) /\ s.stored = q.stored /\ s.ds = q.ds /\ q # Idle
          /\ s.at \notin {"append", "drop", "reap", "wipe", "delete-kb"}
      BY <1>1, <2>10, LinkMoodleShape, LinkFilesShape, AttachSourceShape, IdleFields
         DEF Proceeds, SameFiles, SameSources
    <3>3. q.bot \in Chatbots /\ q.ds \in Datasources \union {None} /\ q.moodle \in Datasources \union {None}
      BY <1>1, <3>2 DEF RequestOK
    <3>4. \/ link' = link
          \/ \E e \in {q.moodle, q.ds} : link' = Linked(e, q.bot, {})
          \/ link' = Linked(q.ds, q.bot, q.stored)
      BY <2>10 DEF LinkMoodle, LinkFiles, AttachSource
    <3>5. ASSUME NEW e \in {q.moodle, q.ds}, NEW selection, link' = Linked(e, q.bot, selection),
                 NEW d \in Datasources, NEW f \in Selected(d)'
          PROVE  f \in Selected(d) \/ (e = d /\ f \in selection)
      <4>1. \/ link'[d] = link[d]
            \/ e = d /\ link'[d] = [kb |-> q.bot, selection |-> selection]
        BY <1>1, <3>3, <3>5, LinkedStep
      <4> QED
        BY <3>5, <4>1 DEF Selected
    <3>6. \A f \in q.stored : StaysKept(f, q.ds)
      BY <1>1, KeptStays DEF KeptOK, Retains, RequestOK
    <3>7. ASSUME NEW d \in Datasources, NEW f \in Selected(d)'
          PROVE  f \in Selected(d) \/ StaysKept(f, d)
      BY <3>4, <3>5, <3>6, <3>7 DEF Selected
    <3>8. Retains(request[r])'
      BY <1>1, <3>2, RetainsOn
    <3> QED
      BY <1>1, <3>1, <3>2, <3>7, <3>8, KeptFrame
  <2>11. CASE DropFiles(r)
    <3>1. cleanup' = cleanup
      BY <2>11 DEF DropFiles
    <3>2. CASE Ended(r) /\ UNCHANGED <<source, link, row, spills>>
      BY <2>2, <3>1, <3>2
    <3>3. CASE ~ (Ended(r) /\ UNCHANGED <<source, link, row, spills>>)
      <4>1. /\ Others(r) /\ SameSources(q, s) /\ SameFiles(q, s) /\ q.at = "drop"
            /\ s.at = "reap" /\ s.drop = Gone(q)
            /\ \A d \in Touched(q) : link[d] # None
            /\ link' = [d \in Datasources |->
                          IF d \in Emptied(q) THEN None
                          ELSE IF d \in Touched(q)
                               THEN [link[d] EXCEPT !.selection = q.seen[d] \ q.drop]
                               ELSE link[d]]
            /\ row' = [f \in Files |-> IF f \in Gone(q) THEN "deleted" ELSE row[f]]
        BY <1>1, <2>11, <3>3, DropFilesShape DEF Proceeds
      <4>2. Gone(q) \subseteq Files
        BY <1>1, <4>1 DEF Gone, RowsUnder, RequestOK
      <4>3. s.stored = {} 
        BY <1>1, <4>1 DEF RequestOK, NoFileYet, SameFiles
      <4>4. ASSUME NEW d \in Datasources, NEW f \in Selected(d)'
            PROVE  f \in Selected(d) \/ StaysKept(f, d)
        <5>1. CASE d \in Touched(q) /\ d \notin Emptied(q)
          <6>1. d \in DOMAIN q.seen /\ link[d] \in [kb : kb, selection : SUBSET Files]
            BY <1>1, <4>1, <5>1 DEF Touched, TablesOK
          <6>2. link'[d] = [link[d] EXCEPT !.selection = q.seen[d] \ q.drop]
            BY <4>1, <5>1
          <6>3. link'[d].selection = q.seen[d] \ q.drop
            BY <6>1, <6>2
          <6>4. f \in q.seen[d]
            BY <4>4, <6>3 DEF Selected
          <6>5. Kept(f, d) /\ f \in Files
            BY <1>1, <4>1, <6>1, <6>4 DEF KeptOK, Retains, RequestOK
          <6> QED
            BY <1>1, <6>5, KeptStays
        <5>2. CASE ~ (d \in Touched(q) /\ d \notin Emptied(q))
          BY <4>1, <4>4, <5>2 DEF Selected
        <5> QED
          BY <5>1, <5>2
      <4>5. Retains(request[r])'
        BY <4>1, <4>2, <4>3 DEF Retains
      <4> QED
        BY <1>1, <3>1, <4>1, <4>4, <4>5, KeptFrame
    <3> QED
      BY <3>2, <3>3
  <2>12. CASE AppendSelection(r)
    <3>1. cleanup' = cleanup /\ Ended(r) /\ q.at = "append"
      BY <1>1, <2>12, AppendSelectionShape DEF AppendSelection
    <3>2. CASE link[q.ds] = None
      BY <2>2, <2>12, <3>1, <3>2 DEF AppendSelection
    <3>3. CASE link[q.ds] # None
      <4>1. q.ds \in Datasources
        BY <1>1, <3>1 DEF RequestOK, HasSource
      <4>2. link[q.ds] \in [kb : kb, selection : SUBSET Files]
        BY <1>1, <3>3, <4>1 DEF TablesOK
      <4>3. link' = [link EXCEPT ![q.ds] = [@ EXCEPT !.selection = q.seen \union q.stored]]
        BY <2>12, <3>3 DEF AppendSelection
      <4>4. \A f \in q.seen \union q.stored : StaysKept(f, q.ds)
        BY <1>1, <3>1, KeptStays DEF KeptOK, Retains, RequestOK
      <4>5. ASSUME NEW d \in Datasources, NEW f \in Selected(d)'
            PROVE  f \in Selected(d) \/ StaysKept(f, d)
        <5>1. d # q.ds => link'[d] = link[d]
          BY <1>1, <4>1, <4>3 DEF TablesOK
        <5>2. link'[q.ds].selection = q.seen \union q.stored
          BY <1>1, <4>1, <4>2, <4>3 DEF TablesOK
        <5> QED
          BY <4>4, <4>5, <5>1, <5>2 DEF Selected
      <4> QED
        BY <1>1, <3>1, <4>5, EndedRetains, KeptFrame DEF Ended
    <3> QED
      BY <3>2, <3>3
  <2>13. CASE DeleteKb(r)
    <3>1. cleanup' = cleanup /\ Ended(r)
      BY <1>1, <2>13, DeleteKbShape DEF DeleteKb
    <3>2. ASSUME NEW d \in Datasources, NEW f \in Selected(d)' PROVE f \in Selected(d)
      BY <2>13, <3>2 DEF DeleteKb, Selected
    <3> QED
      BY <1>1, <3>1, <3>2, EndedRetains, KeptFrame DEF Ended
  <2> QED
    BY <1>2, <2>3, <2>4, <2>5, <2>6, <2>7, <2>8, <2>9, <2>10, <2>11, <2>12, <2>13
       DEF RequestStep
<1>3. ASSUME UNCHANGED <<link, request>>,
             \/ cleanup' = cleanup
             \/ cleanup' = NoRun
             \/ /\ cleanup'.at = "planned" /\ UNCHANGED <<row, source>>
                /\ cleanup'.files = Unselected /\ cleanup'.sources = Unlinked
             \/ /\ cleanup' = [cleanup EXCEPT !.at = "objects"]
                /\ \A f \in cleanup.files : row'[f] = "deleted"
                /\ \A d \in cleanup.sources : Dead(d)'
      PROVE  KeptOK'
  <2>1. \A d \in Datasources : \A f \in Selected(d)' : StaysKept(f, d)
    <3>1. \A d \in Datasources : Selected(d)' = Selected(d) /\ Selected(d) \subseteq Files
      BY <1>1, <1>3 DEF Selected, TablesOK
    <3> QED
      BY <1>1, <3>1, KeptStays DEF KeptOK
  <2>2. ASSUME NEW p \in Requests PROVE Retains(request[p])'
    <3> DEFINE q == request[p]
    <3>1. request'[p] = q
      BY <1>3
    <3>2. RequestOK(q) /\ Retains(q)
      BY <1>1 DEF KeptOK
    <3>3. \A f \in q.stored : StaysKept(f, q.ds)
      BY <1>1, <3>2, KeptStays DEF Retains, RequestOK
    <3>4. q.at = "append" => \A f \in q.seen : StaysKept(f, q.ds)
      BY <1>1, <3>2, KeptStays DEF Retains, RequestOK
    <3>5. q.at = "drop" => \A d \in DOMAIN q.seen : \A f \in q.seen[d] : StaysKept(f, d)
      BY <1>1, <3>2, KeptStays DEF Retains, RequestOK
    <3>6. q.at = "reap" => \A f \in q.drop : row'[f] = "deleted"
      BY <1>1, <3>2 DEF Retains, RequestOK, Stable
    <3>7. q.at \in {"wipe", "delete-kb"} => \A d \in q.drop : link'[d] # None \/ Dead(d)'
      BY <1>1, <3>2, DeadStays DEF Retains, RequestOK, Stable
    <3> HIDE DEF q
    <3> QED
      BY <3>1, <3>3, <3>4, <3>5, <3>6, <3>7 DEF Retains, Kept, StaysKept, Dead, HasRow
  <2>3. CleanupOK
    BY <1>1 DEF ShapeOK
  <2>4. /\ cleanup'.at = "planned" =>
             /\ \A f \in cleanup'.files : row'[f] # "absent"
             /\ \A d \in cleanup'.sources : source'[d] # "absent"
        /\ cleanup'.at = "objects" =>
             /\ \A f \in cleanup'.files : row'[f] = "deleted"
             /\ \A d \in cleanup'.sources : Dead(d)'
    <3>1. CASE cleanup' = cleanup
      BY <1>1, <2>3, <3>1, DeadStays DEF KeptOK, CleanupOK, Stable
    <3>2. CASE cleanup' = NoRun
      BY <3>2 DEF NoRun
    <3>3. CASE /\ cleanup'.at = "planned" /\ UNCHANGED <<row, source>>
               /\ cleanup'.files = Unselected /\ cleanup'.sources = Unlinked
      BY <3>3 DEF Unselected, Unlinked, HasRow, Exists
    <3>4. CASE /\ cleanup' = [cleanup EXCEPT !.at = "objects"]
               /\ \A f \in cleanup.files : row'[f] = "deleted"
               /\ \A d \in cleanup.sources : Dead(d)'
      BY <2>3, <3>4 DEF CleanupOK, NoRun
    <3> QED
      BY <1>3, <3>1, <3>2, <3>3, <3>4
  <2> QED
    BY <2>1, <2>2, <2>4 DEF KeptOK, Kept, StaysKept
<1>4. CASE PlanCleanup \/ DeleteOrphanObjects \/ UNCHANGED vars
  <2>1. UNCHANGED <<link, request, row, source>>
    BY <1>4 DEF PlanCleanup, DeleteOrphanObjects, vars, dbVars
  <2>2. \/ cleanup' \in {cleanup, NoRun}
        \/ /\ cleanup'.at = "planned"
           /\ cleanup'.files = Unselected /\ cleanup'.sources = Unlinked
    BY <1>4 DEF PlanCleanup, DeleteOrphanObjects, vars
  <2> QED
    BY <1>3, <2>1, <2>2
<1>5. CASE ApplyCleanup
  <2>1. UNCHANGED <<link, request, home>>
    BY <1>5 DEF ApplyCleanup
  <2>2. CASE cleanup' = NoRun
    BY <1>3, <2>1, <2>2
  <2>3. CASE cleanup' # NoRun
    <3>1. /\ cleanup' = [cleanup EXCEPT !.at = "objects"] /\ cleanup.at = "planned"
          /\ row' = [f \in Files |->
                       IF f \in {g \in cleanup.files : HasRow(g)} \union RowsUnder(cleanup.sources)
                       THEN "deleted" ELSE row[f]]
          /\ source' = [d \in Datasources |->
                          IF d \in cleanup.sources /\ Exists(d) THEN "deleted" ELSE source[d]]
      BY <1>5, <2>3 DEF ApplyCleanup
    <3>2. CleanupOK /\ (\A f \in cleanup.files : row[f] # "absent")
          /\ (\A d \in cleanup.sources : source[d] # "absent")
      BY <1>1, <3>1 DEF KeptOK, ShapeOK
    <3>3. \A f \in cleanup.files : row'[f] = "deleted"
      BY <1>1, <3>1, <3>2 DEF CleanupOK, TablesOK, HasRow
    <3>4. \A d \in cleanup.sources : Dead(d)'
      BY <1>1, <2>1, <3>1, <3>2 DEF CleanupOK, TablesOK, HasRow, Dead, Exists, RowsUnder
    <3> QED
      BY <1>3, <2>1, <3>1, <3>3, <3>4
  <2> QED
    BY <2>2, <2>3
<1> QED
  BY <1>2, <1>4, <1>5 DEF Next

LEMMA StoredFrame ==
  ASSUME ServedInv, Stable,
         \A f \in Files : Needed(f)' => Needed(f) \/ f \in objects',
         \A f \in Files : f \in objects /\ f \notin objects' => ~ HasRow(f) \/ Doomed(home[f])
  PROVE  StoredOK'
<1>1. TablesOK /\ UploadsOK /\ StoredOK
  BY ShapeTables DEF ServedInv
<1>2. ASSUME NEW f \in Files, Needed(f)', f \notin objects' PROVE Doomed(home[f])'
  <2>1. HasRow(f) /\ row[f] # "absent" /\ HasRow(f)'
    BY <1>2 DEF Needed, HasRow
  <2>2. Doomed(home[f])
    BY <1>1, <1>2, <2>1 DEF StoredOK
  <2>3. home'[f] = home[f] /\ home[f] \in Datasources
    BY <1>1, <2>1 DEF UploadsOK, Stable
  <2>4. ASSUME NEW d \in Datasources, d = home[f] PROVE Doomed(d)'
    BY <1>1, <2>1, <2>2, <2>3, <2>4, DoomedStays DEF Dead
  <2> QED
    BY <2>3, <2>4 DEF Doomed
<1> QED
  BY <1>2 DEF StoredOK, Doomed

\* A file counts as stored from the step that stores it.
LEMMA MarkedByStore ==
  ASSUME ShapeOK, NEW r \in Requests, RequestStep(r), ~ StoreFile(r)
  PROVE  Others(r) /\ request'[r].at # "mark"
<1>1. CASE BeginCreate(r) \/ BeginUpdate(r) \/ BeginImage(r) \/ DeleteChatbot(r)
  BY <1>1, BeginCreateShape, BeginUpdateShape, BeginImageShape, DeleteChatbotShape
<1>2. CASE CreateMoodleSource(r) \/ CreateFileSource(r) \/ CreateKb(r) \/ LinkMoodle(r) \/ LinkFiles(r)
           \/ CreateChatbot(r) \/ SkipFile(r) \/ Uploaded(r) \/ AddRow(r) \/ StoreFileFails(r) \/ MarkUploaded(r)
  BY <1>2, CreateMoodleSourceShape, CreateFileSourceShape, CreateKbShape, LinkMoodleShape,
     LinkFilesShape,
     CreateChatbotShape, SkipFileShape, UploadedShape, AddRowShape, StoreFileFailsShape,
     MarkUploadedShape,
     IdleFields DEF Proceeds, Ended
<1>3. CASE ReadLinks(r) \/ DropFiles(r) \/ ReapFiles(r) \/ FindLink(r) \/ CheckChatbot(r) \/ AttachSource(r)
           \/ ReadSelection(r) \/ AppendSelection(r)
  BY <1>3, ReadLinksShape, DropFilesShape, ReapFilesShape, FindLinkShape, CheckChatbotShape,
     AttachSourceShape, ReadSelectionShape, AppendSelectionShape, IdleFields DEF Proceeds, Ended
<1>4. CASE DeleteAvatar(r) \/ WipePrefixes(r) \/ DeleteKb(r) \/ StoreImage(r) \/ CommitImage(r)
           \/ DeleteImage(r) \/ RequestDies(r)
  BY <1>4, DeleteAvatarShape, WipePrefixesShape, DeleteKbShape, StoreImageShape,
     CommitImageShape,
     DeleteImageShape, RequestDiesShape, IdleFields DEF Proceeds, Ended
<1> QED
  BY <1>1, <1>2, <1>3, <1>4 DEF RequestStep

\* What a request step takes from the bucket.
LEMMA TakenAway ==
  ASSUME ShapeOK, NEW r \in Requests, RequestStep(r)
  PROVE  \/ objects \subseteq objects'
         \/ ReapFiles(r) /\ objects' = objects \ request[r].drop
         \/ (DeleteAvatar(r) \/ DeleteImage(r)) /\ objects' = objects \ {request[r].old}
         \/ WipePrefixes(r) /\ objects' = objects \ StoredUnder(request[r].drop)
<1>1. CASE BeginCreate(r) \/ CreateMoodleSource(r) \/ CreateFileSource(r) \/ CreateKb(r) \/ LinkMoodle(r)
           \/ LinkFiles(r) \/ CreateChatbot(r) \/ SkipFile(r) \/ StoreFile(r) \/ Uploaded(r)
           \/ AddRow(r) \/ StoreFileFails(r) \/ MarkUploaded(r)
  BY <1>1 DEF BeginCreate, CreateMoodleSource, CreateFileSource, CreateKb, LinkMoodle,
     LinkFiles,
     CreateChatbot, SkipFile, StoreFile, Uploaded, AddRow, StoreFileFails, MarkUploaded, Begin
<1>2. CASE BeginUpdate(r) \/ ReadLinks(r) \/ DropFiles(r) \/ FindLink(r) \/ CheckChatbot(r)
           \/ AttachSource(r) \/ ReadSelection(r) \/ AppendSelection(r)
  BY <1>2 DEF BeginUpdate, ReadLinks, DropFiles, FindLink, CheckChatbot, AttachSource,
     ReadSelection,
     AppendSelection, Begin
<1>3. CASE DeleteChatbot(r) \/ BeginImage(r) \/ StoreImage(r) \/ CommitImage(r) \/ RequestDies(r) \/ DeleteKb(r)
  BY <1>3 DEF DeleteChatbot, BeginImage, StoreImage, CommitImage, RequestDies, DeleteKb, Begin
<1>4. CASE ReapFiles(r) \/ DeleteAvatar(r) \/ DeleteImage(r) \/ WipePrefixes(r)
  BY <1>4 DEF ReapFiles, DeleteAvatar, DeleteImage, WipePrefixes
<1> QED
  BY <1>1, <1>2, <1>3, <1>4 DEF RequestStep

LEMMA StoredStep == ServedInv /\ [Next]_vars => StoredOK'
<1> SUFFICES ASSUME ServedInv, [Next]_vars PROVE StoredOK'
  OBVIOUS
<1>1. ShapeOK /\ TablesOK /\ BotsOK /\ ClaimsOK /\ UploadsOK /\ KeptOK /\ Stable
      /\ \A p \in Requests : RequestOK(request[p])
  BY ShapeTables, StableStep DEF ServedInv, ShapeOK
<1>2. ASSUME NEW r \in Requests, RequestStep(r) PROVE StoredOK'
  <2> DEFINE q == request[r]
             s == request'[r]
  <2>1. ASSUME NEW f \in Files, Needed(f)' PROVE Needed(f) \/ f \in objects'
    <3>1. CASE StoreFile(r)
      <4>1. row' = row /\ objects' = objects \union {q.now} /\ Others(r) /\ s.now = q.now
        BY <1>1, <3>1, StoreFileShape DEF StoreFile, dbVars, Proceeds, SameFiles
      <4> QED
        BY <2>1, <4>1 DEF Needed, Others, HasRow
    <3>2. CASE ~ StoreFile(r)
      <4>1. Others(r) /\ s.at # "mark"
        BY <1>1, <1>2, <3>2, MarkedByStore
      <4>2. ASSUME row'[f] = row[f] \/ ~ HasRow(f)' PROVE Needed(f)
        BY <2>1, <4>1, <4>2 DEF Needed, Others, HasRow
      <4>3. CASE AddRow(r)
        <5>1. PICK g \in q.todo : row' = [row EXCEPT ![g] = "uploading"]
          BY <4>3 DEF AddRow
        <5>2. row[g] = "absent" /\ g \in Files
          BY <1>1, <4>3 DEF UploadsOK, AddRow, Uploads, RequestOK
        <5>3. \A p \in Requests : request[p].at = "mark" => request[p].now # g
          <6>1. \A p \in Requests \ {r} : request[p].todo \intersect q.todo = {}
            BY <1>1 DEF UploadsOK
          <6>2. \A p \in Requests : request[p].at = "mark" => request[p].now \in request[p].todo
            BY <1>1 DEF RequestOK, Uploads
          <6> QED
            BY <4>3, <5>1, <6>1, <6>2 DEF AddRow
        <5>4. CASE f = g
          BY <1>1, <2>1, <4>1, <5>1, <5>2, <5>3, <5>4 DEF Needed, Others, TablesOK
        <5>5. CASE f # g
          BY <1>1, <4>2, <5>1, <5>5 DEF TablesOK
        <5> QED
          BY <5>4, <5>5
      <4>4. CASE StoreFileFails(r)
        <5>1. CASE f = q.now
          <6>1. row'[f] # "uploaded"
            BY <1>1, <4>4, <5>1 DEF StoreFileFails, TablesOK, HasRow
          <6>2. \A p \in Requests \ {r} : request[p].at = "mark" => request[p].now # f
            BY <1>1, <4>4, <5>1 DEF UploadsOK, RequestOK, Uploads, StoreFileFails
          <6> QED
            BY <2>1, <4>1, <6>1, <6>2 DEF Needed, Others
        <5>2. CASE f # q.now
          BY <1>1, <4>2, <4>4, <5>2 DEF StoreFileFails, TablesOK
        <5> QED
          BY <5>1, <5>2
      <4>5. CASE MarkUploaded(r)
        <5>1. CASE f = q.now /\ HasRow(f)
          BY <4>5, <5>1 DEF Needed, MarkUploaded
        <5>2. CASE ~ (f = q.now /\ HasRow(f))
          BY <1>1, <4>2, <4>5, <5>2 DEF MarkUploaded, TablesOK
        <5> QED
          BY <5>1, <5>2
      <4>6. CASE RowsFall
        BY <4>2, <4>6 DEF RowsFall, HasRow
      <4> QED
        BY <1>1, <1>2, <4>3, <4>4, <4>5, <4>6, RowsFallStep
    <3> QED
      BY <3>1, <3>2
  <2>2. ASSUME NEW f \in Files, f \in objects, f \notin objects'
        PROVE  ~ HasRow(f) \/ Doomed(home[f])
    <3>1. CASE ReapFiles(r) /\ objects' = objects \ q.drop
      BY <1>1, <2>2, <3>1 DEF ReapFiles, KeptOK, Retains, HasRow
    <3>2. CASE (DeleteAvatar(r) \/ DeleteImage(r)) /\ objects' = objects \ {q.old}
      BY <1>1, <2>2, <3>2, NoneIsNothing, FilesAreNotImages DEF RequestOK
    <3>3. CASE WipePrefixes(r) /\ objects' = objects \ StoredUnder(q.drop)
      <4>1. Deletes(q) /\ q.at = "wipe"
        BY <1>1, <3>3, WipePrefixesShape
      <4>2. home[f] \in q.drop /\ q.drop \subseteq Datasources
        BY <1>1, <2>2, <3>3, <4>1 DEF StoredUnder, RequestOK
      <4>3. ASSUME NEW d \in Datasources, d = home[f] PROVE ~ HasRow(f) \/ Doomed(d)
        <5>1. link[d] # None \/ Dead(d)
          BY <1>1, <4>1, <4>2, <4>3 DEF KeptOK, Retains
        <5>2. CASE link[d] # None
          <6>1. Holds(q, d) /\ q # Idle
            BY <4>1, <4>2, <4>3, IdleFields DEF Holds
          <6>2. link[d].kb = q.bot
            BY <1>1, <5>2, <6>1, HeldIsClaimed, LinkIsClaim DEF ClaimsOK
          <6>3. chatbot[q.bot] = "deleted"
            BY <1>1, <4>1 DEF BotsOK
          <6> QED
            BY <5>2, <6>2, <6>3 DEF Doomed
        <5>3. CASE Dead(d)
          BY <4>3, <5>3 DEF Dead
        <5> QED
          BY <5>1, <5>2, <5>3
      <4> QED
        BY <4>2, <4>3
    <3> QED
      BY <1>1, <1>2, <2>2, <3>1, <3>2, <3>3, TakenAway
  <2> QED
    BY <1>1, <2>1, <2>2, StoredFrame
<1>3. CASE PlanCleanup \/ ApplyCleanup \/ DeleteOrphanObjects \/ UNCHANGED vars
  <2>1. RowsFall /\ request' = request
    BY <1>3, CleanupFalls
  <2>2. \A f \in Files : Needed(f)' => Needed(f)
    BY <2>1 DEF RowsFall, Needed, HasRow
  <2>3. ASSUME NEW f \in Files, f \in objects, f \notin objects'
        PROVE  ~ HasRow(f)
    <3>1. /\ cleanup.at = "objects" 
          /\ objects' = objects \ (cleanup.files \union StoredUnder(cleanup.sources))
      BY <1>3, <2>3 DEF PlanCleanup, ApplyCleanup, DeleteOrphanObjects, vars
    <3>2. CleanupOK
      BY <1>1 DEF ShapeOK
    <3> QED
      BY <1>1, <2>3, <3>1, <3>2 DEF KeptOK, StoredUnder, Dead, HasRow
  <2> QED
    BY <1>1, <2>2, <2>3, StoredFrame
<1> QED
  BY <1>2, <1>3 DEF Next

-----------------------------------------------------------------------------
(* Images, step by step.                                                   *)

\* Steps that commit no image and begin nothing.
LEMMA ImagesFrame ==
  ASSUME ServedInv, ShapeOK', image' = image, NEW r \in Requests, Others(r),
         LET q == request[r]  s == request'[r] IN
            \/ s = Idle
            \/ /\ Fixed(q, s)
               /\ s.at \in {"store-image", "delete-image"} => q.at = s.at
               /\ s.at = "commit-image" => q.at = "commit-image" \/ (q.at = "store-image" /\ q.new \in objects'),
         \A c \in Chatbots : /\ chatbot'[c] = "live" => chatbot[c] \in {"live", "absent"}
                             /\ chatbot'[c] = "absent" => chatbot[c] = "absent",
         \A o \in Images : o \in objects /\ o \notin objects' =>
            /\ \A c \in Chatbots, k \in Kinds : chatbot[c] = "live" => image[c][k] # o
            /\ \A p \in Requests : Brings(request[p]) => request[p].new # o
  PROVE  ImagesOK'
<1>1. /\ ImagesOK /\ TablesOK /\ \A p \in Requests : RequestOK(request[p])
  BY ShapeTables DEF ServedInv, ShapeOK
<1>2. ASSUME NEW p \in Requests
      PROVE  /\ request'[p].old \in {request[p].old, None}
             /\ request'[p].new \in {request[p].new, None}
             /\ Brings(request'[p]) => /\ Brings(request[p]) /\ request'[p].new = request[p].new
                                       /\ \/ request'[p].at = request[p].at
                                          \/ request'[p].new \in objects'
             /\ request'[p].old # None => /\ request'[p].old = request[p].old
                                          /\ request'[p].bot = request[p].bot
                                          /\ request'[p].kind = request[p].kind
                                          /\ request'[p].at = "delete-image" => request[p].at = "delete-image"
             /\ request'[p].at = "store-image" =>
                   request[p].at = "store-image" /\ request'[p].new = request[p].new
             /\ request'[p].at = "commit-image" => request[p].at \in {"store-image", "commit-image"}
  <2>1. CASE p # r
    BY <2>1 DEF Others, Brings
  <2>2. CASE p = r
    BY <2>2, IdleFields DEF Fixed, Brings
  <2> QED
    BY <2>1, <2>2
<1>3. \A p \in Requests : OldOK(request[p])'
  BY <1>1, <1>2 DEF ImagesOK, OldOK
<1>4. ASSUME NEW p \in Requests PROVE NewOK(p)'
  <2> DEFINE q == request[p]
             s == request'[p]
  <2>1. NewOK(p) /\ q.new \in Images \union {None}
    BY <1>1 DEF ImagesOK, RequestOK
  <2>2. s.at = "store-image" => s.new # None
    BY <1>2, <2>1 DEF NewOK
  <2>3. ASSUME Brings(s)
        PROVE  /\ \A c \in Chatbots, k \in Kinds : image'[c][k] # s.new
               /\ \A t \in Requests : request'[t].old # s.new
               /\ \A t \in Requests \ {p} : request'[t].new # s.new
               /\ s.at = "commit-image" => s.new \in objects'
    <3>1. Brings(q) /\ s.new = q.new /\ s.new # None /\ (s.at = q.at \/ s.new \in objects')
      BY <1>2, <2>3 DEF Brings
    <3>2. \A t \in Requests : request'[t].old # s.new
      BY <1>2, <2>1, <3>1 DEF NewOK
    <3>3. \A t \in Requests \ {p} : request'[t].new # s.new
      BY <1>2, <2>1, <3>1 DEF NewOK
    <3>4. s.at = "commit-image" => s.new \in objects'
      BY <2>1, <3>1 DEF NewOK
    <3> QED
      BY <2>1, <3>1, <3>2, <3>3, <3>4 DEF NewOK
  <2> QED
    BY <2>2, <2>3 DEF NewOK, Brings
<1>5. ASSUME NEW c \in Chatbots, NEW k \in Kinds
      PROVE  /\ chatbot'[c] = "absent" => image'[c][k] = None
             /\ chatbot'[c] = "live" /\ image'[c][k] # None => image'[c][k] \in objects'
  <2>1. image[c][k] \in Images \union {None}
    BY <1>1 DEF TablesOK
  <2> QED
    BY <1>1, <2>1 DEF ImagesOK
<1> QED
  BY <1>1, <1>3, <1>4, <1>5 DEF ImagesOK

LEMMA ImagesStep == ServedInv /\ [Next]_vars => ImagesOK'
<1> SUFFICES ASSUME ServedInv, [Next]_vars PROVE ImagesOK'
  OBVIOUS
<1>1. ShapeOK /\ ShapeOK' /\ TablesOK /\ BotsOK /\ ImagesOK
      /\ \A p \in Requests : RequestOK(request[p])
  BY StepShape, ShapeTables DEF ServedInv, ShapeOK
<1>2. ASSUME NEW r \in Requests, RequestStep(r) PROVE ImagesOK'
  <2> DEFINE q == request[r]
             s == request'[r]
  \* What is taken from the bucket is no image that counts.
  <2>1. ASSUME NEW o \in Images, o \in objects, o \notin objects'
        PROVE  /\ \A c \in Chatbots, k \in Kinds : chatbot[c] = "live" => image[c][k] # o
               /\ \A p \in Requests : Brings(request[p]) => request[p].new # o
    <3>1. o \notin Files
      BY FilesAreNotImages
    <3>2. ~ ReapFiles(r)
      <4>1. ASSUME ReapFiles(r) PROVE q.drop \subseteq Files
        BY <1>1, <4>1 DEF ReapFiles, RequestOK
      <4> QED
        BY <2>1, <3>1, <4>1 DEF ReapFiles
    <3>3. ~ WipePrefixes(r)
      BY <2>1, <3>1 DEF WipePrefixes, StoredUnder
    <3>4. o = q.old /\ (DeleteAvatar(r) \/ DeleteImage(r))
      BY <1>1, <1>2, <2>1, <3>2, <3>3, TakenAway
    <3>5. o # None
      BY NoneIsNothing
    <3>6. \A p \in Requests : Brings(request[p]) => request[p].new # o
      BY <1>1, <3>4 DEF ImagesOK, NewOK
    <3>7. ASSUME NEW c \in Chatbots, NEW k \in Kinds, chatbot[c] = "live", image[c][k] = o
          PROVE  FALSE
      <4>1. c = q.bot /\ q.at # "delete-image"
        BY <1>1, <3>4, <3>5, <3>7 DEF ImagesOK, OldOK
      <4>2. DeleteAvatar(r)
        BY <3>4, <4>1 DEF DeleteImage
      <4>3. chatbot[q.bot] = "deleted"
        BY <1>1, <4>2, DeleteAvatarShape DEF BotsOK
      <4> QED
        BY <3>7, <4>1, <4>3
    <3> QED
      BY <3>6, <3>7
  <2>2. ASSUME UNCHANGED <<chatbot, image>>,
               \/ Ended(r)
               \/ Proceeds(r) /\ s.at \notin {"store-image", "delete-image", "commit-image"}
        PROVE  ImagesOK'
    BY <1>1, <2>1, <2>2, ImagesFrame DEF Ended, Proceeds
  <2>3. CASE CreateMoodleSource(r) \/ CreateFileSource(r) \/ CreateKb(r) \/ LinkMoodle(r) \/ LinkFiles(r)
             \/ SkipFile(r) \/ Uploaded(r) \/ AddRow(r) \/ StoreFile(r) \/ StoreFileFails(r) \/ MarkUploaded(r)
    <3>1. UNCHANGED <<chatbot, image>>
      BY <2>3 DEF CreateMoodleSource, CreateFileSource, CreateKb, LinkMoodle, LinkFiles,
         SkipFile, Uploaded,
         AddRow, StoreFile, StoreFileFails, MarkUploaded, dbVars
    <3>2. \/ Ended(r)
          \/ Proceeds(r) /\ s.at \notin {"store-image", "delete-image", "commit-image"}
      BY <1>1, <2>3, CreateMoodleSourceShape, CreateFileSourceShape, CreateKbShape,
         LinkMoodleShape,
         LinkFilesShape, SkipFileShape, UploadedShape, AddRowShape, StoreFileShape,
         StoreFileFailsShape,
         MarkUploadedShape
    <3> QED
      BY <2>2, <3>1, <3>2
  <2>4. CASE ReadLinks(r) \/ DropFiles(r) \/ ReapFiles(r) \/ FindLink(r) \/ CheckChatbot(r) \/ AttachSource(r)
             \/ ReadSelection(r) \/ AppendSelection(r)
    <3>1. UNCHANGED <<chatbot, image>>
      BY <2>4 DEF ReadLinks, DropFiles, ReapFiles, FindLink, CheckChatbot, AttachSource,
         ReadSelection,
         AppendSelection, dbVars
    <3>2. \/ Ended(r)
          \/ Proceeds(r) /\ s.at \notin {"store-image", "delete-image", "commit-image"}
      BY <1>1, <2>4, ReadLinksShape, DropFilesShape, ReapFilesShape, FindLinkShape,
         CheckChatbotShape,
         AttachSourceShape, ReadSelectionShape, AppendSelectionShape
    <3> QED
      BY <2>2, <3>1, <3>2
  <2>5. CASE DeleteAvatar(r) \/ WipePrefixes(r) \/ DeleteKb(r) \/ DeleteImage(r) \/ RequestDies(r)
    <3>1. UNCHANGED <<chatbot, image>>
      BY <2>5 DEF DeleteAvatar, WipePrefixes, DeleteKb, DeleteImage, RequestDies, dbVars
    <3>2. \/ Ended(r)
          \/ Proceeds(r) /\ s.at \notin {"store-image", "delete-image", "commit-image"}
      BY <1>1, <2>5, DeleteAvatarShape, WipePrefixesShape, DeleteKbShape, DeleteImageShape,
         RequestDiesShape
    <3> QED
      BY <2>2, <3>1, <3>2
  <2>6. CASE CreateChatbot(r)
    <3>1. image' = image /\ Ended(r) /\ chatbot[q.bot] = "absent"
          /\ chatbot' = [chatbot EXCEPT ![q.bot] = "live"]
      BY <1>1, <2>6, CreateChatbotShape DEF CreateChatbot, BotsOK
    <3>2. \A c \in Chatbots : /\ chatbot'[c] = "live" => chatbot[c] \in {"live", "absent"}
                              /\ chatbot'[c] = "absent" => chatbot[c] = "absent"
      BY <1>1, <3>1 DEF TablesOK
    <3> QED
      BY <1>1, <2>1, <3>1, <3>2, ImagesFrame DEF Ended
  <2>7. CASE BeginCreate(r) \/ BeginUpdate(r)
    <3>1. UNCHANGED <<chatbot, image, objects>>
      BY <2>7 DEF BeginCreate, BeginUpdate, Begin, dbVars
    <3>2. /\ Others(r) /\ q = Idle /\ s.new = None /\ s.old = None
          /\ s.at \notin {"store-image", "delete-image", "commit-image"}
      BY <1>1, <2>7, BeginCreateShape, BeginUpdateShape
    <3>3. \A p \in Requests : OldOK(request[p])'
      BY <1>1, <3>1, <3>2 DEF ImagesOK, OldOK, Others
    <3>4. \A p \in Requests : NewOK(p)'
      BY <1>1, <3>1, <3>2 DEF ImagesOK, NewOK, Brings, Others
    <3> QED
      BY <1>1, <3>1, <3>3, <3>4 DEF ImagesOK
  <2>8. CASE StoreImage(r)
    <3>1. UNCHANGED <<chatbot, image>>
      BY <2>8 DEF StoreImage, dbVars
    <3>2. CASE Ended(r)
      BY <2>2, <3>1, <3>2
    <3>3. CASE ~ Ended(r)
      <4>1. Proceeds(r) /\ q.at = "store-image" /\ s.at = "commit-image"
        BY <1>1, <2>8, <3>3, StoreImageShape
      <4>2. q.new \in objects'
        BY <1>1, <2>8, <3>3, EndsStep DEF StoreImage, Ended
      <4> QED
        BY <1>1, <2>1, <3>1, <4>1, <4>2, ImagesFrame DEF Proceeds
    <3> QED
      BY <3>2, <3>3
  <2>9. CASE BeginImage(r)
    <3>1. UNCHANGED <<chatbot, image, objects>>
      BY <2>9 DEF BeginImage, Begin, dbVars
    <3>2. /\ Others(r) /\ q = Idle /\ s.at = (IF s.new = None THEN "commit-image" ELSE "store-image")
          /\ s.new \in FreshImages \union {None} /\ s.old = image[s.bot][s.kind]
          /\ s.bot \in Chatbots /\ s.kind \in Kinds
      BY <1>1, <2>9, BeginImageShape, IdleFields DEF ShapeOK, RequestOK, Replaces
    <3>3. s.new # None =>
             /\ \A c \in Chatbots, k \in Kinds : image[c][k] # s.new
             /\ \A p \in Requests : request[p].old # s.new /\ request[p].new # s.new
      BY <3>2 DEF FreshImages, Taken
    <3> HIDE DEF q, s
    <3>4. OldOK(request[r])'
      BY <1>1, <3>1, <3>2 DEF ImagesOK, OldOK, s
    <3>5. \A p \in Requests \ {r} : OldOK(request[p])'
      BY <1>1, <3>1, <3>2 DEF ImagesOK, OldOK, Others
    <3>6. NewOK(r)'
      BY <3>1, <3>2, <3>3 DEF NewOK, Brings, Others, s
    <3>7. ASSUME NEW p \in Requests \ {r} PROVE NewOK(p)'
      <4>1. NewOK(p) /\ request'[p] = request[p]
        BY <1>1, <3>2 DEF ImagesOK, Others
      <4>2. Brings(request[p]) => s.old # request[p].new
        BY <3>2, <4>1 DEF NewOK
      <4>3. Brings(request[p]) => s.new # request[p].new
        BY <3>3 DEF Brings
      <4> QED
        BY <3>1, <3>2, <4>1, <4>2, <4>3 DEF NewOK, Brings, Others, s
    <3> QED
      BY <1>1, <3>1, <3>4, <3>5, <3>6, <3>7 DEF ImagesOK
  <2>10. CASE DeleteChatbot(r)
    <3>1. UNCHANGED <<image, objects>>
      BY <2>10 DEF DeleteChatbot
    <3>2. /\ Others(r) /\ q = Idle /\ s.at = "avatar" /\ s.new = None /\ s.old = image[s.bot]["avatar"]
          /\ s.bot \in Chatbots /\ s.kind = "avatar" /\ chatbot[s.bot] = "live"
          /\ chatbot' = [chatbot EXCEPT ![s.bot] = "deleted"]
      BY <1>1, <2>10, DeleteChatbotShape, IdleFields DEF ShapeOK, RequestOK, Deletes
    <3>3. "avatar" \in Kinds
      BY DEF Kinds
    <3>4. \A c \in Chatbots : chatbot'[c] \in {"live", "absent"} => chatbot'[c] = chatbot[c]
      BY <1>1, <3>2 DEF TablesOK
    <3> HIDE DEF q, s
    <3>5. OldOK(request[r])'
      BY <1>1, <3>1, <3>2, <3>3 DEF ImagesOK, OldOK, s
    <3>6. \A p \in Requests \ {r} : OldOK(request[p])'
      BY <1>1, <3>1, <3>2 DEF ImagesOK, OldOK, Others
    <3>7. NewOK(r)'
      BY <3>2 DEF NewOK, Brings, s
    <3>8. ASSUME NEW p \in Requests \ {r} PROVE NewOK(p)'
      <4>1. NewOK(p) /\ request'[p] = request[p]
        BY <1>1, <3>2 DEF ImagesOK, Others
      <4>2. Brings(request[p]) => s.old # request[p].new
        BY <3>2, <3>3, <4>1 DEF NewOK
      <4> QED
        BY <3>1, <3>2, <4>1, <4>2 DEF NewOK, Brings, Others, s
    <3> QED
      BY <1>1, <3>1, <3>4, <3>5, <3>6, <3>7, <3>8 DEF ImagesOK
  <2>11. CASE CommitImage(r)
    <3>1. UNCHANGED <<chatbot, objects>>
      BY <2>11 DEF CommitImage
    <3>2. CASE Ended(r) /\ image' = image
      BY <2>2, <3>1, <3>2
    <3>3. CASE ~ (Ended(r) /\ image' = image)
      <4>1. chatbot[q.bot] = "live"
        BY <1>1, <2>11, <3>3, EndsStep DEF CommitImage, Ended
      <4>2. /\ Becomes(r, [at |-> "delete-image"])
            /\ image' = IF q.new = q.old THEN image ELSE [image EXCEPT ![q.bot][q.kind] = q.new]
        BY <2>11, <4>1 DEF CommitImage
      <4>3. /\ Others(r) /\ q.at = "commit-image" /\ q.bot \in Chatbots /\ q.kind \in Kinds
            /\ q.new \in Images \union {None}
        BY <1>1, <2>11, CommitImageShape, IdleFields DEF Ended, Proceeds, RequestOK, CommitImage
      <4>4. Fixed(q, s) /\ s.at = "delete-image"
        <5>1. s = Updated(q, [at |-> "delete-image"])
          BY <1>1, <4>2, BecomesStep
        <5> QED
          BY <1>1, <5>1, ToStage DEF RequestOK
      <4>5. NewOK(r) /\ OldOK(q) /\ (q.new # None => Brings(q) /\ q.new # q.old)
        BY <1>1, <4>3 DEF ImagesOK, NewOK, Brings
      <4> HIDE DEF q, s
      <4>6. \A c \in Chatbots, k \in Kinds :
               image'[c][k] = IF c = q.bot /\ k = q.kind THEN (IF q.new = q.old THEN image[c][k] ELSE q.new)
                              ELSE image[c][k]
        BY <1>1, <4>2, <4>3 DEF TablesOK
      <4>7. \A c \in Chatbots, k \in Kinds :
               image'[c][k] # None => image'[c][k] = image[c][k] \/ (c = q.bot /\ k = q.kind /\ image'[c][k] = q.new)
        BY <4>6
      <4>8. \A b, c \in Chatbots, j, k \in Kinds :
               image'[b][j] # None /\ image'[b][j] = image'[c][k] => b = c /\ j = k
        BY <1>1, <4>5, <4>7 DEF ImagesOK, NewOK, q
      <4>9. \A c \in Chatbots, k \in Kinds :
               /\ chatbot'[c] = "absent" => image'[c][k] = None
               /\ chatbot'[c] = "live" /\ image'[c][k] # None => image'[c][k] \in objects'
        BY <1>1, <3>1, <4>1, <4>3, <4>5, <4>6, <4>7 DEF ImagesOK, NewOK, q
      <4>10. OldOK(request[r])'
        BY <4>3, <4>4, <4>5, <4>6 DEF OldOK, Fixed, s
      <4>11. ASSUME NEW p \in Requests \ {r} PROVE OldOK(request[p])' /\ NewOK(p)'
        <5>1. request'[p] = request[p] /\ OldOK(request[p]) /\ NewOK(p)
          BY <1>1, <4>3 DEF ImagesOK, Others
        <5>2. q.new # None => request[p].old # q.new
          BY <4>5 DEF NewOK, q
        <5>3. OldOK(request[p])'
          BY <4>7, <5>1, <5>2 DEF OldOK
        <5>4. /\ s.old = q.old /\ s.new = q.new
              /\ \A t \in Requests \ {r} : request'[t] = request[t]
          BY <4>3, <4>4 DEF Fixed, Others
        <5>5. Brings(request[p]) => request[p].new # q.new /\ request[p].new # q.old
          BY <5>1 DEF NewOK, q
        <5>6. Brings(request[p]) => \A c \in Chatbots, k \in Kinds : image'[c][k] # request[p].new
          BY <4>7, <5>1, <5>5 DEF NewOK, Brings
        <5> QED
          BY <3>1, <5>1, <5>3, <5>4, <5>5, <5>6 DEF NewOK, Brings, q, s
      <4>12. NewOK(r)'
        BY <4>4 DEF NewOK, Brings, s
      <4> QED
        BY <4>8, <4>9, <4>10, <4>11, <4>12 DEF ImagesOK
    <3> QED
      BY <3>2, <3>3
  <2> QED
    BY <1>2, <2>3, <2>4, <2>5, <2>6, <2>7, <2>8, <2>9, <2>10, <2>11 DEF RequestStep
<1>3. CASE PlanCleanup \/ ApplyCleanup \/ DeleteOrphanObjects \/ UNCHANGED vars
  <2>1. UNCHANGED <<request, chatbot, image>>
    BY <1>3 DEF PlanCleanup, ApplyCleanup, DeleteOrphanObjects, vars, dbVars
  <2>2. \A o \in Images : o \in objects => o \in objects'
    BY <1>1, <1>3, FilesAreNotImages DEF PlanCleanup, ApplyCleanup, DeleteOrphanObjects, vars,
       ShapeOK,
       CleanupOK, StoredUnder
  <2>3. \A c \in Chatbots, k \in Kinds : image[c][k] \in Images \union {None}
    BY <1>1 DEF TablesOK
  <2>4. \A p \in Requests : request[p].new \in Images \union {None}
    BY <1>1 DEF RequestOK
  <2>5. \A p \in Requests : OldOK(request[p])'
    BY <1>1, <2>1 DEF ImagesOK, OldOK
  <2>6. \A p \in Requests : NewOK(p)'
    BY <1>1, <2>1, <2>2, <2>4 DEF ImagesOK, NewOK, Brings
  <2> QED
    BY <1>1, <2>1, <2>2, <2>3, <2>5, <2>6 DEF ImagesOK
<1> QED
  BY <1>2, <1>3 DEF Next

-----------------------------------------------------------------------------
(* What a live chatbot serves.                                             *)

LEMMA ServedInit == Init => ServedInv
<1> SUFFICES ASSUME Init PROVE ServedInv
  OBVIOUS
<1>1. /\ DOMAIN request = Requests
      /\ \A r \in Requests : request[r] = Idle /\ RequestOK(request[r])
  BY IdleOK DEF Init
<1>2. ShapeOK
  <2>1. TypeOK
    BY <1>1, IdleFields DEF Init, TypeOK, Leftovers
  <2>2. CleanupOK
    BY DEF Init, CleanupOK, NoRun
  <2> QED
    BY <1>1, <2>1, <2>2 DEF Init, ShapeOK
<1>3. ~ (Creates(Idle) \/ Updates(Idle) \/ Deletes(Idle) \/ Replaces(Idle)) /\ ~ Uploads(Idle)
  BY IdleFields DEF Creates, Updates, Deletes, Replaces, Uploads
<1>4. BotsOK
  BY <1>1, <1>3 DEF BotsOK
<1>5. ClaimsOK
  <2>1. \A d \in Datasources : Claims(d) = {}
    BY <1>1, IdleFields, NoneIsNothing DEF Init, Claims
  <2> QED
    BY <2>1 DEF ClaimsOK
<1>6. UploadsOK
  BY <1>1, <1>3, IdleFields DEF Init, UploadsOK
<1>7. KeptOK
  BY <1>1, IdleFields DEF Init, KeptOK, Selected, Retains, NoRun
<1>8. StoredOK
  BY DEF Init, StoredOK, Needed, HasRow
<1>9. ImagesOK
  BY <1>1, IdleFields DEF Init, ImagesOK, OldOK, NewOK, Brings
<1> QED
  BY <1>2, <1>4, <1>5, <1>6, <1>7, <1>8, <1>9 DEF ServedInv

LEMMA ServedStep == ServedInv /\ [Next]_vars => ServedInv'
  BY StepShape, BotsStep, ClaimsStep, UploadsStep, KeptStep, StoredStep, ImagesStep
     DEF ServedInv

LEMMA ServedSafe == ServedInv => ServedObjectsExist
<1> SUFFICES ASSUME ServedInv, NEW c \in Chatbots, chatbot[c] = "live",
                    NEW o \in Listed(c) \union Shown(c)
             PROVE  o \in objects
  BY DEF ServedObjectsExist
<1>1. CASE o \in Listed(c)
  <2>1. PICK d \in LinksOf(c) : o \in Selected(d) /\ HasRow(o)
    BY <1>1 DEF Listed
  <2>2. d \in Datasources /\ link[d] # None /\ link[d].kb = c
    BY DEF LinksOf
  <2>3. Kept(o, d) /\ o \in Files
    BY <2>1, <2>2, ShapeTables DEF ServedInv, KeptOK, Selected, TablesOK
  <2>4. Needed(o) /\ home[o] = d
    BY <2>1, <2>3 DEF Kept, Needed, HasRow
  <2> QED
    BY <2>2, <2>3, <2>4 DEF ServedInv, StoredOK, Doomed
<1>2. CASE o \in Shown(c)
  BY <1>2 DEF Shown, ServedInv, ImagesOK
<1> QED
  BY <1>1, <1>2

\* Rows, links, selections and requests only refer to things of the right kind, in any
\* interleaving of requests, failures and cleanups.
THEOREM TypeCorrect == Spec => []TypeOK
<1>1. Init => ShapeOK
  BY ServedInit DEF ServedInv
<1>2. ShapeOK => TypeOK
  BY DEF ShapeOK
<1> QED
  BY <1>1, <1>2, StepShape, PTL DEF Spec

\* Everything a live chatbot lists or shows can be fetched from the bucket: no upload that
\* fails, no file taken off a selection that another request still holds, no replaced
\* image and no cleanup deletes an object that a live chatbot refers to.
THEOREM ServedIsStored == Spec => []ServedObjectsExist
  BY ServedInit, ServedStep, ServedSafe, PTL DEF Spec

-----------------------------------------------------------------------------
(* Selections, step by step.                                               *)

\* What a request step does to the cleanup's run and to the accounts.
LEMMA RequestBounds ==
  ASSUME ShapeOK, NEW r \in Requests, RequestStep(r)
  PROVE  /\ cleanup' = cleanup /\ spills \subseteq spills'
         /\ request[r] # Idle \/ started' = started + 1
         /\ started' \in {started, started + 1}
<1>1. Idle.at = "idle"
  BY IdleFields
<1>2. CASE BeginCreate(r) \/ BeginUpdate(r) \/ BeginImage(r) \/ DeleteChatbot(r)
  BY <1>2 DEF BeginCreate, BeginUpdate, BeginImage, DeleteChatbot, Begin, Spill
<1>3. CASE CreateMoodleSource(r) \/ CreateFileSource(r) \/ CreateKb(r) \/ LinkMoodle(r) \/ LinkFiles(r)
           \/ CreateChatbot(r) \/ SkipFile(r) \/ Uploaded(r) \/ AddRow(r) \/ StoreFile(r)
           \/ StoreFileFails(r) \/ MarkUploaded(r)
  BY <1>1, <1>3 DEF CreateMoodleSource, CreateFileSource, CreateKb, LinkMoodle, LinkFiles,
     CreateChatbot,
     SkipFile, Uploaded, AddRow, StoreFile, StoreFileFails, MarkUploaded, Spill, boundVars
<1>4. CASE ReadLinks(r) \/ DropFiles(r) \/ ReapFiles(r) \/ FindLink(r) \/ CheckChatbot(r) \/ AttachSource(r)
           \/ ReadSelection(r) \/ AppendSelection(r)
  BY <1>1, <1>4 DEF ReadLinks, DropFiles, ReapFiles, FindLink, CheckChatbot, AttachSource,
     ReadSelection,
     AppendSelection, Spill, boundVars
<1>5. CASE DeleteAvatar(r) \/ WipePrefixes(r) \/ DeleteKb(r) \/ StoreImage(r) \/ CommitImage(r)
           \/ DeleteImage(r) \/ RequestDies(r)
  BY <1>1, <1>5 DEF DeleteAvatar, WipePrefixes, DeleteKb, StoreImage, CommitImage, DeleteImage,
     RequestDies,
     Spill, boundVars
<1> QED
  BY <1>2, <1>3, <1>4, <1>5 DEF RequestStep

LEMMA PlanStep == ShapeOK /\ PlanOK /\ [Next]_vars => PlanOK'
<1> SUFFICES ASSUME ShapeOK, PlanOK, [Next]_vars PROVE PlanOK'
  OBVIOUS
<1>1. CleanupOK /\ started \in Nat
  BY DEF ShapeOK
<1>2. ASSUME NEW r \in Requests, RequestStep(r) PROVE PlanOK'
  <2>1. CASE started' = started
    <3>1. request[r] # Idle /\ cleanup' = cleanup
      BY <1>1, <1>2, <2>1, RequestBounds
    <3>2. ~ (cleanup.at = "planned" /\ cleanup.alone /\ cleanup.since = started)
      BY <3>1 DEF PlanOK, Busy
    <3> QED
      BY <2>1, <3>1, <3>2 DEF PlanOK
  <2>2. CASE started' = started + 1
    BY <1>1, <1>2, <2>2, RequestBounds DEF PlanOK, CleanupOK
  <2> QED
    BY <1>2, <2>1, <2>2, RequestBounds
<1>3. CASE PlanCleanup
  <2>1. Busy' = Busy /\ Unselected' = Unselected /\ Unlinked' = Unlinked /\ started' = started
    BY <1>3 DEF PlanCleanup, Busy, Unselected, Unlinked, AllSelected, Selected, HasRow, Exists,
       dbVars, boundVars
  <2>2. /\ cleanup'.files = Unselected /\ cleanup'.sources = Unlinked
        /\ cleanup'.alone = (Busy = {})
    BY <1>3 DEF PlanCleanup
  <2> QED
    BY <2>1, <2>2 DEF PlanOK
<1>4. CASE ApplyCleanup
  BY <1>1, <1>4 DEF ApplyCleanup, PlanOK, NoRun, CleanupOK
<1>5. CASE DeleteOrphanObjects
  BY <1>5 DEF DeleteOrphanObjects, PlanOK, NoRun
<1>6. CASE UNCHANGED vars
  BY <1>6 DEF PlanOK, Busy, Unselected, Unlinked, AllSelected, Selected, HasRow, Exists, vars,
     dbVars,
     boundVars
<1> QED
  BY <1>2, <1>3, <1>4, <1>5, <1>6 DEF Next

\* Selected files and those that a new chatbot is about to select.
LEMMA SelectionsFrame ==
  ASSUME SelectionsOK,
         "selection" \notin spills' =>
            /\ "selection" \notin spills
            /\ \A f \in AllSelected' : row'[f] = "uploaded" \/ (f \in AllSelected /\ row'[f] = row[f])
            /\ \A p \in Requests : Creates(request'[p]) =>
                  \A f \in request'[p].stored :
                     \/ row'[f] = "uploaded"
                     \/ Creates(request[p]) /\ f \in request[p].stored /\ row'[f] = row[f]
  PROVE  SelectionsOK'
  BY DEF SelectionsOK, Creates

LEMMA SelectionsQuiet ==
  ASSUME ShapeOK, SelectionsOK, NEW r \in Requests, RequestStep(r), UNCHANGED <<row, link>>,
         \/ Ended(r)
         \/ /\ Others(r)
            /\ \/ request'[r].stored = {}
               \/ Proceeds(r) /\ request'[r].stored = request[r].stored
  PROVE  SelectionsOK'
<1>1. AllSelected' = AllSelected
  BY DEF AllSelected, Selected
<1>2. spills \subseteq spills'
  BY RequestBounds
<1>3. Idle.stored = {} /\ ShapeOK'
  BY IdleFields, StepShape DEF Next
<1>4. Creates(request'[r]) =>
         request'[r].stored = {} \/ (Creates(request[r]) /\ request'[r].stored = request[r].stored)
  BY <1>3, SameOperation DEF Ended, Runs
<1>5. \A p \in Requests \ {r} : request'[p] = request[p]
  BY DEF Ended, Others
<1> QED
  BY <1>1, <1>2, <1>4, <1>5, SelectionsFrame

\* A file kept under a datasource that another request works on is not stored by a
\* request that creates a chatbot.
LEMMA CreatorApart ==
  ASSUME ServedInv, NEW r \in Requests, NEW p \in Requests, Creates(request[p]), r # p,
         request[r] # Idle, NEW f \in request[p].stored, NEW d \in Datasources, Holds(request[r], d)
  PROVE  home[f] # d
<1>1. /\ ShapeOK /\ BotsOK /\ ClaimsOK /\ KeptOK
      /\ RequestOK(request[p]) /\ RequestOK(request[r])
  BY DEF ServedInv, ShapeOK
<1>2. request[p].ds \in Datasources /\ request[p] # Idle
  BY <1>1, IdleFields DEF RequestOK
<1>3. home[f] = request[p].ds
  BY <1>1 DEF KeptOK, Retains, Kept
<1>4. Holds(request[p], request[p].ds)
  BY DEF Holds
<1>5. request[p].bot \in Claims(request[p].ds) /\ request[r].bot \in Claims(d)
  BY <1>1, <1>2, <1>4, HeldIsClaimed
<1>6. request[r].bot # request[p].bot
  BY <1>1 DEF BotsOK
<1> QED
  BY <1>1, <1>2, <1>3, <1>5, <1>6 DEF ClaimsOK

LEMMA SelectionsStep == SelectionInv /\ [Next]_vars => SelectionsOK'
<1> SUFFICES ASSUME SelectionInv, [Next]_vars PROVE SelectionsOK'
  OBVIOUS
<1>1. /\ ServedInv /\ ShapeOK /\ ShapeOK' /\ TablesOK /\ BotsOK /\ ClaimsOK /\ UploadsOK /\ KeptOK
      /\ PlanOK /\ SelectionsOK
      /\ \A p \in Requests : RequestOK(request[p])
  BY StepShape, ShapeTables DEF SelectionInv, ServedInv, ShapeOK
<1>2. ASSUME NEW r \in Requests, RequestStep(r) PROVE SelectionsOK'
  <2> DEFINE q == request[r]
             s == request'[r]
  <2>1. spills \subseteq spills'
    BY <1>1, <1>2, RequestBounds
  <2>2. CASE BeginCreate(r) \/ BeginUpdate(r) \/ BeginImage(r) \/ DeleteChatbot(r)
    <3>1. UNCHANGED <<row, link>>
      BY <2>2 DEF BeginCreate, BeginUpdate, BeginImage, DeleteChatbot, Begin, dbVars
    <3>2. Others(r) /\ s.stored = {}
      BY <1>1, <2>2, BeginCreateShape, BeginUpdateShape, BeginImageShape, DeleteChatbotShape
    <3> QED
      BY <1>1, <1>2, <3>1, <3>2, SelectionsQuiet
  <2>3. CASE CreateMoodleSource(r) \/ CreateFileSource(r) \/ CreateKb(r) \/ CreateChatbot(r) \/ SkipFile(r)
             \/ StoreFile(r) \/ Uploaded(r)
    <3>1. UNCHANGED <<row, link>>
      BY <2>3 DEF CreateMoodleSource, CreateFileSource, CreateKb, CreateChatbot, SkipFile,
         StoreFile,
         Uploaded, dbVars
    <3>2. Ended(r) \/ (Proceeds(r) /\ Others(r) /\ s.stored = q.stored)
      BY <1>1, <2>3, CreateMoodleSourceShape, CreateFileSourceShape, CreateKbShape,
         CreateChatbotShape,
         SkipFileShape, StoreFileShape, UploadedShape DEF SameFiles, Proceeds
    <3> QED
      BY <1>1, <1>2, <3>1, <3>2, SelectionsQuiet
  <2>4. CASE ReadLinks(r) \/ ReapFiles(r) \/ FindLink(r) \/ CheckChatbot(r) \/ ReadSelection(r)
    <3>1. UNCHANGED <<row, link>>
      BY <2>4 DEF ReadLinks, ReapFiles, FindLink, CheckChatbot, ReadSelection, dbVars
    <3>2. Ended(r) \/ (Proceeds(r) /\ Others(r) /\ s.stored = q.stored)
      BY <1>1, <2>4, ReadLinksShape, ReapFilesShape, FindLinkShape, CheckChatbotShape,
         ReadSelectionShape
         DEF SameFiles, Proceeds
    <3> QED
      BY <1>1, <1>2, <3>1, <3>2, SelectionsQuiet
  <2>5. CASE DeleteAvatar(r) \/ WipePrefixes(r) \/ StoreImage(r) \/ CommitImage(r) \/ DeleteImage(r)
             \/ RequestDies(r)
    <3>1. UNCHANGED <<row, link>>
      BY <2>5 DEF DeleteAvatar, WipePrefixes, StoreImage, CommitImage, DeleteImage,
         RequestDies, dbVars
    <3>2. Ended(r) \/ (Proceeds(r) /\ Others(r) /\ s.stored = q.stored)
      BY <1>1, <2>5, DeleteAvatarShape, WipePrefixesShape, StoreImageShape, CommitImageShape,
         DeleteImageShape, RequestDiesShape DEF SameFiles, Proceeds
    <3> QED
      BY <1>1, <1>2, <3>1, <3>2, SelectionsQuiet
  <2>6. CASE LinkMoodle(r) \/ LinkFiles(r) \/ AttachSource(r)
    <3>1. row' = row
      BY <2>6 DEF LinkMoodle, LinkFiles, AttachSource
    <3>2. /\ Proceeds(r) /\ Others(r) /\ s.stored = q.stored /\ q # Idle
          /\ LinkFiles(r) => Creates(q)
      BY <1>1, <2>6, LinkMoodleShape, LinkFilesShape, AttachSourceShape, IdleFields
         DEF SameFiles, Proceeds
    <3>3. q.bot \in Chatbots /\ q.ds \in Datasources \union {None} /\ q.moodle \in Datasources \union {None}
      BY <1>1, <3>2 DEF RequestOK
    <3>4. \/ link' = link
          \/ \E e \in {q.moodle, q.ds} : link' = Linked(e, q.bot, {})
          \/ LinkFiles(r) /\ link' = Linked(q.ds, q.bot, q.stored)
      BY <2>6 DEF LinkMoodle, LinkFiles, AttachSource
    <3>5. ASSUME NEW e \in {q.moodle, q.ds}, NEW selection, link' = Linked(e, q.bot, selection),
                 NEW f \in AllSelected'
          PROVE  f \in AllSelected \/ f \in selection
      <4>1. PICK d \in Datasources : f \in Selected(d)'
        BY <3>5 DEF AllSelected
      <4>2. \/ link'[d] = link[d]
            \/ e = d /\ link'[d] = [kb |-> q.bot, selection |-> selection]
        BY <1>1, <3>3, <3>5, LinkedStep
      <4> QED
        BY <4>1, <4>2 DEF Selected, AllSelected
    <3>6. \A f \in AllSelected' : f \in AllSelected \/ (LinkFiles(r) /\ f \in q.stored)
      <4>1. CASE link' = link
        BY <4>1 DEF AllSelected, Selected
      <4> QED
        BY <3>4, <3>5, <4>1
    <3>7. "selection" \notin spills' =>
             /\ "selection" \notin spills
             /\ \A f \in AllSelected' : row'[f] = "uploaded" \/ (f \in AllSelected /\ row'[f] = row[f])
      BY <1>1, <2>1, <3>1, <3>2, <3>6 DEF SelectionsOK
    <3>8. Creates(s) => Creates(q)
      BY <1>1, <3>2, SameOperation DEF Runs
    <3>9. \A p \in Requests : Creates(request'[p]) =>
             \A f \in request'[p].stored :
                Creates(request[p]) /\ f \in request[p].stored /\ row'[f] = row[f]
      BY <3>1, <3>2, <3>8 DEF Others
    <3> QED
      BY <1>1, <3>7, <3>9, SelectionsFrame
  <2>7. CASE AddRow(r) \/ StoreFileFails(r) \/ MarkUploaded(r)
    <3>1. AllSelected' = AllSelected
      BY <2>7 DEF AddRow, StoreFileFails, MarkUploaded, AllSelected, Selected
    <3>2. \A f \in Files : row[f] = "uploaded" => row'[f] = "uploaded"
      <4>1. CASE AddRow(r)
        BY <1>1, <4>1 DEF AddRow, TablesOK, UploadsOK, RequestOK, Uploads
      <4>2. CASE StoreFileFails(r)
        BY <1>1, <4>2 DEF StoreFileFails, TablesOK, UploadsOK, RequestOK, Uploads
      <4>3. CASE MarkUploaded(r)
        BY <1>1, <4>3 DEF MarkUploaded, TablesOK
      <4> QED
        BY <2>7, <4>1, <4>2, <4>3
    <3>3. AllSelected \subseteq Files /\ \A p \in Requests : request[p].stored \subseteq Files
      BY <1>1 DEF AllSelected, Selected, TablesOK, RequestOK
    <3>4. /\ Runs(r) /\ Others(r)
          /\ \A f \in s.stored : f \in q.stored \/ row'[f] = "uploaded"
      <4>1. CASE AddRow(r) \/ StoreFileFails(r)
        BY <1>1, <4>1, AddRowShape, StoreFileFailsShape, IdleFields
           DEF Runs, Ended, Proceeds, SameFiles
      <4>2. CASE MarkUploaded(r)
        <5>1. CASE Ended(r)
          BY <5>1, IdleFields DEF Runs, Ended
        <5>2. CASE ~ Ended(r)
          <6>1. HasRow(q.now)
            BY <1>1, <4>2, <5>2, EndsStep DEF MarkUploaded, Ended
          <6>2. q.now \in Files
            BY <1>1, <4>2 DEF MarkUploaded, RequestOK, Uploads
          <6>3. row'[q.now] = "uploaded"
            BY <1>1, <4>2, <6>1, <6>2 DEF MarkUploaded, TablesOK
          <6> QED
            BY <1>1, <4>2, <5>2, <6>3, MarkUploadedShape DEF Runs, Proceeds
        <5> QED
          BY <5>1, <5>2
      <4> QED
        BY <2>7, <4>1, <4>2
    <3>5. Creates(s) => Creates(q)
      BY <1>1, <3>4, SameOperation
    <3>6. "selection" \notin spills' =>
             /\ "selection" \notin spills
             /\ \A f \in AllSelected' : row'[f] = "uploaded"
      BY <1>1, <2>1, <3>1, <3>2, <3>3 DEF SelectionsOK
    <3>7. "selection" \notin spills' =>
             \A p \in Requests : Creates(request'[p]) => \A f \in request'[p].stored : row'[f] = "uploaded"
      BY <1>1, <2>1, <3>2, <3>3, <3>4, <3>5 DEF SelectionsOK, Others
    <3> QED
      BY <3>6, <3>7 DEF SelectionsOK
  <2>8. CASE DropFiles(r)
    <3>1. CASE Ended(r) /\ UNCHANGED <<source, link, row, spills>>
      BY <1>1, <1>2, <3>1, SelectionsQuiet
    <3>2. CASE ~ (Ended(r) /\ UNCHANGED <<source, link, row, spills>>)
      <4>1. /\ Proceeds(r) /\ Others(r) /\ s.stored = q.stored /\ q.at = "drop" /\ Updates(q)
            /\ \A d \in Touched(q) : link[d] # None
            /\ link' = [d \in Datasources |->
                          IF d \in Emptied(q) THEN None
                          ELSE IF d \in Touched(q)
                               THEN [link[d] EXCEPT !.selection = q.seen[d] \ q.drop]
                               ELSE link[d]]
            /\ row' = [f \in Files |-> IF f \in Gone(q) THEN "deleted" ELSE row[f]]
            /\ spills' = (IF \E d \in Touched(q) : q.seen[d] # Selected(d)
                          THEN spills \union {"selection", "row"} ELSE spills)
        BY <1>1, <2>8, <3>2, DropFilesShape DEF SameFiles, Proceeds
      <4>2. /\ Touched(q) \subseteq DOMAIN q.seen /\ Emptied(q) \subseteq Touched(q)
            /\ DOMAIN q.seen \subseteq Datasources /\ q # Idle
            /\ \A d \in DOMAIN q.seen : q.seen[d] \subseteq Files
            /\ \A d \in DOMAIN q.seen : \A f \in q.seen[d] : home[f] = d
        BY <1>1, <4>1, IdleFields DEF Touched, Emptied, RemovedSources, RequestOK, KeptOK,
           Retains, Kept
      \* A file that goes is under a datasource that the request has read.
      <4>3. \A f \in Gone(q) : home[f] \in Touched(q)
        BY <4>2 DEF Gone, RowsUnder, Touched
      <4>4. ASSUME NEW f \in AllSelected', "selection" \notin spills'
            PROVE  row'[f] = "uploaded" \/ (f \in AllSelected /\ row'[f] = row[f])
        <5>1. PICK d \in Datasources : f \in Selected(d)'
          BY <4>4 DEF AllSelected
        <5>2. d \notin Emptied(q)
          BY <4>1, <5>1 DEF Selected
        <5>3. f \in Selected(d) /\ (d \in Touched(q) => f \notin q.drop)
          <6>1. CASE d \in Touched(q)
            <7>1. link[d] \in [kb : kb, selection : SUBSET Files]
              BY <1>1, <4>1, <6>1 DEF TablesOK
            <7>2. link'[d] = [link[d] EXCEPT !.selection = q.seen[d] \ q.drop]
              BY <4>1, <5>2, <6>1
            <7>3. link'[d].selection = q.seen[d] \ q.drop
              BY <7>1, <7>2
            <7>4. q.seen[d] = Selected(d)
              BY <4>1, <4>4, <6>1
            <7> QED
              BY <5>1, <7>3, <7>4 DEF Selected
          <6>2. CASE d \notin Touched(q)
            BY <4>1, <5>1, <5>2, <6>2 DEF Selected
          <6> QED
            BY <6>1, <6>2
        <5>4. home[f] = d /\ f \in Files
          BY <1>1, <5>3 DEF KeptOK, Kept, Selected, TablesOK
        <5>5. f \notin Gone(q)
          BY <4>3, <5>2, <5>3, <5>4 DEF Gone, RowsUnder
        <5> QED
          BY <4>1, <5>3, <5>4, <5>5 DEF AllSelected
      <4>5. ASSUME NEW p \in Requests, Creates(request'[p]), NEW f \in request'[p].stored
            PROVE  Creates(request[p]) /\ f \in request[p].stored /\ row'[f] = row[f]
        <5>1. p # r
          BY <1>1, <4>1, <4>5, SameOperation DEF Runs, Creates, Updates
        <5>2. Creates(request[p]) /\ f \in request[p].stored /\ f \in Files
          BY <1>1, <4>1, <4>5, <5>1 DEF Others, RequestOK
        <5>3. \A d \in Touched(q) : home[f] # d
          BY <1>1, <4>1, <4>2, <5>1, <5>2, CreatorApart DEF Holds
        <5> QED
          BY <4>1, <4>3, <5>2, <5>3
      <4> QED
        BY <1>1, <2>1, <4>4, <4>5, SelectionsFrame
    <3> QED
      BY <3>1, <3>2
  <2>9. CASE AppendSelection(r)
    <3>1. row' = row /\ Ended(r) /\ Others(r) /\ q.at = "append"
      BY <1>1, <2>9, AppendSelectionShape DEF AppendSelection, Ended
    <3>2. CASE link[q.ds] = None
      BY <1>1, <1>2, <2>9, <3>1, <3>2, SelectionsQuiet DEF AppendSelection
    <3>3. CASE link[q.ds] # None
      <4>1. q.ds \in Datasources
        BY <1>1, <3>1 DEF RequestOK, HasSource
      <4>2. link[q.ds] \in [kb : kb, selection : SUBSET Files]
        BY <1>1, <3>3, <4>1 DEF TablesOK
      <4>3. link' = [link EXCEPT ![q.ds] = [@ EXCEPT !.selection = q.seen \union q.stored]]
        BY <2>9, <3>3 DEF AppendSelection
      <4>4. ASSUME NEW f \in AllSelected', "selection" \notin spills'
            PROVE  row'[f] = "uploaded" \/ (f \in AllSelected /\ row'[f] = row[f])
        <5>1. q.seen = Selected(q.ds) /\ q.stored \subseteq RowsUnder({q.ds})
          BY <2>9, <3>3, <4>4 DEF AppendSelection, Spill
        <5>2. PICK d \in Datasources : f \in Selected(d)'
          BY <4>4 DEF AllSelected
        <5>3. d # q.ds => link'[d] = link[d]
          BY <1>1, <4>1, <4>3 DEF TablesOK
        <5>4. link'[q.ds].selection = q.seen \union q.stored
          BY <1>1, <4>1, <4>2, <4>3 DEF TablesOK
        <5>5. f \in AllSelected \/ f \in q.stored
          BY <4>1, <5>1, <5>2, <5>3, <5>4 DEF Selected, AllSelected
        <5>6. f \in q.stored => row[f] = "uploaded"
          BY <1>1, <5>1 DEF RowsUnder, HasRow, KeptOK, Retains, Kept
        <5> QED
          BY <3>1, <5>5, <5>6
      <4>5. \A p \in Requests : Creates(request'[p]) =>
               \A f \in request'[p].stored :
                  Creates(request[p]) /\ f \in request[p].stored /\ row'[f] = row[f]
        BY <3>1, IdleFields DEF Others, Ended
      <4> QED
        BY <1>1, <2>1, <4>4, <4>5, SelectionsFrame
    <3> QED
      BY <3>2, <3>3
  <2>10. CASE DeleteKb(r)
    <3>1. Ended(r) /\ Others(r) /\ q.at = "delete-kb" /\ Deletes(q) /\ q # Idle
      BY <1>1, <2>10, DeleteKbShape, IdleFields DEF Ended
    <3>2. CASE UNCHANGED <<kb, link, source, row>>
      BY <1>1, <1>2, <3>1, <3>2, SelectionsQuiet
    <3>3. CASE ~ UNCHANGED <<kb, link, source, row>>
      <4>1. /\ link' = [d \in Datasources |-> IF d \in q.drop THEN None ELSE link[d]]
            /\ row' = [f \in Files |-> IF f \in RowsUnder(q.drop) THEN "deleted" ELSE row[f]]
        BY <2>10, <3>3 DEF DeleteKb
      <4>2. q.drop \subseteq Datasources
        BY <1>1, <3>1 DEF RequestOK
      <4>3. ASSUME NEW f \in AllSelected' PROVE f \in AllSelected /\ row'[f] = row[f]
        <5>1. PICK d \in Datasources : f \in Selected(d)'
          BY <4>3 DEF AllSelected
        <5>2. d \notin q.drop /\ f \in Selected(d)
          BY <4>1, <5>1 DEF Selected
        <5>3. home[f] = d /\ f \in Files
          BY <1>1, <5>2 DEF KeptOK, Kept, Selected, TablesOK
        <5> QED
          BY <4>1, <5>2, <5>3 DEF RowsUnder, AllSelected
      <4>4. ASSUME NEW p \in Requests, Creates(request'[p]), NEW f \in request'[p].stored
            PROVE  Creates(request[p]) /\ f \in request[p].stored /\ row'[f] = row[f]
        <5>1. p # r
          BY <3>1, <4>4, IdleFields DEF Ended, Creates
        <5>2. Creates(request[p]) /\ f \in request[p].stored /\ f \in Files
          BY <1>1, <3>1, <4>4, <5>1 DEF Others, RequestOK
        <5>3. \A d \in q.drop : home[f] # d
          BY <1>1, <3>1, <4>2, <5>1, <5>2, CreatorApart DEF Holds
        <5> QED
          BY <4>1, <5>2, <5>3 DEF RowsUnder
      <4> QED
        BY <1>1, <2>1, <4>3, <4>4, SelectionsFrame
    <3> QED
      BY <3>2, <3>3
  <2> QED
    BY <1>2, <2>2, <2>3, <2>4, <2>5, <2>6, <2>7, <2>8, <2>9, <2>10 DEF RequestStep
<1>3. CASE ApplyCleanup
  <2>1. request' = request /\ AllSelected' = AllSelected
    BY <1>3 DEF ApplyCleanup, AllSelected, Selected
  <2>2. CASE row' = row /\ spills' = spills
    BY <1>1, <2>1, <2>2 DEF SelectionsOK, Creates
  <2>3. CASE ~ (row' = row /\ spills' = spills) /\ ~ (cleanup.alone /\ cleanup.since = started)
    BY <1>3, <2>3 DEF ApplyCleanup, SelectionsOK
  <2>4. CASE ~ (row' = row /\ spills' = spills) /\ cleanup.alone /\ cleanup.since = started
    <3>1. /\ cleanup.at = "planned"
          /\ row' = [f \in Files |->
                       IF f \in {g \in cleanup.files : HasRow(g)} \union RowsUnder(cleanup.sources)
                       THEN "deleted" ELSE row[f]]
          /\ spills' = spills \ {"row", "datasource"}
      BY <1>3, <2>4 DEF ApplyCleanup
    <3>2. Busy = {} /\ cleanup.files = Unselected /\ cleanup.sources = Unlinked
      BY <1>1, <2>4, <3>1 DEF PlanOK
    <3>3. ASSUME NEW f \in AllSelected PROVE row'[f] = row[f]
      <4>1. PICK d \in Datasources : f \in Selected(d)
        BY DEF AllSelected
      <4>2. home[f] = d /\ f \in Files /\ link[d] # None
        BY <1>1, <4>1 DEF KeptOK, Kept, Selected, TablesOK
      <4> QED
        BY <3>1, <3>2, <3>3, <4>2 DEF Unselected, Unlinked, RowsUnder
    <3>4. \A p \in Requests : ~ Creates(request'[p])
      BY <2>1, <3>2, IdleFields DEF Busy, Creates
    <3> QED
      BY <1>1, <2>1, <3>1, <3>3, <3>4, SelectionsFrame
  <2> QED
    BY <2>2, <2>3, <2>4
<1>4. CASE PlanCleanup \/ DeleteOrphanObjects \/ UNCHANGED vars
  <2>1. /\ UNCHANGED <<request, row>> /\ AllSelected' = AllSelected
        /\ "selection" \in spills => "selection" \in spills'
    BY <1>4 DEF PlanCleanup, DeleteOrphanObjects, vars, dbVars, AllSelected, Selected, Spill
  <2> QED
    BY <1>1, <2>1 DEF SelectionsOK, Creates
<1> QED
  BY <1>2, <1>3, <1>4 DEF Next

LEMMA SelectionInit == Init => SelectionInv
<1> SUFFICES ASSUME Init PROVE SelectionInv
  OBVIOUS
<1>1. PlanOK
  BY DEF Init, PlanOK, NoRun
<1>2. SelectionsOK
  BY IdleFields DEF Init, SelectionsOK, AllSelected, Selected, Creates
<1> QED
  BY <1>1, <1>2, ServedInit DEF SelectionInv

LEMMA SelectionStep == SelectionInv /\ [Next]_vars => SelectionInv'
  BY ServedStep, PlanStep, SelectionsStep DEF SelectionInv, ServedInv

\* A chatbot selects no file whose upload failed and none that was deleted, unless a
\* selection was written over one that had changed since it was read, or a cleanup
\* overlapped with a request.
THEOREM SelectedIsUploaded == Spec => []SelectionsHaveRows
<1>1. SelectionInv => SelectionsHaveRows
  BY DEF SelectionInv, SelectionsOK, SelectionsHaveRows
<1> QED
  BY <1>1, SelectionInit, SelectionStep, PTL DEF Spec

-----------------------------------------------------------------------------
(* A request only changes what it holds.                                   *)

LEMMA LinksHeld ==
  ASSUME ServedInv, NEW r \in Requests, RequestStep(r), NEW d \in Datasources, link'[d] # link[d]
  PROVE  Holds(request[r], d)
<1> DEFINE q == request[r]
<1>1. /\ ShapeOK /\ TablesOK /\ RequestOK(q)
  BY ShapeTables DEF ServedInv, ShapeOK
<1>2. CASE link' = link
  BY <1>2
<1>3. CASE BeginCreate(r) \/ CreateMoodleSource(r) \/ CreateFileSource(r) \/ CreateKb(r) \/ CreateChatbot(r)
           \/ SkipFile(r) \/ AddRow(r) \/ StoreFile(r) \/ StoreFileFails(r) \/ MarkUploaded(r) \/ Uploaded(r)
  BY <1>2, <1>3 DEF BeginCreate, CreateMoodleSource, CreateFileSource, CreateKb, CreateChatbot,
     SkipFile,
     AddRow, StoreFile, StoreFileFails, MarkUploaded, Uploaded, Begin, dbVars
<1>4. CASE BeginUpdate(r) \/ ReadLinks(r) \/ ReapFiles(r) \/ FindLink(r) \/ CheckChatbot(r) \/ ReadSelection(r)
           \/ DeleteChatbot(r) \/ DeleteAvatar(r) \/ WipePrefixes(r) \/ BeginImage(r) \/ StoreImage(r)
           \/ CommitImage(r) \/ DeleteImage(r) \/ RequestDies(r)
  BY <1>2, <1>4 DEF BeginUpdate, ReadLinks, ReapFiles, FindLink, CheckChatbot, ReadSelection,
     DeleteChatbot,
     DeleteAvatar, WipePrefixes, BeginImage, StoreImage, CommitImage, DeleteImage, RequestDies,
     Begin, dbVars
<1>5. CASE LinkMoodle(r) \/ LinkFiles(r) \/ AttachSource(r)
  <2>1. q # Idle
    BY <1>1, <1>5, LinkMoodleShape, LinkFilesShape, AttachSourceShape, IdleFields
  <2>2. q.bot \in Chatbots /\ q.ds \in Datasources \union {None} /\ q.moodle \in Datasources \union {None}
    BY <1>1, <2>1 DEF RequestOK
  <2>3. \E e \in {q.moodle, q.ds} : \E selection : link' = Linked(e, q.bot, selection)
    BY <1>2, <1>5 DEF LinkMoodle, LinkFiles, AttachSource
  <2>4. ASSUME NEW e \in {q.moodle, q.ds}, NEW selection, link' = Linked(e, q.bot, selection)
        PROVE  e = d
    <3>1. \A x \in Datasources : link'[x] = link[x] \/ x = e
      BY <1>1, <2>2, <2>4, LinkedStep
    <3> QED
      BY <3>1
  <2> QED
    BY <2>3, <2>4 DEF Holds
<1>6. CASE DropFiles(r)
  <2>1. d \in Emptied(q) \/ d \in Touched(q)
    BY <1>1, <1>2, <1>6, DropFilesShape
  <2> QED
    BY <1>6, <2>1 DEF DropFiles, Emptied, Touched, RemovedSources, Holds
<1>7. CASE AppendSelection(r)
  BY <1>1, <1>2, <1>7 DEF AppendSelection, TablesOK, Holds
<1>8. CASE DeleteKb(r)
  BY <1>2, <1>8 DEF DeleteKb, Holds
<1> QED
  BY <1>3, <1>4, <1>5, <1>6, <1>7, <1>8 DEF RequestStep

LEMMA SourcesHeld ==
  ASSUME ServedInv, NEW r \in Requests, RequestStep(r), NEW d \in Datasources, source'[d] # source[d]
  PROVE  /\ source[d] = "absent" \/ (Holds(request[r], d) /\ source'[d] = "deleted")
         /\ source[d] = "absent" => CreateMoodleSource(r) \/ CreateFileSource(r) \/ DropFiles(r)
         /\ source[d] # "absent" => DropFiles(r) \/ DeleteKb(r)
<1> DEFINE q == request[r]
<1>1. /\ ShapeOK /\ TablesOK /\ RequestOK(q)
  BY ShapeTables DEF ServedInv, ShapeOK
<1>2. source' # source
  OBVIOUS
<1>3. CASE BeginCreate(r) \/ CreateKb(r) \/ CreateChatbot(r) \/ LinkMoodle(r) \/ LinkFiles(r)
           \/ SkipFile(r) \/ AddRow(r) \/ StoreFile(r) \/ StoreFileFails(r) \/ MarkUploaded(r) \/ Uploaded(r)
  BY <1>2, <1>3 DEF BeginCreate, CreateKb, CreateChatbot, LinkMoodle, LinkFiles, SkipFile,
     AddRow, StoreFile, StoreFileFails, MarkUploaded, Uploaded, Begin, dbVars
<1>4. CASE BeginUpdate(r) \/ ReadLinks(r) \/ ReapFiles(r) \/ FindLink(r) \/ CheckChatbot(r) \/ ReadSelection(r)
           \/ DeleteChatbot(r) \/ DeleteAvatar(r) \/ WipePrefixes(r) \/ BeginImage(r) \/ StoreImage(r)
           \/ CommitImage(r) \/ DeleteImage(r) \/ RequestDies(r) \/ AttachSource(r) \/ AppendSelection(r)
  BY <1>2, <1>4 DEF BeginUpdate, ReadLinks, ReapFiles, FindLink, CheckChatbot, ReadSelection,
     DeleteChatbot,
     DeleteAvatar, WipePrefixes, BeginImage, StoreImage, CommitImage, DeleteImage, RequestDies,
     AttachSource,
     AppendSelection, Begin, dbVars
<1>5. CASE CreateMoodleSource(r) \/ CreateFileSource(r)
  BY <1>1, <1>5 DEF CreateMoodleSource, CreateFileSource, FreshSources, TablesOK
<1>6. CASE DropFiles(r)
  <2>1. d \in Emptied(q) /\ source'[d] = "deleted"
    BY <1>1, <1>2, <1>6, DropFilesShape
  <2> QED
    BY <1>6, <2>1 DEF DropFiles, Emptied, RemovedSources, Holds
<1>7. CASE DeleteKb(r)
  BY <1>2, <1>7 DEF DeleteKb, Holds, Exists
<1> QED
  BY <1>3, <1>4, <1>5, <1>6, <1>7 DEF RequestStep

\* What a request comes to hold is linked or new.
LEMMA HoldsStep ==
  ASSUME ServedInv, NEW r \in Requests, RequestStep(r), NEW d \in Datasources, Holds(request'[r], d)
  PROVE  Holds(request[r], d) \/ link[d] # None \/ source[d] = "absent"
<1> DEFINE q == request[r]
           s == request'[r]
<1>1. ShapeOK /\ d # None
  BY NoneIsNothing DEF ServedInv
<1>2. ASSUME Ended(r) \/ (Proceeds(r) /\ SameSources(q, s) /\ s.at \notin {"wipe", "delete-kb", "drop"})
      PROVE  Holds(q, d)
  BY <1>1, <1>2, HoldsNoMore, IdleFields DEF Ended, Holds, Proceeds
<1>3. CASE CreateKb(r) \/ CreateChatbot(r) \/ LinkMoodle(r) \/ LinkFiles(r) \/ SkipFile(r) \/ AddRow(r)
           \/ StoreFile(r) \/ StoreFileFails(r) \/ MarkUploaded(r) \/ Uploaded(r)
  BY <1>1, <1>2, <1>3, CreateKbShape, CreateChatbotShape, LinkMoodleShape, LinkFilesShape,
     SkipFileShape,
     AddRowShape, StoreFileShape, StoreFileFailsShape, MarkUploadedShape, UploadedShape
<1>4. CASE ReapFiles(r) \/ CheckChatbot(r) \/ AttachSource(r) \/ ReadSelection(r) \/ AppendSelection(r)
           \/ DeleteKb(r) \/ DropFiles(r)
  BY <1>1, <1>2, <1>4, ReapFilesShape, CheckChatbotShape, AttachSourceShape, ReadSelectionShape,
     AppendSelectionShape, DeleteKbShape, DropFilesShape
<1>5. CASE StoreImage(r) \/ CommitImage(r) \/ DeleteImage(r) \/ RequestDies(r)
  BY <1>1, <1>2, <1>5, StoreImageShape, CommitImageShape, DeleteImageShape, RequestDiesShape
<1>6. CASE BeginCreate(r) \/ BeginUpdate(r) \/ BeginImage(r) \/ DeleteChatbot(r)
  <2>1. s.ds = None /\ s.moodle = None /\ s.at \notin {"wipe", "delete-kb", "drop"}
    BY <1>1, <1>6, BeginCreateShape, BeginUpdateShape, BeginImageShape, DeleteChatbotShape
  <2> QED
    BY <1>1, <2>1 DEF Holds
<1>7. CASE CreateMoodleSource(r) \/ CreateFileSource(r)
  <2>1. \/ Ended(r)
        \/ /\ s.at \notin {"wipe", "delete-kb", "drop"}
           /\ s.ds \in {q.ds} \union FreshSources /\ s.moodle \in {q.moodle} \union FreshSources
    BY <1>1, <1>7, CreateMoodleSourceShape, CreateFileSourceShape
  <2>2. CASE Ended(r)
    BY <1>2, <2>2
  <2> QED
    BY <2>1, <2>2 DEF Holds, FreshSources
<1>8. CASE ReadLinks(r) \/ FindLink(r) \/ DeleteAvatar(r) \/ WipePrefixes(r)
  <2>1. CASE Ended(r) \/ s.at = "datasource"
    BY <1>1, <1>2, <1>8, <2>1, ReadLinksShape, FindLinkShape, DeleteAvatarShape,
       WipePrefixesShape
  <2>2. CASE ~ Ended(r) /\ s.at # "datasource"
    <3>1. /\ s.moodle = q.moodle /\ s.ds \in LinksOf(q.bot) \union {q.ds}
          /\ s.at = "drop" => DOMAIN s.seen = LinksOf(q.bot)
          /\ s.at \in {"wipe", "delete-kb"} => s.drop = LinksOf(q.bot) \/ (q.at = "wipe" /\ s.drop = q.drop)
      BY <1>1, <1>8, <2>2, ReadLinksShape, FindLinkShape, DeleteAvatarShape, WipePrefixesShape
         DEF SameSources, SameReads
    <3> QED
      BY <3>1 DEF Holds, LinksOf
  <2> QED
    BY <2>1, <2>2
<1> QED
  BY <1>3, <1>4, <1>5, <1>6, <1>7, <1>8 DEF RequestStep

LEMMA KbStep ==
  ASSUME NEW r \in Requests, RequestStep(r), ~ CreateKb(r), ~ DeleteKb(r)
  PROVE  kb' = kb
<1>1. CASE BeginCreate(r) \/ CreateMoodleSource(r) \/ CreateFileSource(r) \/ CreateChatbot(r)
           \/ LinkMoodle(r) \/ LinkFiles(r) \/ SkipFile(r) \/ AddRow(r) \/ StoreFile(r)
           \/ StoreFileFails(r) \/ MarkUploaded(r) \/ Uploaded(r)
  BY <1>1 DEF BeginCreate, CreateMoodleSource, CreateFileSource, CreateChatbot, LinkMoodle,
     LinkFiles, SkipFile, AddRow, StoreFile, StoreFileFails, MarkUploaded, Uploaded, Begin,
     dbVars
<1>2. CASE BeginUpdate(r) \/ ReadLinks(r) \/ DropFiles(r) \/ ReapFiles(r) \/ FindLink(r) \/ CheckChatbot(r)
           \/ ReadSelection(r) \/ DeleteChatbot(r) \/ DeleteAvatar(r) \/ WipePrefixes(r)
           \/ BeginImage(r) \/ StoreImage(r) \/ CommitImage(r) \/ DeleteImage(r) \/ RequestDies(r)
           \/ AttachSource(r) \/ AppendSelection(r)
  BY <1>2 DEF BeginUpdate, ReadLinks, DropFiles, ReapFiles, FindLink, CheckChatbot,
     ReadSelection,
     DeleteChatbot, DeleteAvatar, WipePrefixes, BeginImage, StoreImage, CommitImage,
     DeleteImage, RequestDies,
     AttachSource, AppendSelection, Begin, dbVars
<1> QED
  BY <1>1, <1>2 DEF RequestStep

\* A step of a request takes no KB from a chatbot that another one creates, or that it
\* creates itself.
LEMMA KbKept ==
  ASSUME ServedInv, NEW r \in Requests, RequestStep(r), NEW p \in Requests, Creates(request[p]),
         request[p].bot \in kb
  PROVE  request[p].bot \in kb'
<1>1. CASE DeleteKb(r)
  <2>1. Deletes(request[r]) /\ ~ Creates(request[r])
    BY <1>1, DeleteKbShape DEF ServedInv, Creates, Deletes
  <2>2. request[r].bot # request[p].bot
    BY <2>1 DEF ServedInv, BotsOK
  <2> QED
    BY <1>1, <2>2 DEF DeleteKb
<1> QED
  BY <1>1, KbStep DEF CreateKb

-----------------------------------------------------------------------------
(* What requests have made and not linked.                                 *)

\* The stage of a request step that goes on with the same datasources and files.
LEMMA StagedOn ==
  ASSUME NEW q, NEW s, Fixed(q, s), SameSources(q, s), SameFiles(q, s), Staged(q),
         Creates(s) => Creates(q), Updates(s) => Updates(q),
         spills \subseteq spills',
         Creates(s) /\ s.at \in {"link-moodle", "link-files"} => s.bot \in kb',
         HasSource(s) /\ s.at \notin {"read-selection", "append"} /\ s.stored = {} =>
            HasSource(q) /\ q.at \notin {"read-selection", "append"},
         s.at \in {"kb", "link-moodle", "link-files"} /\ s.ds # None /\ s.stored = {} =>
            \/ q.at \in {"kb", "link-moodle", "link-files"}
            \/ q.at = "upload" /\ q.todo = {}
  PROVE  /\ Creates(s) /\ s.at \in {"link-moodle", "link-files"} => s.bot \in kb'
         /\ Creates(s) /\ s.moodle # None => s.moodle # s.ds
         /\ Updates(s) => s.moodle = None
         /\ HasSource(s) /\ s.at \notin {"read-selection", "append"} /\ s.stored = {} =>
               s.todo # {} \/ "datasource" \in spills'
         /\ s.at \in {"kb", "link-moodle", "link-files"} /\ s.ds # None /\ s.stored = {} =>
               "datasource" \in spills'
  BY DEF Staged, Fixed, SameSources, SameFiles, HasSource

LEMMA StagesStep == LeakInv /\ [Next]_vars => StagesOK'
<1> SUFFICES ASSUME LeakInv, [Next]_vars PROVE StagesOK'
  OBVIOUS
<1>1. /\ ServedInv /\ ShapeOK /\ ShapeOK' /\ TablesOK /\ ClaimsOK /\ PlanOK /\ StagesOK
      /\ \A p \in Requests : RequestOK(request[p])
  BY StepShape, ShapeTables DEF LeakInv, SelectionInv, ServedInv, ShapeOK
<1>2. ASSUME NEW r \in Requests, RequestStep(r) PROVE StagesOK'
  <2> DEFINE q == request[r]
             s == request'[r]
  <2>1. spills \subseteq spills'
    BY <1>1, <1>2, RequestBounds
  <2>2. ASSUME NEW p \in Requests, request'[p] = request[p] PROVE Staged(request[p])'
    BY <1>1, <1>2, <2>1, <2>2, KbKept DEF StagesOK, Staged, Creates, Updates, HasSource
  <2>3. ASSUME Others(r), Staged(request[r])' PROVE StagesOK'
    BY <2>2, <2>3 DEF StagesOK, Others
  <2>4. ASSUME Ended(r) PROVE StagesOK'
    BY <2>3, <2>4, IdleFields DEF Ended, Staged, Creates, Updates, HasSource
  <2>5. Staged(q) /\ RequestOK(q) /\ RequestOK(s)
    BY <1>1 DEF StagesOK, ShapeOK
  <2>6. Runs(r) => (Creates(s) => Creates(q)) /\ (Updates(s) => Updates(q))
    BY <1>1, SameOperation
  <2>7. ASSUME Proceeds(r), SameSources(q, s), SameFiles(q, s),
               Creates(s) /\ s.at \in {"link-moodle", "link-files"} => s.bot \in kb',
               HasSource(s) /\ s.at \notin {"read-selection", "append"} /\ s.stored = {} =>
                  HasSource(q) /\ q.at \notin {"read-selection", "append"},
               s.at \in {"kb", "link-moodle", "link-files"} /\ s.ds # None /\ s.stored = {} =>
                  \/ q.at \in {"kb", "link-moodle", "link-files"}
                  \/ q.at = "upload" /\ q.todo = {}
        PROVE  StagesOK'
    <3>1. Staged(request[r])'
      BY <2>1, <2>5, <2>6, <2>7, StagedOn DEF Proceeds, Staged, Runs, Creates, Updates,
         HasSource
    <3> QED
      BY <2>3, <2>7, <3>1 DEF Proceeds
  <2>8. CASE BeginCreate(r) \/ BeginUpdate(r) \/ BeginImage(r) \/ DeleteChatbot(r)
    <3>1. /\ Others(r) /\ s.moodle = None
          /\ s.at \in {"moodle", "datasource", "read-links", "find-link", "store-image", "commit-image", "avatar"}
      BY <1>1, <2>8, BeginCreateShape, BeginUpdateShape, BeginImageShape, DeleteChatbotShape
    <3> QED
      BY <2>3, <3>1 DEF Staged, HasSource
  <2>9. CASE CreateMoodleSource(r)
    <3>1. CASE ~ Ended(r)
      <4>1. /\ Proceeds(r) /\ s.ds = q.ds /\ s.moodle \in Datasources /\ q.at = "moodle"
            /\ s.at \in {"kb", "datasource"} /\ Creates(q)
        BY <1>1, <2>9, <3>1, CreateMoodleSourceShape DEF FreshSources
      <4>2. s.ds = None /\ ~ Updates(s)
        BY <2>5, <2>6, <4>1 DEF RequestOK, Creates, Updates, Runs
      <4> QED
        BY <2>3, <4>1, <4>2, NoneIsNothing DEF Staged, HasSource, Proceeds
    <3> QED
      BY <2>4, <3>1
  <2>10. CASE CreateFileSource(r)
    <3>1. /\ Proceeds(r) /\ SameFiles(q, s) /\ s.moodle = q.moodle /\ s.ds \in FreshSources
          /\ s.at \in {"attach", "upload"} /\ q.at = "datasource" /\ q # Idle
      BY <1>1, <2>10, CreateFileSourceShape, IdleFields
    <3>2. s.todo # {}
      BY <2>5, <3>1 DEF RequestOK, SameFiles
    <3>3. q.moodle # s.ds
      <4>1. CASE q.moodle = s.ds
        <5>1. Holds(q, s.ds) /\ s.ds \in Datasources /\ source[s.ds] = "absent"
          BY <3>1, <4>1 DEF Holds, FreshSources
        <5>2. q.bot \in Claims(s.ds)
          BY <1>1, <3>1, <5>1, HeldIsClaimed
        <5> QED
          BY <1>1, <5>1, <5>2 DEF ClaimsOK
      <4> QED
        BY <4>1
    <3>4. Updates(s) => s.moodle = None
      BY <2>5, <2>6, <3>1 DEF Staged, Runs
    <3> QED
      BY <2>3, <3>1, <3>2, <3>3, <3>4 DEF Staged, HasSource, Proceeds
  <2>11. CASE CreateKb(r)
    <3>1. s.bot \in kb'
      BY <1>1, <2>11, CreateKbShape DEF CreateKb, Proceeds, Fixed
    <3> QED
      BY <1>1, <2>7, <2>11, <3>1, CreateKbShape DEF HasSource
  <2>12. CASE LinkMoodle(r)
    <3>1. q.at = "link-moodle" /\ Creates(q) /\ s.bot = q.bot /\ kb' = kb
      BY <1>1, <2>12, LinkMoodleShape DEF LinkMoodle, Proceeds, Fixed
    <3>2. s.bot \in kb'
      BY <2>5, <3>1 DEF Staged
    <3> QED
      BY <1>1, <2>7, <2>12, <3>2, LinkMoodleShape DEF HasSource
  <2>13. CASE LinkFiles(r) \/ StoreFile(r) \/ CheckChatbot(r) \/ AttachSource(r) \/ StoreImage(r)
              \/ CommitImage(r) \/ DeleteImage(r) \/ WipePrefixes(r) \/ DeleteAvatar(r) \/ DeleteKb(r)
    BY <1>1, <2>4, <2>7, <2>13, LinkFilesShape, StoreFileShape, CheckChatbotShape,
       AttachSourceShape,
       StoreImageShape, CommitImageShape, DeleteImageShape, WipePrefixesShape,
       DeleteAvatarShape,
       DeleteKbShape DEF HasSource
  <2>14. CASE CreateChatbot(r) \/ ReadLinks(r) \/ DropFiles(r) \/ ReapFiles(r) \/ ReadSelection(r)
              \/ AppendSelection(r) \/ RequestDies(r)
    BY <1>1, <2>4, <2>7, <2>14, CreateChatbotShape, ReadLinksShape, DropFilesShape,
       ReapFilesShape,
       ReadSelectionShape, AppendSelectionShape, RequestDiesShape DEF HasSource
  <2>15. CASE SkipFile(r) \/ StoreFileFails(r)
    <3>1. "datasource" \in spills'
      BY <2>15 DEF SkipFile, StoreFileFails, Spill
    <3>2. CASE ~ Ended(r)
      <4>1. Proceeds(r) /\ SameSources(q, s) /\ s.at = "upload"
        BY <1>1, <2>15, <3>2, SkipFileShape, StoreFileFailsShape
      <4> QED
        BY <2>3, <2>5, <2>6, <3>1, <4>1 DEF Staged, HasSource, Proceeds, Runs, SameSources
    <3> QED
      BY <2>4, <3>2
  <2>16. CASE AddRow(r) \/ MarkUploaded(r)
    <3>1. CASE ~ Ended(r)
      <4>1. /\ Proceeds(r) /\ SameSources(q, s) /\ s.at \in {"store", "upload"}
            /\ s.todo # {} \/ s.stored # {}
        BY <1>1, <2>16, <3>1, AddRowShape, MarkUploadedShape
      <4> QED
        BY <2>3, <2>5, <2>6, <4>1 DEF Staged, HasSource, Proceeds, Runs, SameSources
    <3> QED
      BY <2>4, <3>1
  <2>17. CASE Uploaded(r)
    <3>1. CASE ~ Ended(r)
      <4>1. /\ Proceeds(r) /\ SameSources(q, s) /\ SameFiles(q, s)
            /\ s.at \in {"read-selection", "kb"} /\ q.at = "upload" /\ q.todo = {}
        BY <1>1, <2>17, <3>1, UploadedShape DEF Uploaded
      <4> QED
        BY <2>7, <4>1 DEF HasSource
    <3> QED
      BY <2>4, <3>1
  <2>18. CASE FindLink(r)
    <3>1. CASE s.at = "datasource"
      BY <1>1, <2>7, <2>18, <3>1, FindLinkShape DEF HasSource
    <3>2. CASE s.at # "datasource"
      <4>1. /\ Proceeds(r) /\ SameFiles(q, s) /\ s.moodle = q.moodle /\ s.at = "upload"
            /\ q.at = "find-link" /\ Updates(q)
        BY <1>1, <2>18, <3>2, FindLinkShape
      <4>2. s.todo # {} /\ s.moodle = None
        BY <2>5, <4>1 DEF RequestOK, SameFiles, Staged
      <4> QED
        BY <2>3, <4>1, <4>2 DEF Staged, HasSource, Proceeds
    <3> QED
      BY <3>1, <3>2
  <2> QED
    BY <1>2, <2>8, <2>9, <2>10, <2>11, <2>12, <2>13, <2>14, <2>15, <2>16, <2>17, <2>18
       DEF RequestStep
<1>3. CASE ApplyCleanup
  <2>1. request' = request /\ kb' = kb
    BY <1>3 DEF ApplyCleanup
  <2>2. CASE spills \subseteq spills'
    BY <1>1, <2>1, <2>2 DEF StagesOK, Staged, Creates, Updates, HasSource
  <2>3. CASE ~ (spills \subseteq spills')
    <3>1. Busy = {}
      BY <1>1, <1>3, <2>3 DEF ApplyCleanup, PlanOK
    <3> QED
      BY <2>1, <3>1, IdleFields DEF Busy, StagesOK, Staged, Creates, Updates, HasSource
  <2> QED
    BY <2>2, <2>3
<1>4. CASE PlanCleanup \/ DeleteOrphanObjects \/ UNCHANGED vars
  <2>1. UNCHANGED <<request, kb>> /\ spills \subseteq spills'
    BY <1>4 DEF PlanCleanup, DeleteOrphanObjects, vars, dbVars, Spill
  <2> QED
    BY <1>1, <2>1 DEF StagesOK, Staged, Creates, Updates, HasSource
<1> QED
  BY <1>2, <1>3, <1>4 DEF Next

LEMMA PendingHeld ==
  ASSUME NEW q, NEW d, d \in Pending(q)
  PROVE  Holds(q, d) /\ (Creates(q) \/ q.at \in {"attach", "link-source"})
  BY DEF Pending, Holds

\* Nobody else links or comes to hold what a request has made and not linked.
LEMMA PendingFrame ==
  ASSUME LeakInv, NEW r \in Requests, RequestStep(r), Others(r),
         \A d \in Pending(request'[r]) \intersect Datasources :
            link'[d] = None /\ (d \in Pending(request[r]) \/ source[d] = "absent")
  PROVE  PendingOK'
<1> DEFINE q == request[r]
           s == request'[r]
<1>1. /\ ServedInv /\ ShapeOK /\ ClaimsOK /\ PendingOK
  BY DEF LeakInv, SelectionInv, ServedInv
<1>2. ASSUME NEW p \in Requests, NEW d \in Datasources, Holds(request[p], d)
      PROVE  source[d] # "absent"
  <2>1. request[p] # Idle
    BY <1>2, IdleFields, NoneIsNothing DEF Holds
  <2> QED
    BY <1>1, <1>2, <2>1, HeldIsClaimed DEF ClaimsOK
<1>3. ASSUME NEW d \in Pending(s) \intersect Datasources, NEW p \in Requests \ {r}
      PROVE  link'[d] = None /\ ~ Holds(request'[p], d)
  <2>1. ~ Holds(request[p], d)
    BY <1>1, <1>2, <1>3 DEF PendingOK
  <2> QED
    BY <1>3, <2>1 DEF Others
<1>4. ASSUME NEW p \in Requests \ {r}, NEW d \in Pending(request[p]) \intersect Datasources
      PROVE  link'[d] = None /\ \A x \in Requests \ {p} : ~ Holds(request'[x], d)
  <2>1. link[d] = None /\ \A x \in Requests \ {p} : ~ Holds(request[x], d)
    BY <1>1, <1>4 DEF PendingOK
  <2>2. source[d] # "absent"
    BY <1>2, <1>4, PendingHeld
  <2>3. link'[d] = None
    BY <1>1, <1>4, <2>1, LinksHeld
  <2>4. ~ Holds(s, d)
    BY <1>1, <1>4, <2>1, <2>2, HoldsStep
  <2> QED
    BY <2>1, <2>3, <2>4 DEF Others
<1>5. ASSUME NEW p \in Requests, NEW d \in Pending(request'[p]) \intersect Datasources
      PROVE  link'[d] = None /\ \A x \in Requests \ {p} : ~ Holds(request'[x], d)
  <2>1. CASE p = r
    BY <1>3, <1>5, <2>1
  <2>2. CASE p # r
    BY <1>4, <1>5, <2>2 DEF Others
  <2> QED
    BY <2>1, <2>2
<1>6. \A p \in Requests : Pending(request[p])' = Pending(request'[p])
  BY DEF Pending, Creates
<1> QED
  BY <1>5, <1>6 DEF PendingOK, Holds

LEMMA PendingStep == LeakInv /\ [Next]_vars => PendingOK'
<1> SUFFICES ASSUME LeakInv, [Next]_vars PROVE PendingOK'
  OBVIOUS
<1>1. /\ ServedInv /\ ShapeOK /\ ShapeOK' /\ TablesOK /\ ClaimsOK /\ StagesOK /\ PendingOK
      /\ \A p \in Requests : RequestOK(request[p])
  BY StepShape, ShapeTables DEF LeakInv, SelectionInv, ServedInv, ShapeOK
<1>2. ASSUME NEW r \in Requests, RequestStep(r) PROVE PendingOK'
  <2> DEFINE q == request[r]
             s == request'[r]
  <2>1. ASSUME Others(r),
               ~ Creates(s) /\ s.at \notin {"attach", "link-source"}
        PROVE  PendingOK'
    BY <1>2, <2>1, PendingFrame, PendingHeld
  <2>2. CASE Ended(r)
    BY <2>1, <2>2, IdleFields DEF Ended, Creates
  <2>3. Runs(r) => (Creates(s) => Creates(q)) /\ (Updates(s) => Updates(q))
    BY <1>1, SameOperation
  <2>4. ASSUME Proceeds(r), SameSources(q, s), link' = link,
               s.at \in {"attach", "link-source"} => q.at \in {"attach", "link-source"},
               q.at \notin {"link-files", "chatbot"}
        PROVE  PendingOK'
    <3>1. Pending(s) \subseteq Pending(q)
      BY <2>3, <2>4 DEF Pending, SameSources, Runs
    <3> QED
      BY <1>1, <1>2, <2>4, <3>1, PendingFrame DEF PendingOK, Proceeds
  <2>5. CASE BeginCreate(r) \/ BeginUpdate(r) \/ BeginImage(r) \/ DeleteChatbot(r)
    <3>1. Others(r) /\ s.ds = None /\ s.moodle = None
      BY <1>1, <2>5, BeginCreateShape, BeginUpdateShape, BeginImageShape, DeleteChatbotShape
    <3>2. Pending(s) \intersect Datasources = {}
      BY <3>1, NoneIsNothing DEF Pending
    <3> QED
      BY <1>2, <3>1, <3>2, PendingFrame
  <2>6. CASE CreateMoodleSource(r) /\ ~ Ended(r)
    <3>1. /\ Proceeds(r) /\ s.ds = q.ds /\ s.moodle \in FreshSources /\ q.at = "moodle" /\ Creates(q)
      BY <1>1, <2>6, CreateMoodleSourceShape
    <3>2. link' = link /\ \A d \in FreshSources : link[d] = None
      BY <1>1, <2>6, LinkIsClaim DEF CreateMoodleSource, FreshSources, ClaimsOK
    <3>3. q.ds = None
      BY <1>1, <3>1 DEF RequestOK
    <3>4. \A d \in Pending(s) \intersect Datasources : d \in FreshSources
      BY <3>1, <3>3, NoneIsNothing DEF Pending
    <3> QED
      BY <1>2, <3>1, <3>2, <3>4, PendingFrame DEF FreshSources, Proceeds
  <2>7. CASE CreateFileSource(r)
    <3>1. Proceeds(r) /\ s.moodle = q.moodle /\ s.ds \in FreshSources /\ q.at = "datasource"
      BY <1>1, <2>7, CreateFileSourceShape
    <3>2. link' = link /\ \A d \in FreshSources : link[d] = None
      BY <1>1, <2>7, LinkIsClaim DEF CreateFileSource, FreshSources, ClaimsOK
    <3>3. \A d \in Pending(s) : d \in FreshSources \/ d \in Pending(q)
      BY <2>3, <3>1 DEF Pending, Runs
    <3> QED
      BY <1>1, <1>2, <3>1, <3>2, <3>3, PendingFrame DEF FreshSources, Proceeds, PendingOK
  <2>8. CASE LinkMoodle(r)
    <3>1. /\ Proceeds(r) /\ SameSources(q, s) /\ s.at = "link-files" /\ q.at = "link-moodle" /\ Creates(q)
      BY <1>1, <2>8, LinkMoodleShape
    <3>2. /\ q.bot \in Chatbots /\ q.moodle \in Datasources \union {None}
          /\ q.moodle # None => q.moodle # q.ds
      BY <1>1, <3>1, IdleFields DEF RequestOK, StagesOK, Staged
    <3>3. \A d \in Pending(s) : d = q.ds /\ d \in Pending(q)
      BY <3>1 DEF Pending, SameSources
    <3>4. link' = Linked(q.moodle, q.bot, {})
      BY <2>8 DEF LinkMoodle
    <3>5. \A d \in Datasources : link'[d] = link[d] \/ d = q.moodle
      BY <1>1, <3>2, <3>4, LinkedStep
    <3> QED
      BY <1>1, <1>2, <3>1, <3>2, <3>3, <3>5, PendingFrame, NoneIsNothing DEF PendingOK, Proceeds
  <2>9. CASE LinkFiles(r)
    <3>1. Proceeds(r) /\ s.at = "chatbot"
      BY <1>1, <2>9, LinkFilesShape
    <3>2. Pending(s) = {}
      BY <3>1 DEF Pending
    <3> QED
      BY <1>2, <3>1, <3>2, PendingFrame DEF Proceeds
  <2>10. CASE AttachSource(r) \/ FindLink(r) \/ ReadLinks(r) \/ DropFiles(r) \/ ReapFiles(r)
              \/ ReadSelection(r) \/ AppendSelection(r)
    <3>1. CASE ~ Ended(r)
      <4>1. Proceeds(r) /\ Updates(q) /\ s.at \notin {"attach", "link-source"}
        BY <1>1, <2>10, <3>1, AttachSourceShape, FindLinkShape, ReadLinksShape, DropFilesShape,
           ReapFilesShape, ReadSelectionShape, AppendSelectionShape
      <4>2. ~ Creates(s)
        BY <4>1 DEF Proceeds, Fixed, Creates, Updates
      <4> QED
        BY <2>1, <4>1, <4>2 DEF Proceeds
    <3> QED
      BY <2>2, <3>1
  <2>11. CASE CreateKb(r) \/ SkipFile(r) \/ AddRow(r) \/ StoreFile(r) \/ StoreFileFails(r) \/ MarkUploaded(r)
              \/ Uploaded(r) \/ CheckChatbot(r)
    <3>1. link' = link
      BY <2>11 DEF CreateKb, SkipFile, AddRow, StoreFile, StoreFileFails, MarkUploaded,
         Uploaded,
         CheckChatbot, dbVars
    <3>2. CASE ~ Ended(r)
      <4>1. /\ Proceeds(r) /\ SameSources(q, s) /\ q.at \notin {"link-files", "chatbot"}
            /\ s.at \in {"attach", "link-source"} => q.at \in {"attach", "link-source"}
        BY <1>1, <2>11, <3>2, CreateKbShape, SkipFileShape, AddRowShape, StoreFileShape,
           StoreFileFailsShape, MarkUploadedShape, UploadedShape, CheckChatbotShape
      <4> QED
        BY <2>4, <3>1, <4>1
    <3> QED
      BY <2>2, <3>2
  <2>12. CASE CreateChatbot(r) \/ DeleteAvatar(r) \/ WipePrefixes(r) \/ DeleteKb(r) \/ StoreImage(r)
              \/ CommitImage(r) \/ DeleteImage(r) \/ RequestDies(r)
    <3>1. CASE ~ Ended(r)
      <4>1. Proceeds(r) /\ (Deletes(q) \/ Replaces(q)) /\ s.at \notin {"attach", "link-source"}
        BY <1>1, <2>12, <3>1, CreateChatbotShape, DeleteAvatarShape, WipePrefixesShape,
           DeleteKbShape,
           StoreImageShape, CommitImageShape, DeleteImageShape, RequestDiesShape
      <4>2. ~ Creates(s)
        BY <4>1 DEF Proceeds, Fixed, Creates, Deletes, Replaces
      <4> QED
        BY <2>1, <4>1, <4>2 DEF Proceeds
    <3> QED
      BY <2>2, <3>1
  <2> QED
    BY <1>1, <1>2, <2>2, <2>5, <2>6, <2>7, <2>8, <2>9, <2>10, <2>11, <2>12 DEF RequestStep
<1>3. CASE PlanCleanup \/ ApplyCleanup \/ DeleteOrphanObjects \/ UNCHANGED vars
  <2>1. UNCHANGED <<request, link>>
    BY <1>3 DEF PlanCleanup, ApplyCleanup, DeleteOrphanObjects, vars, dbVars
  <2> QED
    BY <1>1, <2>1 DEF PendingOK, Pending, Holds, Creates
<1> QED
  BY <1>2, <1>3 DEF Next

-----------------------------------------------------------------------------
(* Datasources that nothing is linked to.                                  *)

LEMMA SourcesFrame ==
  ASSUME LeakInv, NEW r \in Requests, RequestStep(r), Others(r),
         "datasource" \notin spills' =>
            /\ \A d \in Datasources : d \in SourcesOf(request[r]) /\ link[d] = None /\ Exists(d)' =>
                  d \in SourcesOf(request'[r]) \/ link'[d] # None
            /\ \A d \in FreshSources : Exists(d)' => d \in SourcesOf(request'[r])
  PROVE  SourcesOK'
<1>1. ServedInv /\ SourcesOK /\ TablesOK
  BY ShapeTables DEF LeakInv, SelectionInv, ServedInv
<1>2. spills \subseteq spills' /\ Stable
  BY <1>1, RequestBounds, StableStep DEF ServedInv, Next
<1>3. ASSUME "datasource" \notin spills', NEW d \in Datasources, Exists(d)',
             link'[d] = None
      PROVE  \E p \in Requests : d \in SourcesOf(request'[p])
  <2>1. CASE source[d] = "absent"
    BY <1>3, <2>1 DEF FreshSources
  <2>2. CASE source[d] # "absent"
    <3>1. Exists(d)
      BY <1>1, <1>2, <1>3, <2>2 DEF Exists, Stable, TablesOK
    <3>2. link[d] = None
      BY <1>2, <1>3 DEF Stable, Dead, Exists
    <3>3. PICK p \in Requests : d \in SourcesOf(request[p])
      BY <1>1, <1>2, <1>3, <3>1, <3>2 DEF SourcesOK
    <3>4. CASE p = r
      BY <1>3, <3>2, <3>3, <3>4
    <3>5. CASE p # r
      <4>1. request'[p] = request[p]
        BY <3>5 DEF Others
      <4>2. d \in SourcesOf(request'[p])
        BY <3>3, <4>1 DEF SourcesOf, HasSource
      <4> QED
        BY <4>2
    <3> QED
      BY <3>4, <3>5
  <2> QED
    BY <2>1, <2>2
<1> QED
  BY <1>3 DEF SourcesOK, SourcesOf, HasSource

LEMMA SourcesStep == LeakInv /\ [Next]_vars => SourcesOK'
<1> SUFFICES ASSUME LeakInv, [Next]_vars PROVE SourcesOK'
  OBVIOUS
<1>1. /\ ServedInv /\ ShapeOK /\ ShapeOK' /\ TablesOK /\ PlanOK /\ StagesOK /\ SourcesOK
      /\ \A p \in Requests : RequestOK(request[p]) /\ Staged(request[p])
  BY StepShape, ShapeTables DEF LeakInv, SelectionInv, ServedInv, ShapeOK, StagesOK
<1>2. ASSUME NEW r \in Requests, RequestStep(r) PROVE SourcesOK'
  <2> DEFINE q == request[r]
             s == request'[r]
  <2>1. ASSUME Others(r), source' = source,
               \A d \in Datasources : d \in SourcesOf(q) /\ link[d] = None /\ Exists(d) =>
                  d \in SourcesOf(s) \/ link'[d] # None
        PROVE  SourcesOK'
    <3>1. \A d \in Datasources : Exists(d)' = Exists(d)
      BY <2>1 DEF Exists
    <3>2. \A d \in FreshSources : ~ Exists(d) /\ d \in Datasources
      BY DEF Exists, FreshSources
    <3> QED
      BY <1>1, <1>2, <2>1, <3>1, <3>2, SourcesFrame
  <2>2. Staged(q) /\ RequestOK(q) /\ \A d \in Datasources : d # None
    BY <1>1, NoneIsNothing
  <2>3. ASSUME "datasource" \in spills' PROVE SourcesOK'
    BY <2>3 DEF SourcesOK
  <2>4. CASE BeginCreate(r) \/ BeginUpdate(r) \/ BeginImage(r) \/ DeleteChatbot(r)
    <3>1. Others(r) /\ q = Idle
      BY <1>1, <2>4, BeginCreateShape, BeginUpdateShape, BeginImageShape, DeleteChatbotShape
    <3>2. source' = source
      BY <2>4 DEF BeginCreate, BeginUpdate, BeginImage, DeleteChatbot, Begin, dbVars
    <3>3. SourcesOf(q) = {}
      BY <3>1, IdleFields DEF SourcesOf, HasSource
    <3> QED
      BY <2>1, <3>1, <3>2, <3>3
  <2>5. CASE CreateMoodleSource(r) \/ CreateFileSource(r)
    <3>1. CASE Ended(r)
      <4>1. q # Idle
        BY <1>1, <2>5, CreateMoodleSourceShape, CreateFileSourceShape, IdleFields
      <4>2. "datasource" \in spills'
        <5>1. CASE CreateMoodleSource(r)
          <6>1. q.at = "moodle" /\ s.at = "idle"
            BY <1>1, <3>1, <5>1, CreateMoodleSourceShape, IdleFields DEF Ended
          <6>2. PICK d \in FreshSources :
                   \/ Becomes(r, [at |-> IF q.todo = {} THEN "kb" ELSE "datasource", moodle |-> d])
                   \/ "datasource" \in spills'
            BY <5>1 DEF CreateMoodleSource, Spill
          <6>3. CASE Becomes(r, [at |-> IF q.todo = {} THEN "kb" ELSE "datasource", moodle |-> d])
            <7>1. s = Updated(q, [at |-> IF q.todo = {} THEN "kb" ELSE "datasource", moodle |-> d])
              BY <1>1, <6>3, BecomesStep
            <7>2. s.at # "idle"
              BY <2>2, <7>1 DEF Updated, RequestOK, Idle
            <7> QED
              BY <6>1, <7>2
          <6> QED
            BY <6>2, <6>3
        <5>2. CASE CreateFileSource(r)
          BY <1>1, <3>1, <5>2, CreateFileSourceShape, IdleFields DEF Ended
        <5> QED
          BY <2>5, <5>1, <5>2
      <4> QED
        BY <2>3, <4>2
    <3>2. CASE ~ Ended(r)
      <4>1. /\ Others(r) /\ q.at \in {"moodle", "datasource"}
            /\ s.at = "attach" => Updates(q)
            /\ q.at = "datasource" => s.at \in {"attach", "upload"}
            /\ \/ /\ s.ds = q.ds /\ s.moodle \in FreshSources /\ q.at = "moodle"
                  /\ s.at \in {"kb", "datasource"}
                  /\ source' = [source EXCEPT ![s.moodle] = "moodle"]
               \/ /\ s.moodle = q.moodle /\ s.ds \in FreshSources /\ s.at \in {"attach", "upload"}
                  /\ source' = [source EXCEPT ![s.ds] = "file"]
        BY <1>1, <2>5, <3>2, CreateMoodleSourceShape, CreateFileSourceShape
           DEF Proceeds, Creates, Updates
      <4>2. \A d \in SourcesOf(q) : d = q.moodle /\ q.at = "datasource"
        BY <4>1 DEF SourcesOf, HasSource
      <4>3. \A d \in Datasources : d \in SourcesOf(q) => d \in SourcesOf(s)
        BY <2>2, <4>1, <4>2 DEF SourcesOf, HasSource, Staged
      <4>4. \A d \in FreshSources : Exists(d)' => d \in SourcesOf(s)
        BY <1>1, <4>1 DEF SourcesOf, HasSource, FreshSources, Exists, TablesOK
      <4> QED
        BY <1>1, <1>2, <4>1, <4>3, <4>4, SourcesFrame
    <3> QED
      BY <3>1, <3>2
  <2>6. CASE LinkMoodle(r) \/ LinkFiles(r)
    <3>1. /\ Proceeds(r) /\ Others(r) /\ SameSources(q, s) /\ Creates(q)
          /\ \/ LinkMoodle(r) /\ q.at = "link-moodle" /\ s.at = "link-files"
             \/ LinkFiles(r) /\ q.at = "link-files" /\ s.at = "chatbot"
      BY <1>1, <2>6, LinkMoodleShape, LinkFilesShape DEF Proceeds
    <3>2. source' = source /\ q.bot \in kb
      BY <2>2, <2>6, <3>1 DEF LinkMoodle, LinkFiles, Staged
    <3>3. ASSUME NEW d \in Datasources, d \in SourcesOf(q), Exists(d), "datasource" \notin spills
          PROVE  d \in SourcesOf(s) \/ link'[d] # None
      <4>1. d = q.ds \/ d = q.moodle
        BY <3>3 DEF SourcesOf
      <4>2. q.stored \subseteq Files /\ q.bot \in Chatbots
        BY <1>1, <2>2, <3>2 DEF RequestOK, TablesOK
      <4>3. \A selection \in SUBSET Files : [kb |-> q.bot, selection |-> selection] # None
        BY <4>2, NoneIsNothing
      <4>4. CASE LinkMoodle(r)
        <5>1. CASE d = q.moodle
          <6>1. link' = [link EXCEPT ![d] = [kb |-> q.bot, selection |-> {}]]
            BY <2>2, <3>2, <3>3, <4>4, <5>1 DEF LinkMoodle, Linked
          <6> QED
            BY <1>1, <4>3, <6>1 DEF TablesOK
        <5>2. CASE d = q.ds
          BY <1>1, <3>1, <4>4, <5>2, LinkMoodleShape DEF SourcesOf, SameSources
        <5> QED
          BY <4>1, <5>1, <5>2
      <4>5. CASE LinkFiles(r)
        <5>1. q.at = "link-files" /\ d = q.ds
          BY <1>1, <3>3, <4>5, LinkFilesShape DEF SourcesOf
        <5>2. q.stored # {}
          BY <2>2, <3>3, <5>1 DEF Staged
        <5>3. link' = [link EXCEPT ![d] = [kb |-> q.bot, selection |-> q.stored]]
          BY <2>2, <3>2, <3>3, <4>5, <5>1, <5>2 DEF LinkFiles, Linked
        <5> QED
          BY <1>1, <4>2, <4>3, <5>3 DEF TablesOK
      <4> QED
        BY <2>6, <4>4, <4>5
    <3>4. spills \subseteq spills'
      BY <1>1, <1>2, RequestBounds
    <3> QED
      BY <2>1, <2>3, <3>1, <3>2, <3>3, <3>4
  <2>7. CASE SkipFile(r) \/ StoreFileFails(r) \/ RequestDies(r)
    BY <2>3, <2>7 DEF SkipFile, StoreFileFails, RequestDies, Spill
  <2>8. CASE CreateKb(r) \/ AddRow(r) \/ StoreFile(r) \/ AttachSource(r)
    <3>1. source' = source
      BY <2>8 DEF CreateKb, AddRow, StoreFile, AttachSource, dbVars
    <3>2. /\ Proceeds(r) /\ Others(r) /\ SameSources(q, s)
          /\ \/ q.at = "kb" /\ s.at = (IF q.moodle # None THEN "link-moodle" ELSE "link-files")
             \/ q.at \in {"upload", "store"} /\ s.at \in {"store", "mark"}
             \/ q.at = "link-source" /\ s.at = "upload"
      BY <1>1, <2>8, CreateKbShape, AddRowShape, StoreFileShape, AttachSourceShape DEF Proceeds
    <3>3. \A d \in Datasources : d \in SourcesOf(q) => d \in SourcesOf(s)
      BY <2>2, <3>2 DEF SourcesOf, HasSource, SameSources
    <3> QED
      BY <2>1, <3>1, <3>2, <3>3
  <2>9. CASE MarkUploaded(r) \/ CheckChatbot(r) \/ ReadSelection(r)
    <3>1. source' = source
      BY <2>9 DEF MarkUploaded, CheckChatbot, ReadSelection, dbVars
    <3>2. CASE Ended(r)
      <4>1. q.at # "idle" /\ s.at = "idle"
        BY <1>1, <2>9, <3>2, IdleFields DEF Ended, MarkUploaded, CheckChatbot, ReadSelection
      <4>2. "datasource" \in spills' \/ \E fields : Becomes(r, fields) /\ fields.at # "idle" /\ "at" \in DOMAIN fields
        BY <2>9 DEF MarkUploaded, CheckChatbot, ReadSelection, Spill
      <4>3. ASSUME NEW fields, Becomes(r, fields), fields.at # "idle", "at" \in DOMAIN fields PROVE FALSE
        <5>1. s = Updated(q, fields) /\ "at" \in DOMAIN q
          BY <1>1, <2>2, <4>3, BecomesStep DEF RequestOK, Idle
        <5> QED
          BY <4>1, <4>3, <5>1 DEF Updated
      <4> QED
        BY <2>3, <4>2, <4>3
    <3>3. CASE ~ Ended(r)
      <4>2. /\ Proceeds(r) /\ Others(r) /\ SameSources(q, s)
            /\ \/ q.at = "mark" /\ s.at = "upload"
               \/ q.at = "attach" /\ s.at = "link-source"
               \/ q.at = "read-selection" /\ s.at = "append"
        BY <1>1, <2>9, <3>3, MarkUploadedShape, CheckChatbotShape, ReadSelectionShape
           DEF Proceeds
      <4>3. \A d \in Datasources : d \in SourcesOf(q) => d \in SourcesOf(s)
        BY <2>2, <4>2 DEF SourcesOf, HasSource, SameSources
      <4> QED
        BY <2>1, <3>1, <4>2, <4>3
    <3> QED
      BY <3>2, <3>3
  <2>10. CASE Uploaded(r)
    <3>1. source' = source /\ q.at = "upload" /\ q.todo = {} /\ spills' = spills
      BY <2>10 DEF Uploaded, dbVars
    <3>2. CASE q.stored = {}
      BY <2>2, <2>3, <3>1, <3>2 DEF Staged, HasSource
    <3>3. CASE q.stored # {}
      <4>1. \/ Becomes(r, [at |-> "read-selection"]) /\ q.op = "update"
            \/ Becomes(r, [at |-> "kb"])
        BY <2>10, <3>3 DEF Uploaded
      <4>2. /\ Others(r) /\ SameSources(q, s)
            /\ \/ s.at = "read-selection" /\ q.op = "update"
               \/ s.at = "kb"
        BY <1>1, <2>2, <4>1, BecomesStep, ToStage DEF RequestOK
      <4>3. q.op = "update" => Updates(q)
        BY <2>2, <3>1, IdleFields DEF RequestOK, Updates, Creates, Deletes, Replaces
      <4>4. \A d \in Datasources : d \in SourcesOf(q) => d \in SourcesOf(s)
        BY <2>2, <3>1, <4>2, <4>3 DEF SourcesOf, HasSource, SameSources, Staged
      <4> QED
        BY <2>1, <3>1, <4>2, <4>4
    <3> QED
      BY <3>2, <3>3
  <2>11. CASE AppendSelection(r)
    <3>1. source' = source /\ Ended(r) /\ Others(r) /\ q.at = "append"
      BY <1>1, <2>11, AppendSelectionShape DEF AppendSelection, Ended
    <3>2. \A d \in SourcesOf(q) : d = q.ds
      BY <3>1 DEF SourcesOf
    <3>3. link[q.ds] = None => "datasource" \in spills'
      BY <2>11 DEF AppendSelection, Spill
    <3> QED
      BY <2>1, <2>3, <3>1, <3>2, <3>3
  <2>12. CASE CreateChatbot(r) \/ ReadLinks(r) \/ ReapFiles(r) \/ FindLink(r) \/ DeleteAvatar(r)
              \/ WipePrefixes(r) \/ StoreImage(r) \/ CommitImage(r) \/ DeleteImage(r)
    <3>1. source' = source
      BY <2>12 DEF CreateChatbot, ReadLinks, ReapFiles, FindLink, DeleteAvatar, WipePrefixes,
         StoreImage,
         CommitImage, DeleteImage, dbVars
    <3>2. Others(r)
      BY <1>1, <2>12, CreateChatbotShape, ReadLinksShape, ReapFilesShape, FindLinkShape,
         DeleteAvatarShape,
         WipePrefixesShape, StoreImageShape, CommitImageShape, DeleteImageShape
         DEF Ended, Proceeds
    <3>3. SourcesOf(q) = {}
      BY <2>12 DEF CreateChatbot, ReadLinks, ReapFiles, FindLink, DeleteAvatar, WipePrefixes,
         StoreImage,
         CommitImage, DeleteImage, SourcesOf, HasSource
    <3> QED
      BY <2>1, <3>1, <3>2, <3>3
  <2>13. CASE DropFiles(r) \/ DeleteKb(r)
    <3>1. Others(r)
      BY <1>1, <2>13, DropFilesShape, DeleteKbShape DEF Ended, Proceeds
    <3>2. SourcesOf(q) = {}
      BY <2>13 DEF DropFiles, DeleteKb, SourcesOf, HasSource
    <3>3. \A d \in FreshSources : ~ Exists(d)'
      BY <1>1, <1>2, <2>13, SourcesHeld DEF FreshSources, Exists, DropFiles, DeleteKb
    <3> QED
      BY <1>1, <1>2, <3>1, <3>2, <3>3, SourcesFrame
  <2> QED
    BY <1>2, <2>4, <2>5, <2>6, <2>7, <2>8, <2>9, <2>10, <2>11, <2>12, <2>13 DEF RequestStep
<1>3. CASE ApplyCleanup
  <2>1. request' = request /\ link' = link
    BY <1>3 DEF ApplyCleanup
  <2>2. \A d \in Datasources : Exists(d)' => Exists(d)
    BY <1>3 DEF ApplyCleanup, Exists
  <2>3. CASE spills \subseteq spills'
    BY <1>1, <2>1, <2>2, <2>3 DEF SourcesOK, SourcesOf, HasSource
  <2>4. CASE ~ (spills \subseteq spills')
    <3>1. /\ cleanup.sources = Unlinked
          /\ source' = [d \in Datasources |->
                          IF d \in cleanup.sources /\ Exists(d) THEN "deleted" ELSE source[d]]
      BY <1>1, <1>3, <2>4 DEF ApplyCleanup, PlanOK
    <3>2. \A d \in Datasources : Exists(d)' => link'[d] # None
      BY <2>1, <2>2, <3>1 DEF Unlinked, Exists
    <3> QED
      BY <3>2 DEF SourcesOK
  <2> QED
    BY <2>3, <2>4
<1>4. CASE PlanCleanup \/ DeleteOrphanObjects \/ UNCHANGED vars
  <2>1. UNCHANGED <<request, link, source>> /\ spills \subseteq spills'
    BY <1>4 DEF PlanCleanup, DeleteOrphanObjects, vars, dbVars, Spill
  <2> QED
    BY <1>1, <2>1 DEF SourcesOK, SourcesOf, HasSource, Exists
<1> QED
  BY <1>2, <1>3, <1>4 DEF Next

-----------------------------------------------------------------------------
(* Knowledge bases.                                                        *)

LEMMA KbsStep == LeakInv /\ [Next]_vars => KbsOK'
<1> SUFFICES ASSUME LeakInv, [Next]_vars PROVE KbsOK'
  OBVIOUS
<1>1. /\ ServedInv /\ ShapeOK /\ ShapeOK' /\ TablesOK /\ TablesOK' /\ BotsOK /\ KbsOK
      /\ \A p \in Requests : RequestOK(request[p])
  BY StepShape, ShapeTables DEF LeakInv, SelectionInv, ServedInv, ShapeOK, TypeOK, TablesOK
<1>2. ASSUME NEW r \in Requests, RequestStep(r) PROVE KbsOK'
  <2> DEFINE q == request[r]
             s == request'[r]
  <2>1. spills \subseteq spills'
    BY <1>1, <1>2, RequestBounds
  <2>2. Others(r)
    BY <1>1, <1>2, StepRuns, BeginCreateShape, BeginUpdateShape, BeginImageShape,
       DeleteChatbotShape,
       CreateChatbotShape DEF Runs, Ended, Proceeds
  \* A request that goes on creates or deletes the same chatbot.
  <2>3. ASSUME Proceeds(r), Creates(q) \/ Deletes(q)
        PROVE  s.bot = q.bot /\ (Creates(s) \/ Deletes(s))
    BY <1>1, <2>3 DEF Proceeds, Fixed, ShapeOK, RequestOK, Creates, Updates, Deletes, Replaces,
       Idle
  \* One that ends has no KB, or leaves it with its chatbot or in the accounts.
  <2>4. ASSUME Ended(r), Creates(q) \/ Deletes(q), "kb" \notin spills', q.bot \in kb'
        PROVE  chatbot'[q.bot] = "live"
    <3>1. ~ Proceeds(r)
      BY <2>4, IdleFields DEF Ended, Proceeds, Fixed, Creates, Deletes
    <3>2. CASE CreateChatbot(r)
      BY <1>1, <2>4, <3>2 DEF CreateChatbot, TablesOK
    <3>3. CASE CreateMoodleSource(r) \/ StoreFileFails(r) \/ MarkUploaded(r) \/ Uploaded(r)
      <4>1. /\ q.at \in {"moodle", "store", "mark", "upload"}
            /\ ~ CreateKb(r) /\ ~ DeleteKb(r)
        BY <3>3 DEF CreateMoodleSource, StoreFileFails, MarkUploaded, Uploaded, CreateKb,
           DeleteKb
      <4>2. Creates(q)
        BY <2>4, <4>1 DEF Deletes, DeleteStages
      <4>3. kb' = kb
        BY <1>2, <4>1, KbStep
      <4> QED
        BY <1>1, <2>1, <2>4, <4>1, <4>2, <4>3 DEF KbsOK
    <3>4. CASE DeleteKb(r) \/ RequestDies(r)
      BY <2>4, <3>4 DEF DeleteKb, RequestDies, Spill
    <3>5. CASE CreateFileSource(r) \/ CreateKb(r) \/ LinkMoodle(r) \/ LinkFiles(r) \/ SkipFile(r)
               \/ AddRow(r) \/ StoreFile(r) \/ DeleteAvatar(r) \/ WipePrefixes(r)
      BY <1>1, <3>1, <3>5, CreateFileSourceShape, CreateKbShape, LinkMoodleShape,
         LinkFilesShape,
         SkipFileShape, AddRowShape, StoreFileShape, DeleteAvatarShape, WipePrefixesShape
    <3>6. CASE BeginCreate(r) \/ BeginUpdate(r) \/ BeginImage(r) \/ DeleteChatbot(r)
      BY <1>1, <2>4, <3>6, BeginCreateShape, BeginUpdateShape, BeginImageShape,
         DeleteChatbotShape,
         IdleFields DEF Creates, Deletes
    <3>7. CASE ReadLinks(r) \/ DropFiles(r) \/ ReapFiles(r) \/ FindLink(r) \/ CheckChatbot(r)
               \/ AttachSource(r) \/ ReadSelection(r) \/ AppendSelection(r)
      BY <1>1, <2>4, <3>7, ReadLinksShape, DropFilesShape, ReapFilesShape, FindLinkShape,
         CheckChatbotShape, AttachSourceShape, ReadSelectionShape, AppendSelectionShape
         DEF Creates, Deletes, Updates
    <3>8. CASE StoreImage(r) \/ CommitImage(r) \/ DeleteImage(r)
      BY <1>1, <2>4, <3>8, StoreImageShape, CommitImageShape, DeleteImageShape
         DEF Creates, Deletes, Replaces
    <3> QED
      BY <1>2, <3>2, <3>3, <3>4, <3>5, <3>6, <3>7, <3>8 DEF RequestStep
  <2>5. ASSUME "kb" \notin spills', NEW c \in kb'
        PROVE  \/ chatbot'[c] = "live"
               \/ \E p \in Requests : /\ request'[p].bot = c
                                      /\ Creates(request'[p]) \/ Deletes(request'[p])
    <3>1. CASE CreateKb(r) /\ c = q.bot
      <4>1. Proceeds(r) /\ Creates(q)
        BY <1>1, <3>1, CreateKbShape
      <4> QED
        BY <2>3, <3>1, <4>1
    <3>2. CASE ~ (CreateKb(r) /\ c = q.bot)
      <4>1. c \in kb /\ c \in Chatbots
        BY <1>1, <1>2, <2>5, <3>2, KbStep DEF CreateKb, DeleteKb, TablesOK
      <4>2. \/ chatbot[c] = "live"
            \/ \E p \in Requests : request[p].bot = c /\ (Creates(request[p]) \/ Deletes(request[p]))
        BY <1>1, <2>1, <2>5, <4>1 DEF KbsOK
      <4>3. CASE chatbot[c] = "live"
        <5>1. CASE DeleteChatbot(r)
          BY <1>1, <4>1, <4>3, <5>1, DeleteChatbotShape DEF TablesOK
        <5>2. CASE ~ DeleteChatbot(r)
          <6>1. CASE CreateChatbot(r)
            BY <1>1, <4>1, <4>3, <6>1 DEF CreateChatbot, TablesOK
          <6>2. CASE ~ CreateChatbot(r)
            <7>1. chatbot' = chatbot
              BY <1>1, <1>2, <5>2, <6>2, StepRuns DEF BeginCreate, BeginUpdate, BeginImage,
                 Begin, dbVars
            <7> QED
              BY <4>3, <7>1
          <6> QED
            BY <6>1, <6>2
        <5> QED
          BY <5>1, <5>2
      <4>4. ASSUME NEW p \in Requests, request[p].bot = c, Creates(request[p]) \/ Deletes(request[p])
            PROVE  \/ chatbot'[c] = "live"
                   \/ request'[p].bot = c /\ (Creates(request'[p]) \/ Deletes(request'[p]))
        <5>1. CASE p # r
          BY <2>2, <4>4, <5>1 DEF Others
        <5>2. CASE p = r /\ Ended(r)
          BY <2>4, <2>5, <4>4, <5>2
        <5>3. CASE p = r /\ Proceeds(r)
          BY <2>3, <4>4, <5>3
        <5>4. CASE p = r /\ ~ Runs(r)
          <6>1. q # Idle
            BY <4>4, <5>4, IdleFields DEF Creates, Deletes
          <6> QED
            BY <1>1, <1>2, <5>4, <6>1, StepRuns, CreateChatbotShape, BeginCreateShape,
               BeginUpdateShape,
               BeginImageShape, DeleteChatbotShape DEF Runs
        <5> QED
          BY <5>1, <5>2, <5>3, <5>4 DEF Runs
      <4> QED
        BY <4>2, <4>3, <4>4
    <3> QED
      BY <3>1, <3>2
  <2>6. ASSUME "kb" \notin spills', NEW p \in Requests, Creates(request'[p]),
               request'[p].at \notin {"link-moodle", "link-files", "chatbot"}
        PROVE  request'[p].bot \notin kb'
    <3>1. CASE BeginCreate(r) /\ p = r
      <4>1. chatbot[s.bot] = "absent" /\ \A x \in Requests : request[x].bot # s.bot
        BY <1>1, <3>1, BeginCreateShape
      <4>2. s.bot \notin kb
        BY <1>1, <2>1, <2>6, <4>1 DEF KbsOK
      <4> QED
        BY <3>1, <4>2 DEF BeginCreate, Begin, dbVars
    <3>2. CASE ~ (BeginCreate(r) /\ p = r)
      <4>1. /\ Creates(request[p]) /\ request'[p].bot = request[p].bot
            /\ request[p].at \notin {"link-moodle", "link-files", "chatbot"}
            /\ ~ (CreateKb(r) /\ p = r)
        <5>1. CASE p # r
          BY <2>2, <2>6, <5>1 DEF Others
        <5>2. CASE p = r
          <6>1. ~ BeginUpdate(r) /\ ~ BeginImage(r) /\ ~ DeleteChatbot(r) /\ s # Idle
            BY <1>1, <2>6, <5>2, IdleFields, BeginUpdateShape, BeginImageShape,
               DeleteChatbotShape
               DEF Creates, Updates, Replaces, Deletes
          <6>2. Runs(r)
            BY <1>1, <1>2, <3>2, <5>2, <6>1, StepRuns, CreateChatbotShape DEF Runs
          <6>3. Proceeds(r) /\ Creates(q) /\ s.bot = q.bot
            BY <1>1, <2>6, <5>2, <6>1, <6>2, SameOperation DEF Runs, Ended
          <6>4. CASE q.at \in {"kb", "link-moodle", "link-files", "chatbot"}
            <7>1. CreateKb(r) \/ LinkMoodle(r) \/ LinkFiles(r) \/ CreateChatbot(r)
              <8>1. ~ RequestDies(r)
                BY <1>1, <6>1, RequestDiesShape DEF Ended
              <8>2. q # Idle
                BY <6>3, IdleFields DEF Creates
              <8> QED
                BY <1>2, <3>2, <5>2, <6>1, <6>4, <8>1, <8>2 DEF RequestStep, CreateMoodleSource,
                   CreateFileSource, SkipFile, AddRow, StoreFile, StoreFileFails, MarkUploaded,
                   Uploaded,
                   ReadLinks, DropFiles, ReapFiles, FindLink, CheckChatbot, AttachSource,
                   ReadSelection,
                   AppendSelection, DeleteAvatar, WipePrefixes, DeleteKb, StoreImage,
                   CommitImage,
                   DeleteImage
            <7> QED
              BY <1>1, <2>6, <5>2, <6>1, <7>1, CreateKbShape, LinkMoodleShape, LinkFilesShape,
                 CreateChatbotShape DEF Ended
          <6>5. CASE q.at \notin {"kb", "link-moodle", "link-files", "chatbot"}
            BY <5>2, <6>3, <6>5 DEF CreateKb
          <6> QED
            BY <6>4, <6>5
        <5> QED
          BY <5>1, <5>2
      <4>2. request[p].bot \notin kb
        BY <1>1, <2>1, <2>6, <4>1 DEF KbsOK
      <4>3. CASE CreateKb(r)
        <5>1. q.bot # request[p].bot
          BY <1>1, <4>1, <4>3, CreateKbShape DEF BotsOK
        <5> QED
          BY <4>1, <4>2, <4>3, <5>1 DEF CreateKb
      <4>4. CASE ~ CreateKb(r)
        BY <1>2, <4>1, <4>2, <4>4, KbStep DEF DeleteKb
      <4> QED
        BY <4>3, <4>4
    <3> QED
      BY <3>1, <3>2
  <2> QED
    BY <2>5, <2>6 DEF KbsOK, Creates, Deletes
<1>3. CASE PlanCleanup \/ ApplyCleanup \/ DeleteOrphanObjects \/ UNCHANGED vars
  <2>1. UNCHANGED <<request, kb, chatbot>> /\ ("kb" \in spills => "kb" \in spills')
    BY <1>3 DEF PlanCleanup, ApplyCleanup, DeleteOrphanObjects, vars, dbVars, Spill
  <2> QED
    BY <1>1, <2>1 DEF KbsOK, Creates, Deletes
<1> QED
  BY <1>2, <1>3 DEF Next

-----------------------------------------------------------------------------
(* Rows that nothing selects.                                              *)

\* A selected file stays selected as long as it has a row, but for the accounts.
LEMMA SelectionKept ==
  ASSUME LeakInv, NEW r \in Requests, RequestStep(r), "row" \notin spills',
         NEW d \in Datasources, NEW f \in Selected(d), HasRow(f)'
  PROVE  f \in Selected(d)'
<1> DEFINE q == request[r]
<1>1. /\ ServedInv /\ ShapeOK /\ TablesOK /\ KeptOK /\ PendingOK /\ RequestOK(q)
  BY ShapeTables DEF LeakInv, SelectionInv, ServedInv, ShapeOK
<1>2. /\ link[d] # None /\ f \in link[d].selection
      /\ link[d] \in [kb : kb, selection : SUBSET Files]
  BY <1>1 DEF Selected, TablesOK
<1>3. f \in Files /\ home[f] = d /\ d # None
  BY <1>1, <1>2, NoneIsNothing DEF KeptOK, Kept
<1>4. CASE link'[d] = link[d]
  BY <1>4 DEF Selected
<1>5. CASE link'[d] # link[d] /\ (LinkMoodle(r) \/ LinkFiles(r) \/ AttachSource(r))
  <2>1. \/ LinkMoodle(r) /\ q.at = "link-moodle" /\ Creates(q)
        \/ LinkFiles(r) /\ q.at = "link-files" /\ Creates(q)
        \/ AttachSource(r) /\ q.at = "link-source"
    BY <1>1, <1>5, LinkMoodleShape, LinkFilesShape, AttachSourceShape
  <2>2. link' # link
    BY <1>5
  <2>3. \/ LinkMoodle(r) /\ q.moodle \in Datasources /\ link' = [link EXCEPT ![q.moodle] = [kb |-> q.bot, selection |-> {}]]
        \/ /\ LinkFiles(r) \/ AttachSource(r)
           /\ q.ds \in Datasources
           /\ \E selection : link' = [link EXCEPT ![q.ds] = [kb |-> q.bot, selection |-> selection]]
    BY <1>1, <2>1, <2>2 DEF LinkMoodle, LinkFiles, AttachSource, Linked, RequestOK
  <2>4. \/ LinkMoodle(r) /\ d = q.moodle
        \/ (LinkFiles(r) \/ AttachSource(r)) /\ d = q.ds
    BY <1>1, <1>5, <2>3 DEF TablesOK
  <2>5. d \in Pending(q)
    BY <2>1, <2>4 DEF Pending, LinkMoodle, LinkFiles, AttachSource
  <2> QED
    BY <1>1, <1>2, <2>5 DEF PendingOK
<1>6. CASE link'[d] # link[d] /\ DropFiles(r)
  <2>1. /\ q.at = "drop"
        /\ link' = [x \in Datasources |->
                      IF x \in Emptied(q) THEN None
                      ELSE IF x \in Touched(q)
                           THEN [link[x] EXCEPT !.selection = q.seen[x] \ q.drop]
                           ELSE link[x]]
        /\ row' = [g \in Files |-> IF g \in Gone(q) THEN "deleted" ELSE row[g]]
        /\ spills' = (IF \E x \in Touched(q) : q.seen[x] # Selected(x)
                      THEN spills \union {"selection", "row"} ELSE spills)
    BY <1>1, <1>6, DropFilesShape
  <2>2. d \in Touched(q)
    BY <1>6, <2>1 DEF Emptied, Touched, RemovedSources
  <2>3. q.seen[d] = Selected(d) /\ f \in q.seen[d]
    BY <2>1, <2>2
  <2>4. f \notin Gone(q)
    BY <1>3, <2>1 DEF HasRow
  <2>5. HasRow(f)
    BY <1>3, <2>1, <2>4 DEF HasRow
  <2>6. f \notin q.drop
    BY <2>2, <2>3, <2>4, <2>5 DEF Gone
  <2>7. d \notin Emptied(q)
    BY <2>3, <2>6 DEF Emptied, RemovedSources
  <2>8. link'[d] = [link[d] EXCEPT !.selection = q.seen[d] \ q.drop]
    BY <2>1, <2>2, <2>7
  <2>9. f \in link'[d].selection
    BY <1>2, <2>3, <2>6, <2>8
  <2>10. link'[d] # None
    <3>1. link'[d] \in [kb : Chatbots, selection : SUBSET Files]
      BY <1>1, <1>2, <2>1, <2>2, <2>8 DEF TablesOK, RequestOK, Touched
    <3> QED
      BY <3>1, NoneIsNothing
  <2> QED
    BY <2>9, <2>10 DEF Selected
<1>7. CASE link'[d] # link[d] /\ AppendSelection(r)
  <2>1. /\ q.ds = d /\ q.seen = Selected(d)
        /\ link' = [link EXCEPT ![d] = [@ EXCEPT !.selection = q.seen \union q.stored]]
    BY <1>1, <1>2, <1>7 DEF AppendSelection, TablesOK, Spill
  <2>2. /\ link'[d] = [link[d] EXCEPT !.selection = q.seen \union q.stored]
        /\ q.seen \union q.stored \subseteq Files
    BY <1>1, <1>7, <2>1 DEF TablesOK, RequestOK, AppendSelection
  <2>3. link'[d] \in [kb : Chatbots, selection : SUBSET Files] /\ f \in link'[d].selection
    BY <1>1, <1>2, <2>1, <2>2 DEF TablesOK
  <2> QED
    BY <2>3, NoneIsNothing DEF Selected
<1>8. CASE link'[d] # link[d] /\ DeleteKb(r)
  <2>1. d \in q.drop /\ row' = [g \in Files |-> IF g \in RowsUnder(q.drop) THEN "deleted" ELSE row[g]]
    BY <1>8 DEF DeleteKb
  <2> QED
    BY <1>3, <2>1 DEF RowsUnder, HasRow
<1>9. ASSUME link' # link
      PROVE  \/ LinkMoodle(r) \/ LinkFiles(r) \/ AttachSource(r) \/ DropFiles(r) \/ AppendSelection(r)
             \/ DeleteKb(r)
  <2>1. CASE BeginCreate(r) \/ CreateMoodleSource(r) \/ CreateFileSource(r) \/ CreateKb(r) \/ CreateChatbot(r)
             \/ SkipFile(r) \/ AddRow(r) \/ StoreFile(r) \/ StoreFileFails(r) \/ MarkUploaded(r) \/ Uploaded(r)
    BY <1>9, <2>1 DEF BeginCreate, CreateMoodleSource, CreateFileSource, CreateKb,
       CreateChatbot, SkipFile,
       AddRow, StoreFile, StoreFileFails, MarkUploaded, Uploaded, Begin, dbVars
  <2>2. CASE BeginUpdate(r) \/ ReadLinks(r) \/ ReapFiles(r) \/ FindLink(r) \/ CheckChatbot(r) \/ ReadSelection(r)
             \/ DeleteChatbot(r) \/ DeleteAvatar(r) \/ WipePrefixes(r) \/ BeginImage(r) \/ StoreImage(r)
             \/ CommitImage(r) \/ DeleteImage(r) \/ RequestDies(r)
    BY <1>9, <2>2 DEF BeginUpdate, ReadLinks, ReapFiles, FindLink, CheckChatbot, ReadSelection,
       DeleteChatbot,
       DeleteAvatar, WipePrefixes, BeginImage, StoreImage, CommitImage, DeleteImage,
       RequestDies, Begin, dbVars
  <2> QED
    BY <2>1, <2>2 DEF RequestStep
<1> QED
  BY <1>4, <1>5, <1>6, <1>7, <1>8, <1>9

LEMMA RowsMade ==
  ASSUME ServedInv, NEW r \in Requests, RequestStep(r), NEW f \in Files, ~ HasRow(f), HasRow(f)'
  PROVE  f \in FilesOf(request'[r])
<1> DEFINE q == request[r]
           s == request'[r]
<1>1. /\ ShapeOK /\ TablesOK
  BY ShapeTables DEF ServedInv
<1>2. CASE AddRow(r)
  <2>1. PICK g \in q.todo : /\ row' = [row EXCEPT ![g] = "uploading"]
                            /\ Becomes(r, [at |-> "store", now |-> g])
    BY <1>2 DEF AddRow
  <2>2. f = g
    BY <1>1, <2>1 DEF HasRow, TablesOK
  <2>3. s = Updated(q, [at |-> "store", now |-> g]) /\ DOMAIN q = DOMAIN Idle
    BY <1>1, <2>1, BecomesStep DEF ShapeOK, RequestOK
  <2>4. s.now = f /\ s.at = "store"
    BY <2>2, <2>3 DEF Updated, Idle
  <2> QED
    BY <2>4 DEF FilesOf, Uploads
<1>3. CASE StoreFileFails(r) \/ MarkUploaded(r)
  BY <1>1, <1>3 DEF StoreFileFails, MarkUploaded, HasRow, TablesOK
<1>4. CASE ~ AddRow(r) /\ ~ StoreFileFails(r) /\ ~ MarkUploaded(r)
  BY <1>1, <1>4, RowsFallStep DEF RowsFall, HasRow
<1> QED
  BY <1>2, <1>3, <1>4

\* What a request stored it keeps, or a link selects it, but for the accounts.
LEMMA FilingKept ==
  ASSUME LeakInv, NEW r \in Requests, RequestStep(r), "row" \notin spills',
         NEW f \in FilesOf(request[r])
  PROVE  f \in FilesOf(request'[r]) \/ f \in AllSelected'
<1> DEFINE q == request[r]
           s == request'[r]
<1>1. /\ ServedInv /\ ShapeOK /\ TablesOK /\ Staged(q) /\ RequestOK(q) /\ RowsOK
  BY ShapeTables DEF LeakInv, SelectionInv, ServedInv, ShapeOK, StagesOK
<1>2. Filing(q) /\ (f \in q.stored \/ (Uploads(q) /\ f = q.now))
  BY DEF FilesOf, Filing, Uploads
<1>3. "row" \notin spills
  BY <1>1, RequestBounds
<1>4. ASSUME f \in q.stored, s.stored = q.stored, Filing(s) PROVE f \in FilesOf(s)
  BY <1>4 DEF FilesOf
<1>5. CASE CreateKb(r) \/ LinkMoodle(r) \/ SkipFile(r) \/ AddRow(r)
  <2>1. /\ q.at \in {"kb", "link-moodle", "upload"} /\ s.stored = q.stored
        /\ s.at \in {"link-moodle", "link-files", "upload", "store"}
    BY <1>1, <1>5, CreateKbShape, LinkMoodleShape, SkipFileShape, AddRowShape DEF SameFiles
  <2> QED
    BY <1>2, <1>4, <2>1 DEF Filing, Uploads
<1>6. CASE StoreFile(r)
  <2>1. s.stored = q.stored /\ s.now = q.now /\ s.at = "mark"
    BY <1>1, <1>6, StoreFileShape DEF SameFiles
  <2> QED
    BY <1>2, <2>1 DEF FilesOf, Filing, Uploads
<1>7. CASE MarkUploaded(r)
  <2>1. ~ Ended(r)
    <3>1. CASE Ended(r)
      <4>1. s.at = "idle" /\ HasRow(q.now) /\ "row" \notin spills'
        BY <1>7, <3>1, IdleFields DEF Ended, MarkUploaded, Spill
      <4>2. PICK fields : Becomes(r, fields) /\ fields.at = "upload" /\ "at" \in DOMAIN fields
        BY <1>7, <4>1 DEF MarkUploaded
      <4>3. s = Updated(q, fields) /\ "at" \in DOMAIN q
        BY <1>1, <4>2, BecomesStep DEF RequestOK, Idle
      <4> QED
        BY <4>1, <4>2, <4>3 DEF Updated
    <3> QED
      BY <3>1
  <2>2. s.stored = q.stored \union {q.now} /\ s.at = "upload"
    BY <1>1, <1>7, <2>1, MarkUploadedShape
  <2> QED
    BY <1>2, <2>2 DEF FilesOf, Filing
<1>8. CASE Uploaded(r)
  <2>1. q.at = "upload"
    BY <1>8 DEF Uploaded
  <2>2. f \in q.stored
    BY <1>2, <2>1 DEF Uploads
  <2>3. Becomes(r, [at |-> "read-selection"]) \/ Becomes(r, [at |-> "kb"])
    BY <1>8, <2>2 DEF Uploaded
  <2>4. s.stored = q.stored /\ s.at \in {"read-selection", "kb"}
    BY <1>1, <2>3, BecomesStep, ToStage DEF RequestOK, SameFiles
  <2> QED
    BY <1>4, <2>2, <2>4 DEF Filing
<1>9. CASE LinkFiles(r)
  <2>1. q.at = "link-files" /\ Creates(q)
    BY <1>1, <1>9, LinkFilesShape
  <2>2. f \in q.stored /\ q.ds \in Datasources /\ q.bot \in kb
    BY <1>1, <1>2, <2>1 DEF Uploads, RequestOK, Staged
  <2>3. Exists(q.ds) /\ q.ds # None
    BY <1>1, <1>3, <2>1, <2>2, NoneIsNothing DEF RowsOK
  <2>4. link' = [link EXCEPT ![q.ds] = [kb |-> q.bot, selection |-> q.stored]]
    BY <1>9, <2>2, <2>3 DEF LinkFiles, Linked
  <2>5. [kb |-> q.bot, selection |-> q.stored] \in [kb : Chatbots, selection : SUBSET Files]
    BY <1>1, <2>2 DEF RequestOK, TablesOK
  <2>6. PICK d \in Datasources : d = q.ds
    BY <2>2
  <2>7. link'[d] # None /\ f \in link'[d].selection
    BY <1>1, <2>2, <2>4, <2>5, <2>6, NoneIsNothing DEF TablesOK
  <2> QED
    BY <2>7 DEF Selected, AllSelected
<1>10. CASE ReadSelection(r)
  <2>1. link[q.ds] # None /\ Becomes(r, [at |-> "append", seen |-> Selected(q.ds)]) /\ q.at = "read-selection"
    BY <1>10 DEF ReadSelection, Spill
  <2>2. s = Updated(q, [at |-> "append", seen |-> Selected(q.ds)])
    BY <1>1, <2>1, BecomesStep
  <2>3. s.stored = q.stored /\ s.at = "append"
    BY <1>1, <2>2 DEF Updated, RequestOK, Idle
  <2> QED
    BY <1>2, <1>4, <2>1, <2>3 DEF Filing, Uploads
<1>11. CASE AppendSelection(r)
  <2>1. /\ q.at = "append" /\ link[q.ds] # None
        /\ link' = [link EXCEPT ![q.ds] = [@ EXCEPT !.selection = q.seen \union q.stored]]
    BY <1>11 DEF AppendSelection, Spill
  <2>2. q.ds \in Datasources /\ f \in q.stored /\ q.seen \union q.stored \subseteq Files
    BY <1>1, <1>2, <2>1 DEF Uploads, RequestOK, HasSource
  <2>3. PICK d \in Datasources : d = q.ds
    BY <2>2
  <2>4. link[d] \in [kb : Chatbots, selection : SUBSET Files]
    BY <1>1, <2>1, <2>3 DEF TablesOK
  <2>5. link'[d] = [link[d] EXCEPT !.selection = q.seen \union q.stored]
    BY <1>1, <2>1, <2>3 DEF TablesOK
  <2>6. link'[d] # None /\ f \in link'[d].selection
    BY <2>2, <2>4, <2>5, NoneIsNothing
  <2> QED
    BY <2>6 DEF Selected, AllSelected
<1>12. CASE StoreFileFails(r) \/ RequestDies(r)
  BY <1>12 DEF StoreFileFails, RequestDies, Spill
<1>13. CASE BeginCreate(r) \/ BeginUpdate(r) \/ BeginImage(r) \/ DeleteChatbot(r)
  BY <1>1, <1>2, <1>13, BeginCreateShape, BeginUpdateShape, BeginImageShape,
     DeleteChatbotShape, IdleFields
     DEF Filing
<1>14. CASE CreateMoodleSource(r) \/ CreateFileSource(r) \/ CreateChatbot(r) \/ ReadLinks(r) \/ DropFiles(r)
            \/ ReapFiles(r) \/ FindLink(r) \/ CheckChatbot(r) \/ AttachSource(r) \/ DeleteAvatar(r)
            \/ WipePrefixes(r) \/ DeleteKb(r) \/ StoreImage(r) \/ CommitImage(r) \/ DeleteImage(r)
  BY <1>2, <1>14 DEF Filing, CreateMoodleSource, CreateFileSource, CreateChatbot, ReadLinks,
     DropFiles,
     ReapFiles, FindLink, CheckChatbot, AttachSource, DeleteAvatar, WipePrefixes, DeleteKb,
     StoreImage,
     CommitImage, DeleteImage
<1> QED
  BY <1>5, <1>6, <1>7, <1>8, <1>9, <1>10, <1>11, <1>12, <1>13, <1>14 DEF RequestStep

LEMMA CreatorSources ==
  ASSUME LeakInv, NEW r \in Requests, RequestStep(r), "row" \notin spills',
         NEW p \in Requests, Creates(request'[p]), request'[p].ds # None
  PROVE  source'[request'[p].ds] \in {"file", "moodle"}
<1> DEFINE q == request[r]
           s == request'[r]
           d == request'[p].ds
<1>1. /\ ServedInv /\ ShapeOK /\ ShapeOK' /\ TablesOK /\ BotsOK /\ ClaimsOK /\ RowsOK
      /\ \A x \in Requests : RequestOK(request[x]) /\ RequestOK(request'[x])
  BY StepShape, ShapeTables DEF LeakInv, SelectionInv, ServedInv, ShapeOK, Next
<1>2. "row" \notin spills /\ d \in Datasources
  BY <1>1, RequestBounds DEF RequestOK
<1>3. ASSUME Creates(request[p]), request[p].ds = d PROVE source'[d] \in {"file", "moodle"}
  <2>1. Exists(d)
    BY <1>1, <1>2, <1>3 DEF RowsOK
  <2>2. CASE source'[d] = source[d]
    BY <2>1, <2>2 DEF Exists
  <2>3. CASE source'[d] # source[d]
    <3>1. Holds(q, d) /\ (DropFiles(r) \/ DeleteKb(r))
      BY <1>1, <1>2, <2>1, <2>3, SourcesHeld DEF Exists
    <3>2. q # Idle /\ ~ Creates(q)
      BY <1>1, <3>1, DropFilesShape, DeleteKbShape, IdleFields DEF Creates, Updates, Deletes
    <3>3. p # r /\ request[p] # Idle /\ Holds(request[p], d)
      BY <1>3, <3>2, IdleFields DEF Creates, Holds
    <3>4. q.bot \in Claims(d) /\ request[p].bot \in Claims(d)
      BY <1>1, <1>2, <3>1, <3>2, <3>3, HeldIsClaimed
    <3>5. q.bot # request[p].bot
      BY <1>1, <1>3, <3>3 DEF BotsOK
    <3> QED
      BY <1>1, <1>2, <3>4, <3>5 DEF ClaimsOK
  <2> QED
    BY <2>2, <2>3
<1>4. CASE p # r
  <2>1. request'[p] = request[p]
    BY <1>1, <1>4, StepRuns, BeginCreateShape, BeginUpdateShape, BeginImageShape,
       DeleteChatbotShape,
       CreateChatbotShape DEF Runs, Ended, Proceeds, Others
  <2> QED
    BY <1>3, <2>1
<1>5. CASE p = r /\ CreateFileSource(r)
  <2>1. s.ds \in FreshSources /\ source' = [source EXCEPT ![s.ds] = "file"]
    BY <1>1, <1>5, CreateFileSourceShape
  <2> QED
    BY <1>1, <1>5, <2>1 DEF Exists, FreshSources, TablesOK
<1>6. CASE p = r /\ ~ CreateFileSource(r)
  <2>1. ~ BeginCreate(r) /\ ~ BeginUpdate(r) /\ ~ BeginImage(r) /\ ~ DeleteChatbot(r) /\ ~ Ended(r)
    BY <1>1, <1>6, BeginCreateShape, BeginUpdateShape, BeginImageShape, DeleteChatbotShape,
       IdleFields
       DEF Ended
  <2>2. Proceeds(r)
    BY <1>1, <2>1, StepRuns, CreateChatbotShape DEF Runs
  <2>3. Creates(q)
    BY <1>1, <1>6, <2>2, SameOperation DEF Runs
  <2>4. s.ds = q.ds
    <3>1. CASE CreateMoodleSource(r) \/ CreateKb(r) \/ LinkMoodle(r) \/ LinkFiles(r) \/ CreateChatbot(r)
               \/ SkipFile(r) \/ AddRow(r) \/ StoreFile(r) \/ StoreFileFails(r) \/ MarkUploaded(r) \/ Uploaded(r)
               \/ RequestDies(r)
      BY <1>1, <2>1, <3>1, CreateMoodleSourceShape, CreateKbShape, LinkMoodleShape,
         LinkFilesShape,
         CreateChatbotShape, SkipFileShape, AddRowShape, StoreFileShape, StoreFileFailsShape,
         MarkUploadedShape, UploadedShape, RequestDiesShape DEF SameSources
    <3>2. CASE ReadLinks(r) \/ DropFiles(r) \/ ReapFiles(r) \/ FindLink(r) \/ CheckChatbot(r)
               \/ AttachSource(r) \/ ReadSelection(r) \/ AppendSelection(r)
      BY <1>1, <2>3, <3>2, ReadLinksShape, DropFilesShape, ReapFilesShape, FindLinkShape,
         CheckChatbotShape, AttachSourceShape, ReadSelectionShape, AppendSelectionShape
         DEF Creates, Updates
    <3>3. CASE DeleteAvatar(r) \/ WipePrefixes(r) \/ DeleteKb(r) \/ StoreImage(r) \/ CommitImage(r)
               \/ DeleteImage(r)
      BY <1>1, <2>3, <3>3, DeleteAvatarShape, WipePrefixesShape, DeleteKbShape, StoreImageShape,
         CommitImageShape, DeleteImageShape DEF Creates, Deletes, Replaces
    <3> QED
      BY <1>6, <2>1, <3>1, <3>2, <3>3 DEF RequestStep
  <2> QED
    BY <1>3, <1>6, <2>3, <2>4
<1> QED
  BY <1>4, <1>5, <1>6

LEMMA RowsStep == LeakInv /\ [Next]_vars => RowsOK'
<1> SUFFICES ASSUME LeakInv, [Next]_vars PROVE RowsOK'
  OBVIOUS
<1>1. ServedInv /\ ShapeOK /\ RowsOK /\ PlanOK /\ TablesOK
  BY ShapeTables DEF LeakInv, SelectionInv, ServedInv
<1>2. ASSUME NEW r \in Requests, RequestStep(r) PROVE RowsOK'
  <2>1. spills \subseteq spills' /\ Others(r)
    BY <1>1, <1>2, RequestBounds, StepRuns, BeginCreateShape, BeginUpdateShape, BeginImageShape,
       DeleteChatbotShape, CreateChatbotShape DEF Runs, Ended, Proceeds
  <2>2. ASSUME "row" \notin spills', NEW f \in Files, HasRow(f)'
        PROVE  f \in AllSelected' \/ \E p \in Requests : f \in FilesOf(request'[p])
    <3>1. CASE ~ HasRow(f)
      BY <1>1, <1>2, <2>2, <3>1, RowsMade
    <3>2. CASE f \in AllSelected
      <4>1. PICK d \in Datasources : f \in Selected(d)
        BY <3>2 DEF AllSelected
      <4>2. f \in Selected(d)'
        BY <1>2, <2>2, <4>1, SelectionKept
      <4> QED
        BY <4>2 DEF AllSelected
    <3>3. ASSUME NEW p \in Requests, f \in FilesOf(request[p])
          PROVE  f \in AllSelected' \/ \E x \in Requests : f \in FilesOf(request'[x])
      <4>1. CASE p = r
        BY <1>2, <2>2, <3>3, <4>1, FilingKept
      <4>2. CASE p # r
        <5>1. request'[p] = request[p]
          BY <2>1, <4>2 DEF Others
        <5>2. f \in FilesOf(request'[p])
          BY <3>3, <5>1 DEF FilesOf, Filing, Uploads
        <5> QED
          BY <5>2
      <4> QED
        BY <4>1, <4>2
    <3> QED
      BY <1>1, <2>1, <2>2, <3>1, <3>2, <3>3 DEF RowsOK
  <2>3. ASSUME "row" \notin spills', NEW p \in Requests, Creates(request'[p]), request'[p].ds # None
        PROVE  source'[request'[p].ds] \in {"file", "moodle"}
    BY <1>2, <2>3, CreatorSources
  <2> QED
    BY <2>2, <2>3 DEF RowsOK, FilesOf, Filing, Uploads, Creates, Exists
<1>3. CASE ApplyCleanup
  <2>1. request' = request /\ link' = link
    BY <1>3 DEF ApplyCleanup
  <2>2. CASE UNCHANGED <<source, row, spills>>
    BY <1>1, <2>1, <2>2 DEF RowsOK, AllSelected, Selected, HasRow, Exists, FilesOf, Filing,
       Uploads, Creates
  <2>3. CASE ~ UNCHANGED <<source, row, spills>> /\ ~ (cleanup.alone /\ cleanup.since = started)
    BY <1>3, <2>3 DEF ApplyCleanup, RowsOK
  <2>4. CASE ~ UNCHANGED <<source, row, spills>> /\ cleanup.alone /\ cleanup.since = started
    <3>1. /\ cleanup.at = "planned"
          /\ row' = [f \in Files |->
                       IF f \in {g \in cleanup.files : HasRow(g)} \union RowsUnder(cleanup.sources)
                       THEN "deleted" ELSE row[f]]
      BY <1>3, <2>4 DEF ApplyCleanup
    <3>2. Busy = {} /\ cleanup.files = Unselected
      BY <1>1, <2>4, <3>1 DEF PlanOK
    <3>3. \A p \in Requests : ~ Creates(request'[p])
      BY <2>1, <3>2, IdleFields DEF Busy, Creates
    <3>4. \A f \in Files : HasRow(f)' => f \in AllSelected
      BY <3>1, <3>2 DEF HasRow, Unselected
    <3>5. AllSelected' = AllSelected
      BY <2>1 DEF AllSelected, Selected
    <3> QED
      BY <3>3, <3>4, <3>5 DEF RowsOK, Creates
  <2> QED
    BY <2>2, <2>3, <2>4
<1>4. CASE PlanCleanup \/ DeleteOrphanObjects \/ UNCHANGED vars
  <2>1. UNCHANGED <<request, link, source, row>> /\ spills \subseteq spills'
    BY <1>4 DEF PlanCleanup, DeleteOrphanObjects, vars, dbVars, Spill
  <2> QED
    BY <1>1, <2>1 DEF RowsOK, AllSelected, Selected, HasRow, Exists, FilesOf, Filing, Uploads,
       Creates
<1> QED
  BY <1>2, <1>3, <1>4 DEF Next

-----------------------------------------------------------------------------
(* Objects that nothing refers to.                                         *)

\* A row goes with the files taken off a selection, or with its chatbot.
LEMMA RowsGo ==
  ASSUME ServedInv, NEW r \in Requests, RequestStep(r), NEW f \in Files, HasRow(f), ~ HasRow(f)'
  PROVE  \/ DropFiles(r) /\ f \in ObjectsOf(request'[r])
         \/ DeleteKb(r) /\ f \in RowsUnder(request[r].drop) /\ ("object" \in spills' \/ f \notin objects)
<1> DEFINE q == request[r]
<1>1. ShapeOK /\ TablesOK
  BY ShapeTables DEF ServedInv
<1>2. row'[f] # row[f]
  BY DEF HasRow
<1>3. CASE AddRow(r) \/ StoreFileFails(r) \/ MarkUploaded(r)
  BY <1>1, <1>2, <1>3 DEF AddRow, StoreFileFails, MarkUploaded, TablesOK, HasRow
<1>4. CASE DropFiles(r)
  BY <1>1, <1>2, <1>4, DropFilesShape DEF ObjectsOf
<1>5. CASE DeleteKb(r)
  BY <1>2, <1>5 DEF DeleteKb, Spill
<1>6. CASE BeginCreate(r) \/ CreateMoodleSource(r) \/ CreateFileSource(r) \/ CreateKb(r) \/ CreateChatbot(r)
           \/ LinkMoodle(r) \/ LinkFiles(r) \/ SkipFile(r) \/ StoreFile(r) \/ Uploaded(r)
  BY <1>2, <1>6 DEF BeginCreate, CreateMoodleSource, CreateFileSource, CreateKb, CreateChatbot,
     LinkMoodle,
     LinkFiles, SkipFile, StoreFile, Uploaded, Begin, dbVars
<1>7. CASE BeginUpdate(r) \/ ReadLinks(r) \/ ReapFiles(r) \/ FindLink(r) \/ CheckChatbot(r)
           \/ ReadSelection(r) \/ DeleteChatbot(r) \/ DeleteAvatar(r) \/ WipePrefixes(r)
           \/ BeginImage(r) \/ StoreImage(r) \/ CommitImage(r) \/ DeleteImage(r) \/ RequestDies(r)
           \/ AttachSource(r) \/ AppendSelection(r)
  BY <1>2, <1>7 DEF BeginUpdate, ReadLinks, ReapFiles, FindLink, CheckChatbot, ReadSelection,
     DeleteChatbot, DeleteAvatar, WipePrefixes, BeginImage, StoreImage, CommitImage,
     DeleteImage, RequestDies,
     AttachSource, AppendSelection, Begin, dbVars
<1> QED
  BY <1>3, <1>4, <1>5, <1>6, <1>7 DEF RequestStep

\* An image goes off its chatbot by being replaced, or with it.
LEMMA ImagesGo ==
  ASSUME ServedInv, NEW r \in Requests, RequestStep(r), "object" \notin spills',
         NEW c \in Chatbots, chatbot[c] = "live", NEW o \in Shown(c)
  PROVE  \/ chatbot'[c] = "live" /\ o \in Shown(c)'
         \/ o \in ObjectsOf(request'[r])
<1> DEFINE q == request[r]
           s == request'[r]
<1>1. ShapeOK /\ TablesOK
  BY ShapeTables DEF ServedInv
<1>2. PICK k \in Kinds : o = image[c][k] /\ o # None
  BY DEF Shown
<1>3. CASE DeleteChatbot(r)
  <2>1. /\ s.at = "avatar" /\ s.old = image[s.bot]["avatar"]
        /\ chatbot' = [chatbot EXCEPT ![s.bot] = "deleted"] /\ image' = image
        /\ image[s.bot]["logo"] = None
    BY <1>1, <1>3, DeleteChatbotShape DEF DeleteChatbot
  <2>2. CASE c = s.bot
    <3>1. k = "avatar"
      BY <1>2, <2>1, <2>2 DEF Kinds
    <3> QED
      BY <1>2, <2>1, <2>2, <3>1 DEF ObjectsOf
  <2>3. CASE c # s.bot
    BY <1>1, <2>1, <2>3 DEF Shown, TablesOK
  <2> QED
    BY <2>2, <2>3
<1>4. CASE CommitImage(r)
  <2>1. /\ chatbot[q.bot] = "live" /\ chatbot' = chatbot /\ q.at = "commit-image"
        /\ image[q.bot][q.kind] = q.old
        /\ image' = (IF q.new = q.old THEN image ELSE [image EXCEPT ![q.bot][q.kind] = q.new])
        /\ Becomes(r, [at |-> "delete-image"])
    BY <1>4 DEF CommitImage, Spill
  <2>2. s.at = "delete-image" /\ s.old = q.old
    BY <1>1, <2>1, BecomesStep, ToStage DEF ShapeOK, RequestOK, Fixed
  <2>3. CASE c = q.bot /\ k = q.kind
    BY <1>2, <2>1, <2>2, <2>3 DEF ObjectsOf
  <2>4. CASE ~ (c = q.bot /\ k = q.kind)
    <3>1. image'[c][k] = image[c][k]
      BY <1>1, <2>1, <2>4 DEF TablesOK
    <3> QED
      BY <1>2, <2>1, <3>1 DEF Shown
  <2> QED
    BY <2>3, <2>4
<1>5. CASE ~ DeleteChatbot(r) /\ ~ CommitImage(r)
  <2>1. image' = image
    <3>1. CASE BeginCreate(r) \/ CreateMoodleSource(r) \/ CreateFileSource(r) \/ CreateKb(r) \/ CreateChatbot(r)
               \/ LinkMoodle(r) \/ LinkFiles(r) \/ SkipFile(r) \/ AddRow(r) \/ StoreFile(r)
               \/ StoreFileFails(r) \/ MarkUploaded(r) \/ Uploaded(r)
      BY <3>1 DEF BeginCreate, CreateMoodleSource, CreateFileSource, CreateKb, CreateChatbot,
         LinkMoodle,
         LinkFiles, SkipFile, AddRow, StoreFile, StoreFileFails, MarkUploaded, Uploaded, Begin,
         dbVars
    <3>2. CASE BeginUpdate(r) \/ ReadLinks(r) \/ DropFiles(r) \/ ReapFiles(r) \/ FindLink(r) \/ CheckChatbot(r)
               \/ ReadSelection(r) \/ DeleteAvatar(r) \/ WipePrefixes(r) \/ DeleteKb(r)
               \/ BeginImage(r) \/ StoreImage(r) \/ DeleteImage(r) \/ RequestDies(r)
               \/ AttachSource(r) \/ AppendSelection(r)
      BY <3>2 DEF BeginUpdate, ReadLinks, DropFiles, ReapFiles, FindLink, CheckChatbot,
         ReadSelection,
         DeleteAvatar, WipePrefixes, DeleteKb, BeginImage, StoreImage, DeleteImage, RequestDies,
         AttachSource, AppendSelection, Begin, dbVars
    <3> QED
      BY <1>5, <3>1, <3>2 DEF RequestStep
  <2>2. chatbot'[c] = "live"
    <3>1. CASE CreateChatbot(r)
      BY <1>1, <3>1 DEF CreateChatbot, TablesOK
    <3>2. CASE ~ CreateChatbot(r)
      BY <1>1, <1>5, <3>2, StepRuns DEF BeginCreate, BeginUpdate, BeginImage, Begin, dbVars
    <3> QED
      BY <3>1, <3>2
  <2> QED
    BY <2>1, <2>2 DEF Shown
<1> QED
  BY <1>3, <1>4, <1>5

\* An object that a request is about is shown, has a row or goes, but for the accounts.
LEMMA ObjectsGo ==
  ASSUME ServedInv, NEW r \in Requests, RequestStep(r), "object" \notin spills',
         NEW o \in ObjectsOf(request[r]), o # None, o \in objects'
  PROVE  \/ o \in Files /\ HasRow(o)'
         \/ \E c \in Chatbots : chatbot'[c] = "live" /\ o \in Shown(c)'
<1> DEFINE q == request[r]
<1>1. ShapeOK /\ TablesOK /\ ImagesOK /\ RequestOK(q)
  BY ShapeTables DEF ServedInv, ShapeOK
<1>2. /\ q.at \in {"mark", "reap", "avatar", "delete-image", "commit-image"}
      /\ q # Idle
  BY IdleFields DEF ObjectsOf
<1>3. MarkUploaded(r) \/ ReapFiles(r) \/ DeleteAvatar(r) \/ DeleteImage(r) \/ CommitImage(r)
  <2>1. ~ RequestDies(r)
    BY DEF RequestDies, Spill
  <2> QED
    BY <1>2, <2>1 DEF RequestStep, BeginCreate, BeginUpdate, BeginImage, Begin, DeleteChatbot,
       CreateMoodleSource, CreateFileSource, CreateKb, LinkMoodle, LinkFiles, CreateChatbot,
       SkipFile, AddRow,
       StoreFile, StoreFileFails, Uploaded, ReadLinks, DropFiles, FindLink, CheckChatbot,
       AttachSource,
       ReadSelection, AppendSelection, WipePrefixes, DeleteKb, StoreImage
<1>4. CASE MarkUploaded(r)
  <2>1. o = q.now /\ o \in Files
    BY <1>1, <1>4 DEF MarkUploaded, ObjectsOf, RequestOK, Uploads
  <2>2. row' = [row EXCEPT ![o] = "uploaded"]
    BY <1>4, <2>1 DEF MarkUploaded, Spill
  <2> QED
    BY <1>1, <2>1, <2>2 DEF HasRow, TablesOK
<1>5. CASE ReapFiles(r) \/ DeleteAvatar(r) \/ DeleteImage(r)
  BY <1>5 DEF ReapFiles, DeleteAvatar, DeleteImage, ObjectsOf, Spill
<1>6. CASE CommitImage(r)
  <2>1. /\ chatbot[q.bot] = "live" /\ chatbot' = chatbot /\ q.at = "commit-image"
        /\ image' = (IF q.new = q.old THEN image ELSE [image EXCEPT ![q.bot][q.kind] = q.new])
    BY <1>6 DEF CommitImage, Spill
  <2>2. o = q.new
    BY <2>1 DEF ObjectsOf
  <2>3. q.new # q.old
    BY <1>1, <2>1, <2>2 DEF ImagesOK, NewOK, Brings
  <2>4. q.bot \in Chatbots /\ q.kind \in Kinds
    BY <1>1, <1>2 DEF RequestOK
  <2>5. image'[q.bot][q.kind] = o
    BY <1>1, <2>1, <2>2, <2>3, <2>4 DEF TablesOK
  <2>6. o \in {image'[q.bot][k] : k \in Kinds} \ {None}
    BY <2>4, <2>5
  <2>7. PICK c \in Chatbots : c = q.bot
    BY <2>4
  <2>8. chatbot'[c] = "live" /\ o \in Shown(c)'
    BY <2>1, <2>6, <2>7 DEF Shown
  <2> QED
    BY <2>8
<1> QED
  BY <1>3, <1>4, <1>5, <1>6

\* An object comes with the request that stores it.
LEMMA ObjectsMade ==
  ASSUME ServedInv, NEW r \in Requests, RequestStep(r), NEW o \in objects', o \notin objects
  PROVE  o # None /\ o \in ObjectsOf(request'[r])
<1> DEFINE q == request[r]
           s == request'[r]
<1>1. ShapeOK /\ TablesOK /\ ImagesOK /\ RequestOK(q)
  BY ShapeTables DEF ServedInv, ShapeOK
<1>2. CASE StoreFile(r)
  <2>1. o = q.now /\ q.now \in Files
    BY <1>1, <1>2 DEF StoreFile, RequestOK, Uploads
  <2>2. s.at = "mark" /\ s.now = q.now
    BY <1>1, <1>2, StoreFileShape DEF SameFiles
  <2> QED
    BY <2>1, <2>2, NoneIsNothing DEF ObjectsOf
<1>3. CASE StoreImage(r)
  <2>1. o = q.new /\ Becomes(r, [at |-> "commit-image"]) /\ q.at = "store-image"
    BY <1>3 DEF StoreImage
  <2>2. s.at = "commit-image" /\ s.new = q.new
    BY <1>1, <2>1, BecomesStep, ToStage DEF RequestOK, Fixed
  <2>3. q.new # None
    BY <1>1, <2>1 DEF ImagesOK, NewOK
  <2> QED
    BY <2>1, <2>2, <2>3 DEF ObjectsOf
<1>4. CASE BeginCreate(r) \/ CreateMoodleSource(r) \/ CreateFileSource(r) \/ CreateKb(r) \/ CreateChatbot(r)
           \/ LinkMoodle(r) \/ LinkFiles(r) \/ SkipFile(r) \/ AddRow(r)
           \/ StoreFileFails(r) \/ MarkUploaded(r) \/ Uploaded(r)
  BY <1>4 DEF BeginCreate, CreateMoodleSource, CreateFileSource, CreateKb, CreateChatbot,
     LinkMoodle,
     LinkFiles, SkipFile, AddRow, StoreFileFails, MarkUploaded, Uploaded, Begin
<1>5. CASE BeginUpdate(r) \/ ReadLinks(r) \/ DropFiles(r) \/ ReapFiles(r) \/ FindLink(r) \/ CheckChatbot(r)
           \/ ReadSelection(r) \/ DeleteChatbot(r) \/ DeleteAvatar(r) \/ WipePrefixes(r) \/ DeleteKb(r)
           \/ BeginImage(r) \/ CommitImage(r) \/ DeleteImage(r) \/ RequestDies(r)
           \/ AttachSource(r) \/ AppendSelection(r)
  BY <1>5 DEF BeginUpdate, ReadLinks, DropFiles, ReapFiles, FindLink, CheckChatbot,
     ReadSelection,
     DeleteChatbot, DeleteAvatar, WipePrefixes, DeleteKb, BeginImage, CommitImage, DeleteImage,
     RequestDies,
     AttachSource, AppendSelection, Begin
<1> QED
  BY <1>2, <1>3, <1>4, <1>5 DEF RequestStep

LEMMA ObjectsStep == LeakInv /\ [Next]_vars => ObjectsOK'
<1> SUFFICES ASSUME LeakInv, [Next]_vars PROVE ObjectsOK'
  OBVIOUS
<1>1. /\ ServedInv /\ ShapeOK /\ ShapeOK' /\ TablesOK /\ ObjectsOK /\ KeptOK /\ CleanupOK
  BY StepShape, ShapeTables DEF LeakInv, SelectionInv, ServedInv, ShapeOK
<1>2. ASSUME NEW r \in Requests, RequestStep(r) PROVE ObjectsOK'
  <2>1. /\ spills \subseteq spills' /\ cleanup' = cleanup /\ Others(r) /\ Stable
    BY <1>1, <1>2, RequestBounds, StableStep, StepRuns, BeginCreateShape, BeginUpdateShape,
       BeginImageShape, DeleteChatbotShape, CreateChatbotShape DEF Runs, Ended, Proceeds, Next
  <2>2. None \notin objects'
    BY <1>1, <1>2, ObjectsMade DEF ObjectsOK
  <2>3. ASSUME NEW p \in Requests, NEW o \in ObjectsOf(request'[p]) PROVE Accounted(o)'
    BY <2>3 DEF Accounted, ObjectsOf
  <2>4. ASSUME NEW o, o \in Files /\ HasRow(o)' PROVE Accounted(o)'
    BY <2>4 DEF Accounted
  <2>5. ASSUME NEW o, NEW c \in Chatbots, chatbot'[c] = "live", o \in Shown(c)' PROVE Accounted(o)'
    BY <2>5 DEF Accounted
  <2>6. ASSUME "object" \notin spills', NEW o \in objects' PROVE Accounted(o)'
    <3>1. CASE o \notin objects
      BY <1>1, <1>2, <2>3, <2>6, <3>1, ObjectsMade
    <3>2. CASE o \in Files /\ HasRow(o) /\ o \in objects
      <4>1. CASE HasRow(o)'
        BY <2>4, <3>2, <4>1
      <4>2. CASE ~ HasRow(o)'
        BY <1>1, <1>2, <2>3, <2>6, <3>2, <4>2, RowsGo
      <4> QED
        BY <4>1, <4>2
    <3>3. ASSUME NEW c \in Chatbots, chatbot[c] = "live", o \in Shown(c) PROVE Accounted(o)'
      BY <1>1, <1>2, <2>3, <2>5, <2>6, <3>3, ImagesGo
    <3>4. ASSUME NEW p \in Requests, o \in ObjectsOf(request[p]), o \in objects PROVE Accounted(o)'
      <4>1. CASE p = r
        <5>1. o # None
          BY <1>1, <3>4 DEF ObjectsOK
        <5> QED
          BY <1>1, <1>2, <2>4, <2>5, <2>6, <3>4, <4>1, <5>1, ObjectsGo
      <4>2. CASE p # r
        <5>1. request'[p] = request[p]
          BY <2>1, <4>2 DEF Others
        <5>2. o \in ObjectsOf(request'[p])
          BY <3>4, <5>1 DEF ObjectsOf
        <5> QED
          BY <2>3, <5>2
      <4> QED
        BY <4>1, <4>2
    <3>5. CASE /\ cleanup.at = "objects" /\ o \in cleanup.files \union StoredUnder(cleanup.sources)
               /\ o \in objects
      <4>1. o \in Files
        BY <1>1, <3>5 DEF CleanupOK, StoredUnder
      <4>2. CASE row[o] = "absent" /\ row'[o] # "absent"
        <5>1. AddRow(r) \/ StoreFileFails(r) \/ MarkUploaded(r)
          BY <1>1, <1>2, <4>1, <4>2, RowsFallStep DEF RowsFall, HasRow
        <5>2. HasRow(o)'
          BY <1>1, <4>1, <4>2, <5>1 DEF AddRow, StoreFileFails, MarkUploaded, HasRow, TablesOK
        <5> QED
          BY <2>4, <4>1, <5>2
      <4>3. CASE ~ (row[o] = "absent" /\ row'[o] # "absent")
        <5>1. home'[o] = home[o]
          <6>1. CASE row[o] # "absent"
            BY <2>1, <4>1, <6>1 DEF Stable
          <6>2. CASE row[o] = "absent"
            <7>1. CASE AddRow(r)
              BY <1>1, <4>1, <4>3, <6>2, <7>1 DEF AddRow, TablesOK
            <7>2. CASE ~ AddRow(r) /\ ~ StoreFileFails(r) /\ ~ MarkUploaded(r)
              BY <1>1, <1>2, <7>2, RowsFallStep DEF RowsFall
            <7>3. CASE StoreFileFails(r) \/ MarkUploaded(r)
              BY <7>3 DEF StoreFileFails, MarkUploaded
            <7> QED
              BY <7>1, <7>2, <7>3
          <6> QED
            BY <6>1, <6>2
        <5> QED
          BY <2>1, <3>5, <5>1 DEF Accounted, StoredUnder
      <4> QED
        BY <4>2, <4>3
    <3> QED
      BY <1>1, <2>1, <2>6, <3>1, <3>2, <3>3, <3>4, <3>5 DEF ObjectsOK, Accounted
  <2> QED
    BY <2>2, <2>6 DEF ObjectsOK
<1>3. CASE PlanCleanup \/ ApplyCleanup
  <2>1. /\ UNCHANGED <<request, chatbot, image, home, objects>>
        /\ "object" \in spills => "object" \in spills'
        /\ cleanup.at # "objects"
    BY <1>3 DEF PlanCleanup, ApplyCleanup, NoRun, dbVars
  <2>2. ASSUME "object" \notin spills', NEW o \in objects PROVE Accounted(o)'
    <3>1. \/ o \in Files /\ HasRow(o)
          \/ \E c \in Chatbots : chatbot[c] = "live" /\ o \in Shown(c)
          \/ \E p \in Requests : o \in ObjectsOf(request[p])
      BY <1>1, <2>1, <2>2 DEF ObjectsOK, Accounted
    <3>2. CASE o \in Files /\ HasRow(o)
      <4>1. CASE row' = row
        BY <3>2, <4>1 DEF Accounted, HasRow
      <4>2. CASE row' # row
        <5>1. /\ row' = [f \in Files |->
                         IF f \in {g \in cleanup.files : HasRow(g)} \union RowsUnder(cleanup.sources)
                         THEN "deleted" ELSE row[f]]
              /\ cleanup' = [cleanup EXCEPT !.at = "objects"]
          BY <1>3, <4>2 DEF PlanCleanup, ApplyCleanup, dbVars
        <5>2. /\ cleanup'.at = "objects" /\ cleanup'.files = cleanup.files
              /\ cleanup'.sources = cleanup.sources
          BY <1>1, <5>1 DEF CleanupOK, NoRun
        <5>3. HasRow(o)' \/ o \in cleanup.files \/ home[o] \in cleanup.sources
          BY <3>2, <5>1 DEF HasRow, RowsUnder
        <5> QED
          BY <2>1, <3>2, <5>2, <5>3 DEF Accounted, StoredUnder
      <4> QED
        BY <4>1, <4>2
    <3>3. CASE \E c \in Chatbots : chatbot[c] = "live" /\ o \in Shown(c)
      BY <2>1, <3>3 DEF Accounted, Shown
    <3>4. CASE \E p \in Requests : o \in ObjectsOf(request[p])
      BY <2>1, <3>4 DEF Accounted, ObjectsOf
    <3> QED
      BY <3>1, <3>2, <3>3, <3>4
  <2> QED
    BY <1>1, <2>1, <2>2 DEF ObjectsOK
<1>4. CASE DeleteOrphanObjects
  <2>1. /\ UNCHANGED <<request, chatbot, image, home, row>>
        /\ objects' \subseteq objects
        /\ "object" \notin spills' =>
              /\ "object" \notin spills
              /\ objects' = objects \ (cleanup.files \union StoredUnder(cleanup.sources))
    BY <1>4 DEF DeleteOrphanObjects, dbVars, Spill
  <2>2. ASSUME "object" \notin spills', NEW o \in objects' PROVE Accounted(o)'
    <3>1. \/ o \in Files /\ HasRow(o)
          \/ \E c \in Chatbots : chatbot[c] = "live" /\ o \in Shown(c)
          \/ \E p \in Requests : o \in ObjectsOf(request[p])
      BY <1>1, <2>1, <2>2 DEF ObjectsOK, Accounted
    <3> QED
      BY <2>1, <3>1 DEF Accounted, HasRow, Shown, ObjectsOf
  <2> QED
    BY <1>1, <2>1, <2>2 DEF ObjectsOK
<1>5. CASE UNCHANGED vars
  BY <1>1, <1>5 DEF ObjectsOK, Accounted, HasRow, Shown, ObjectsOf, StoredUnder, vars, dbVars
<1> QED
  BY <1>2, <1>3, <1>4, <1>5 DEF Next

-----------------------------------------------------------------------------
LEMMA LeakInit == Init => LeakInv
<1> SUFFICES ASSUME Init PROVE LeakInv
  OBVIOUS
<1>1. \A r \in Requests : request[r] = Idle
  BY DEF Init
<1>2. StagesOK /\ PendingOK
  BY <1>1, IdleFields DEF StagesOK, Staged, PendingOK, Pending, Creates, Updates, HasSource
<1>3. RowsOK /\ SourcesOK /\ KbsOK /\ ObjectsOK
  BY <1>1, IdleFields DEF Init, RowsOK, SourcesOK, KbsOK, ObjectsOK, HasRow, Exists, Creates
<1> QED
  BY <1>2, <1>3, SelectionInit DEF LeakInv

LEMMA LeakStep == LeakInv /\ [Next]_vars => LeakInv'
  BY SelectionStep, StagesStep, PendingStep, RowsStep, SourcesStep, KbsStep, ObjectsStep
     DEF LeakInv

\* At rest every row, datasource, object and KB belongs to something, but for the kinds of
\* leftovers that a fault or an overlap has caused since the last cleanup that ran alone.
THEOREM LeftoversAreAccounted == Spec => []NothingLeaks
<1>1. LeakInv => NothingLeaks
  <2> SUFFICES ASSUME LeakInv, Busy = {}, cleanup = NoRun
               PROVE  /\ "row" \notin spills => Unselected = {}
                      /\ "datasource" \notin spills => Unlinked = {}
                      /\ "kb" \notin spills => \A c \in kb : chatbot[c] = "live"
                      /\ "object" \notin spills =>
                            \A o \in objects :
                               \/ o \in Files /\ HasRow(o)
                               \/ \E c \in Chatbots : chatbot[c] = "live" /\ o \in Shown(c)
    BY DEF NothingLeaks
  <2>1. /\ \A r \in Requests : request[r] = Idle
        /\ cleanup.at = "idle"
    BY DEF Busy, NoRun
  <2>2. /\ \A r \in Requests : FilesOf(request[r]) = {}
        /\ \A r \in Requests : SourcesOf(request[r]) = {}
        /\ \A r \in Requests : ObjectsOf(request[r]) = {}
        /\ \A r \in Requests : ~ Creates(request[r]) /\ ~ Deletes(request[r])
    BY <2>1, IdleFields DEF FilesOf, SourcesOf, ObjectsOf, Filing, Uploads, HasSource, Creates,
       Deletes
  <2>3. RowsOK /\ SourcesOK /\ KbsOK /\ ObjectsOK
    BY DEF LeakInv
  <2>4. "row" \notin spills => Unselected = {}
    BY <2>2, <2>3 DEF RowsOK, Unselected
  <2>5. "datasource" \notin spills => Unlinked = {}
    BY <2>2, <2>3 DEF SourcesOK, Unlinked
  <2>6. "kb" \notin spills => \A c \in kb : chatbot[c] = "live"
    BY <2>2, <2>3 DEF KbsOK
  <2>7. "object" \notin spills =>
           \A o \in objects : \/ o \in Files /\ HasRow(o)
                              \/ \E c \in Chatbots : chatbot[c] = "live" /\ o \in Shown(c)
    BY <2>1, <2>2, <2>3 DEF ObjectsOK, Accounted
  <2> QED
    BY <2>4, <2>5, <2>6, <2>7
<1> QED
  BY <1>1, LeakInit, LeakStep, PTL DEF Spec
=============================================================================
