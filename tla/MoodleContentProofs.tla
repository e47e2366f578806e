------------------------- MODULE MoodleContentProofs -------------------------
(***************************************************************************)
(* For any courses, items, edits and faults, and any number of workers of  *)
(* which no two sync the datasource at the same time: the manifest is      *)
(* never ahead of the objects, a course that a check lets pass is current, *)
(* only what Moodle no longer serves is pruned, and an ingestion that      *)
(* nothing disturbs collects what Moodle serves.                           *)
(*                                                                         *)
(* Three workers serve the queue, and nothing keeps two syncs of one       *)
(* datasource apart.  That none overlap is a hypothesis of the theorems,   *)
(* and so is, where it is needed, that no course's path begins with the    *)
(* path of another.                                                        *)
(***************************************************************************)
EXTENDS MoodleContent, TLAPS

\* No two workers sync the datasource at the same time.
OneAtATime ==
    \A v, w \in Workers : sync[v].phase # "idle" /\ sync[w].phase # "idle" => v = w

\* No other course's path begins with the path of a course.
PathsApart == \A c \in Courses : Under[c] = {c}

-----------------------------------------------------------------------------
(* The inductive invariant, worker by worker.                              *)

\* What a phase has left behind.
Shape(w) ==
    LET s == sync[w] IN
    /\ s.phase = "idle" => s = Idle
    /\ s.phase # "check" => s.todo = {}
    /\ s.phase = "collect" => s.fetch = {}
    /\ s.phase \in {"check", "export", "collect"} => s.current = {}
    /\ s.phase \in {"files", "texts", "list", "prune"} => \E c \in Courses : s.current = {c}
    /\ s.phase # "files" => s.held = {}
    /\ \A file, other \in s.held : file = other
    /\ s.phase \in {"files", "texts", "list"} => s.stale = {}

\* The order of versions: an object and its record are no newer than Moodle, a
\* record no newer than the object.
Ordered ==
    \A i \in Items :
        /\ objects[i] <= course[i]
        /\ manifest[i] <= course[i]
        /\ objects[i] # None => manifest[i] <= objects[i]

\* A download in hand keeps that order: what it may still put in storage is no
\* older than what is recorded, and what it will record is no newer than what it
\* has put there.
Downloads(w) ==
    LET s == sync[w] IN
    s.phase \in {"files", "texts"} =>
        /\ \A i \in Items : s.export[i] <= course[i]
        /\ \A i \in Items : s.export[i] # None => CourseOf[i] \in s.current /\ manifest[i] <= s.export[i]
        /\ \A i \in Items : s.got[i] # None => s.got[i] = s.export[i] /\ s.got[i] <= objects[i]
        /\ \A i \in s.left : s.export[i] # None
        /\ \A i \in Items, v \in Versions :
              <<i, v>> \in s.held => s.export[i] # None /\ s.export[i] <= v /\ v <= course[i]

\* What the export of the course in hand lacks has been removed upstream.
Prunes(w) ==
    LET s == sync[w] IN
    /\ s.phase \in {"files", "texts", "list"} =>
          \A i \in Items : CourseOf[i] \in s.current /\ s.export[i] = None /\ objects[i] # None
                              => course[i] = Removed
    /\ s.phase = "prune" =>
          \A i \in s.stale : CourseOf[i] \in s.current /\ (objects[i] # None => course[i] = Removed)

\* An item's object is what Moodle serves, and its record allows collecting it.
Mirrors(i) == objects[i] = Live(i) /\ manifest[i] = Live(i)
Mirrored(c) == \A i \in ItemsOf(c) \ Unhashed : objects[i] = Live(i) /\ (Live(i) # None => manifest[i] = Live(i))

Quiet(w) == sync[w].since = edits + faults

\* How far an undisturbed sync is.
Settled(w) == sync[w].selected \ (sync[w].todo \cup sync[w].fetch \cup sync[w].current)

Undisturbed(w) ==
    LET s == sync[w]
        exported == {i \in Items : CourseOf[i] \in s.current /\ Live(i) # None}
        stored(i) == objects[i] = Live(i) /\ s.got[i] = Live(i)
    IN
    /\ \A c \in Settled(w) : Mirrored(c)
    /\ s.phase \in {"files", "texts", "list"} =>
          \A i \in Items : CourseOf[i] \in s.current => s.export[i] = Live(i)
    /\ s.phase = "files" =>
          /\ \A i \in Items, v \in Versions : <<i, v>> \in s.held => v = Live(i)
          /\ \A i \in exported \ Texts : i \in s.left \/ <<i, Live(i)>> \in s.held \/ stored(i)
    /\ s.phase = "texts" => \A i \in exported : (i \in s.left /\ i \in Texts) \/ stored(i)
    /\ s.phase \in {"list", "prune"} => \A i \in exported : Mirrors(i)
    /\ s.phase = "prune" =>
          \A i \in Items : CourseOf[i] \in s.current /\ Live(i) = None /\ objects[i] # None
                              => i \in s.stale

OrderInv == Ordered /\ \A w \in Workers : Shape(w) /\ Downloads(w)

PruneInv == OrderInv /\ \A w \in Workers : Prunes(w)

QuietInv ==
    /\ PruneInv
    /\ \A w \in Workers : sync[w].since <= edits + faults
    /\ \A w \in Workers : Quiet(w) => Undisturbed(w)

-----------------------------------------------------------------------------
(* Types.                                                                  *)

LEMMA BoundsTyped ==
    /\ MaxVersion \in Nat /\ MaxVersion > 0
    /\ MaxEdits \in Nat /\ MaxFaults \in Nat
    /\ Removed \in Nat /\ Removed \notin Versions /\ Removed # None
    /\ Versions \subseteq Nat /\ Copies \subseteq Nat /\ None \notin Versions
  BY MoodleAssumption DEF Removed, Versions, Copies, None

\* What a worker becomes is well typed, and no other worker changes.
LEMMA BecomeTyped ==
  ASSUME sync \in [Workers -> Syncs], NEW w \in Workers, NEW s \in Syncs, Become(w, s)
  PROVE  /\ sync' \in [Workers -> Syncs]
         /\ sync'[w] = s
         /\ \A v \in Workers \ {w} : sync'[v] = sync[v]
  BY DEF Become

LEMMA IdleTyped == Idle \in Syncs
  BY DEF Idle, Syncs, Phases, Nothing, Copies

LEMMA AfterCheckTyped ==
  ASSUME NEW s \in Syncs
  PROVE  AfterCheck(s) \in Syncs
  BY DEF AfterCheck, Syncs, Phases

LEMMA AfterCourseTyped ==
  ASSUME NEW s \in Syncs
  PROVE  AfterCourse(s) \in Syncs
  BY IdleTyped DEF AfterCourse, Syncs, Phases

LEMMA LiveTyped ==
  ASSUME TypeOK, NEW i \in Items
  PROVE  /\ Live(i) \in Copies
         /\ Live(i) # None => Live(i) \in Versions
         /\ Live(i) <= course[i]
         /\ Live(i) # None => Live(i) = course[i]
         /\ Live(i) = None => course[i] \in {None, Removed}
  BY BoundsTyped DEF TypeOK, Live, Copies, Versions, Removed, None

LEMMA VersionsTyped ==
  ASSUME TypeOK
  PROVE  /\ \A i \in Items : course[i] \in Nat /\ objects[i] \in Nat /\ manifest[i] \in Nat
         /\ \A w \in Workers, i \in Items :
               sync[w].export[i] \in Nat /\ sync[w].got[i] \in Nat
<1>1. \A i \in Items : course[i] \in 0 .. Removed /\ objects[i] \in Copies /\ manifest[i] \in Copies
  BY DEF TypeOK
<1>2. \A w \in Workers, i \in Items : sync[w].export[i] \in Copies /\ sync[w].got[i] \in Copies
  BY DEF TypeOK, Syncs
<1>3. 0 .. Removed \subseteq Nat /\ Copies \subseteq Nat
  BY BoundsTyped
<1> QED
  BY <1>1, <1>2, <1>3

LEMMA FaultTyped ==
  ASSUME TypeOK, Fault
  PROVE  faults' \in 0 .. MaxFaults /\ faults' = faults + 1 /\ faults' # faults
  BY BoundsTyped DEF TypeOK, Fault

LEMMA TypeInit == Init => TypeOK
  BY BoundsTyped, IdleTyped, MoodleAssumption DEF Init, TypeOK, Nothing, Copies, None, Versions, Removed

LEMMA TypeStart ==
  ASSUME TypeOK, NEW w \in Workers, StartSync(w)
  PROVE  TypeOK'
<1>1. PICK ingest \in BOOLEAN, force \in BOOLEAN, chosen \in SUBSET Courses \ {{}} :
        Become(w, [Idle EXCEPT !.phase = IF ingest THEN "check" ELSE "export",
                               !.ingest = ingest,
                               !.force = force,
                               !.selected = chosen,
                               !.todo = IF ingest THEN chosen ELSE {},
                               !.fetch = IF ingest THEN {} ELSE chosen,
                               !.since = edits + faults])
  BY DEF StartSync
<1>2. edits + faults \in Nat
  BY BoundsTyped DEF TypeOK
<1>3. sync' \in [Workers -> Syncs]
  BY <1>1, <1>2, IdleTyped, BecomeTyped DEF TypeOK, Syncs, Phases
<1> QED
  BY <1>3 DEF StartSync, TypeOK

LEMMA TypeCheck ==
  ASSUME TypeOK, NEW w \in Workers, CheckCourse(w)
  PROVE  TypeOK'
<1>0. PICK c \in sync[w].todo :
        \E s \in {[sync[w] EXCEPT !.todo = @ \ {c}, !.fetch = @ \cup {c}],
                  [sync[w] EXCEPT !.todo = @ \ {c}]} : Become(w, AfterCheck(s))
  BY DEF CheckCourse
<1>1. PICK s \in {[sync[w] EXCEPT !.todo = @ \ {c}, !.fetch = @ \cup {c}],
                  [sync[w] EXCEPT !.todo = @ \ {c}]} : Become(w, AfterCheck(s))
  BY <1>0
<1>2. s \in Syncs
  <2>1. sync[w] \in Syncs
    BY DEF TypeOK
  <2>2. c \in Courses /\ sync[w].todo \ {c} \in SUBSET Courses
    BY <2>1 DEF Syncs
  <2>3. sync[w].fetch \cup {c} \in SUBSET Courses
    BY <2>1, <2>2 DEF Syncs
  <2> QED
    BY <1>1, <2>1, <2>2, <2>3 DEF Syncs
<1>3. sync' \in [Workers -> Syncs]
  BY <1>1, <1>2, AfterCheckTyped, BecomeTyped DEF TypeOK
<1>4. faults' \in 0 .. MaxFaults
  BY FaultTyped DEF CheckCourse, TypeOK
<1> QED
  BY <1>3, <1>4 DEF CheckCourse, TypeOK

LEMMA TypeExport ==
  ASSUME TypeOK, NEW w \in Workers, ExportCourse(w)
  PROVE  TypeOK'
<1>1. PICK c \in sync[w].fetch :
        LET export == [i \in Items |-> IF CourseOf[i] = c THEN Live(i) ELSE None]
            rest == [sync[w] EXCEPT !.fetch = @ \ {c}]
        IN  \/ Become(w, [rest EXCEPT !.phase = "files", !.current = {c}, !.export = export,
                                      !.left = {i \in Items \ Texts : export[i] # None},
                                      !.got = Nothing, !.denied = FALSE, !.stale = {}])
            \/ Become(w, AfterCourse(rest))
  BY DEF ExportCourse
<1>2. c \in Courses /\ [sync[w] EXCEPT !.fetch = @ \ {c}] \in Syncs
  BY DEF TypeOK, Syncs
<1>3. [i \in Items |-> IF CourseOf[i] = c THEN Live(i) ELSE None] \in [Items -> Copies]
  BY LiveTyped DEF Copies
<1>4. Nothing \in [Items -> Copies]
  BY DEF Nothing, Copies
<1>5. sync' \in [Workers -> Syncs]
  <2> DEFINE export == [i \in Items |-> IF CourseOf[i] = c THEN Live(i) ELSE None]
             rest == [sync[w] EXCEPT !.fetch = @ \ {c}]
             next == [rest EXCEPT !.phase = "files", !.current = {c}, !.export = export,
                                  !.left = {i \in Items \ Texts : export[i] # None},
                                  !.got = Nothing, !.denied = FALSE, !.stale = {}]
  <2>1. rest \in Syncs /\ export \in [Items -> Copies]
    BY <1>2, <1>3
  <2>2. {i \in Items \ Texts : export[i] # None} \in SUBSET Items
    OBVIOUS
  <2> HIDE DEF export, rest
  <2>3. next \in Syncs
    BY <1>2, <1>4, <2>1, <2>2 DEF Syncs, Phases
  <2>4. Become(w, next) \/ Become(w, AfterCourse(rest))
    BY <1>1 DEF export, rest
  <2> HIDE DEF next
  <2> QED
    BY <2>1, <2>3, <2>4, AfterCourseTyped, BecomeTyped DEF TypeOK
<1>6. faults' \in 0 .. MaxFaults
  BY FaultTyped DEF ExportCourse, TypeOK
<1> QED
  BY <1>5, <1>6 DEF ExportCourse, TypeOK

LEMMA TypeDownload ==
  ASSUME TypeOK, NEW w \in Workers, DownloadFile(w)
  PROVE  TypeOK'
<1>1. PICK i \in sync[w].left :
        \/ Become(w, [sync[w] EXCEPT !.left = @ \ {i},
                                     !.held = IF Live(i) # None THEN {<<i, Live(i)>>} ELSE {}])
        \/ Become(w, [sync[w] EXCEPT !.left = @ \ {i}])
        \/ Become(w, [sync[w] EXCEPT !.left = {k \in @ : ActivityOf[k] # ActivityOf[i]},
                                     !.denied = TRUE])
  BY DEF DownloadFile
<1>2. i \in Items /\ sync[w] \in Syncs
  BY DEF TypeOK, Syncs
<1>3. (IF Live(i) # None THEN {<<i, Live(i)>>} ELSE {}) \in SUBSET (Items \X Versions)
  BY <1>2, LiveTyped
<1>4. sync' \in [Workers -> Syncs]
  BY <1>1, <1>2, <1>3, BecomeTyped DEF TypeOK, Syncs
<1>5. faults' \in 0 .. MaxFaults
  BY FaultTyped DEF DownloadFile, TypeOK
<1> QED
  BY <1>4, <1>5 DEF DownloadFile, TypeOK

LEMMA TypeUpload ==
  ASSUME TypeOK, NEW w \in Workers, NEW i \in Items, NEW v \in Versions, UploadFile(w, i, v)
  PROVE  TypeOK'
<1>1. \/ Become(w, [sync[w] EXCEPT !.held = {}, !.got[i] = sync[w].export[i]])
      \/ Become(w, [sync[w] EXCEPT !.held = {}])
  BY DEF UploadFile
<1>2. sync' \in [Workers -> Syncs]
  <2>1. sync[w] \in Syncs
    BY DEF TypeOK
  <2>2. [sync[w].got EXCEPT ![i] = sync[w].export[i]] \in [Items -> Copies]
    BY <2>1 DEF Syncs
  <2>3. /\ [sync[w] EXCEPT !.held = {}, !.got[i] = sync[w].export[i]] \in Syncs
        /\ [sync[w] EXCEPT !.held = {}] \in Syncs
    BY <2>1, <2>2 DEF Syncs
  <2> QED
    BY <1>1, <2>3, BecomeTyped DEF TypeOK
<1>3. objects' \in [Items -> Copies]
  BY DEF UploadFile, TypeOK, Copies
<1>4. faults' \in 0 .. MaxFaults
  BY FaultTyped DEF UploadFile, TypeOK
<1> QED
  BY <1>2, <1>3, <1>4 DEF UploadFile, TypeOK, counters

LEMMA TypeTexts ==
  ASSUME TypeOK, NEW w \in Workers,
         CheckAccess(w) \/ UploadText(w) \/ WriteManifest(w) \/ ListStale(w)
  PROVE  TypeOK'
<1>1. CASE CheckAccess(w)
  <2>1. [sync[w] EXCEPT !.phase = "texts",
                        !.left = {i \in Texts : sync[w].export[i] # None}] \in Syncs
    <3>1. sync[w] \in Syncs
      BY DEF TypeOK
    <3>2. {i \in Texts : sync[w].export[i] # None} \in SUBSET Items
      BY MoodleAssumption
    <3> QED
      BY <3>1, <3>2 DEF Syncs, Phases
  <2>2. sync' \in [Workers -> Syncs]
    BY <1>1, <2>1, IdleTyped, BecomeTyped DEF CheckAccess, TypeOK
  <2> QED
    BY <1>1, <2>2 DEF CheckAccess, TypeOK, counters
<1>2. CASE UploadText(w)
  <2>1. PICK i \in sync[w].left :
          /\ objects' = [objects EXCEPT ![i] = sync[w].export[i]]
          /\ Become(w, [sync[w] EXCEPT !.left = @ \ {i}, !.got[i] = sync[w].export[i]])
    BY <1>2 DEF UploadText
  <2>2. sync' \in [Workers -> Syncs]
    <3>1. sync[w] \in Syncs
      BY DEF TypeOK
    <3>2. [sync[w].got EXCEPT ![i] = sync[w].export[i]] \in [Items -> Copies]
      BY <3>1 DEF Syncs
    <3>3. [sync[w] EXCEPT !.left = @ \ {i}, !.got[i] = sync[w].export[i]] \in Syncs
      BY <3>1, <3>2 DEF Syncs
    <3> QED
      BY <2>1, <3>3, BecomeTyped DEF TypeOK
  <2>3. objects' \in [Items -> Copies]
    BY <2>1 DEF TypeOK, Syncs
  <2> QED
    BY <1>2, <2>2, <2>3 DEF UploadText, TypeOK, counters
<1>3. CASE WriteManifest(w)
  <2>1. sync' \in [Workers -> Syncs]
    <3>1. sync[w] \in Syncs
      BY DEF TypeOK
    <3>2. [sync[w] EXCEPT !.phase = "list"] \in Syncs
      BY <3>1 DEF Syncs, Phases
    <3> QED
      BY <1>3, <3>2, BecomeTyped DEF WriteManifest, TypeOK
  <2>2. manifest' \in [Items -> Copies]
    BY <1>3 DEF WriteManifest, TypeOK, Syncs
  <2> QED
    BY <1>3, <2>1, <2>2 DEF WriteManifest, TypeOK, counters
<1>4. CASE ListStale(w)
  <2>1. PICK c \in sync[w].current :
          \/ Become(w, [sync[w] EXCEPT !.phase = "prune",
                                       !.stale = {i \in Listed(c) : sync[w].export[i] = None}])
          \/ Become(w, [sync[w] EXCEPT !.phase = "prune"])
    BY <1>4 DEF ListStale
  <2>2. sync' \in [Workers -> Syncs]
    <3>1. sync[w] \in Syncs
      BY DEF TypeOK
    <3>2. {i \in Listed(c) : sync[w].export[i] = None} \in SUBSET Items
      BY DEF Listed
    <3>3. /\ [sync[w] EXCEPT !.phase = "prune",
                             !.stale = {i \in Listed(c) : sync[w].export[i] = None}] \in Syncs
          /\ [sync[w] EXCEPT !.phase = "prune"] \in Syncs
      BY <3>1, <3>2 DEF Syncs, Phases
    <3> QED
      BY <2>1, <3>3, BecomeTyped DEF TypeOK
  <2>3. faults' \in 0 .. MaxFaults
    BY <1>4, FaultTyped DEF ListStale, TypeOK
  <2> QED
    BY <1>4, <2>2, <2>3 DEF ListStale, TypeOK
<1> QED
  BY <1>1, <1>2, <1>3, <1>4

LEMMA TypeEnd ==
  ASSUME TypeOK, NEW w \in Workers, Prune(w) \/ CollectFiles(w) \/ FailSync(w)
  PROVE  TypeOK'
<1>1. faults' \in 0 .. MaxFaults
  BY FaultTyped DEF Prune, CollectFiles, FailSync, TypeOK
<1>2. sync' \in [Workers -> Syncs]
  <2>1. sync[w] \in Syncs
    BY DEF TypeOK
  <2> QED
    BY <2>1, IdleTyped, AfterCourseTyped, BecomeTyped DEF Prune, CollectFiles, FailSync, TypeOK
<1>3. CASE Prune(w)
  <2>1. objects' \in [Items -> Copies]
    BY <1>3 DEF Prune, TypeOK, Copies
  <2> QED
    BY <1>1, <1>2, <1>3, <2>1 DEF Prune, TypeOK
<1>4. CASE CollectFiles(w)
  <2>1. served' \in [Items -> Copies]
    BY <1>4 DEF CollectFiles, TypeOK, Copies
  <2> QED
    BY <1>1, <1>2, <1>4, <2>1 DEF CollectFiles, TypeOK
<1>5. CASE FailSync(w)
  BY <1>1, <1>2, <1>5 DEF FailSync, TypeOK
<1> QED
  BY <1>3, <1>4, <1>5

LEMMA TypeEdit ==
  ASSUME TypeOK, NEW i \in Items, EditCourse(i)
  PROVE  TypeOK'
  BY BoundsTyped DEF EditCourse, TypeOK

LEMMA TypeNext == TypeOK /\ [Next]_vars => TypeOK'
<1> SUFFICES ASSUME TypeOK, [Next]_vars PROVE TypeOK'
  OBVIOUS
<1>1. CASE UNCHANGED vars
  BY <1>1 DEF vars, counters, TypeOK
<1>2. CASE Next
  BY <1>2, TypeEdit, TypeStart, TypeCheck, TypeExport, TypeDownload, TypeUpload, TypeTexts,
     TypeEnd DEF Next, DownloadCourse
<1> QED
  BY <1>1, <1>2

\* Moodle, the objects, the manifests and the syncs in hand are always of their
\* types, with any number of workers.
THEOREM TypeCorrect == Spec => []TypeOK
  BY TypeInit, TypeNext, PTL DEF Spec

-----------------------------------------------------------------------------
(* What each action makes of the sync of its worker, field by field.       *)

LEMMA Becomes ==
  ASSUME TypeOK, NEW w \in Workers, NEW s, Become(w, s)
  PROVE  sync'[w] = s /\ \A v \in Workers \ {w} : sync'[v] = sync[v]
  BY DEF Become, TypeOK

LEMMA IdleFields ==
    /\ Idle.phase = "idle" /\ Idle.selected = {} /\ Idle.todo = {} /\ Idle.fetch = {}
    /\ Idle.current = {} /\ Idle.held = {} /\ Idle.left = {} /\ Idle.stale = {}
    /\ Idle.export = Nothing /\ Idle.got = Nothing /\ Idle.since = 0
  BY DEF Idle

LEMMA SyncTyped ==
  ASSUME TypeOK, NEW w \in Workers
  PROVE  sync[w] \in Syncs
  BY DEF TypeOK

LEMMA AfterCheckFields ==
  ASSUME NEW s \in Syncs
  PROVE  LET r == AfterCheck(s) IN
         /\ r.selected = s.selected /\ r.todo = s.todo /\ r.fetch = s.fetch
         /\ r.current = s.current /\ r.held = s.held /\ r.stale = s.stale /\ r.since = s.since
         /\ r.phase = IF s.todo # {} THEN "check"
                      ELSE IF s.fetch # {} THEN "export" ELSE "collect"
  BY DEF AfterCheck, Syncs

LEMMA AfterCourseFields ==
  ASSUME NEW s \in Syncs
  PROVE  LET r == AfterCourse(s) IN
         \/ r = Idle
         \/ /\ r.selected = s.selected /\ r.todo = s.todo /\ r.fetch = s.fetch
            /\ r.current = {} /\ r.held = s.held /\ r.since = s.since
            /\ r.phase = IF s.fetch # {} THEN "export" ELSE "collect"
  BY DEF AfterCourse, Syncs

LEMMA StartFields ==
  ASSUME TypeOK, NEW w \in Workers, StartSync(w)
  PROVE  /\ UNCHANGED <<course, objects, manifest, served, edits, faults>>
         /\ sync[w].phase = "idle"
         /\ \A v \in Workers \ {w} : sync'[v] = sync[v]
         /\ LET s == sync'[w] IN
            /\ s.phase \in {"check", "export"} /\ s.since = edits + faults
            /\ s.phase = "check" => s.todo = s.selected
            /\ s.phase = "export" => s.todo = {} /\ s.fetch = s.selected
            /\ s.current = {} /\ s.held = {} /\ s.stale = {}
<1>1. PICK ingest \in BOOLEAN, force \in BOOLEAN, chosen \in SUBSET Courses \ {{}} :
        Become(w, [Idle EXCEPT !.phase = IF ingest THEN "check" ELSE "export",
                               !.ingest = ingest,
                               !.force = force,
                               !.selected = chosen,
                               !.todo = IF ingest THEN chosen ELSE {},
                               !.fetch = IF ingest THEN {} ELSE chosen,
                               !.since = edits + faults])
  BY DEF StartSync
<1>2. /\ sync'[w] = [Idle EXCEPT !.phase = IF ingest THEN "check" ELSE "export",
                                 !.ingest = ingest,
                                 !.force = force,
                                 !.selected = chosen,
                                 !.todo = IF ingest THEN chosen ELSE {},
                                 !.fetch = IF ingest THEN {} ELSE chosen,
                                 !.since = edits + faults]
      /\ \A v \in Workers \ {w} : sync'[v] = sync[v]
  BY <1>1, Becomes
<1>3. LET s == sync'[w] IN
      /\ s.phase = IF ingest THEN "check" ELSE "export"
      /\ s.selected = chosen /\ s.since = edits + faults
      /\ s.todo = IF ingest THEN chosen ELSE {}
      /\ s.fetch = IF ingest THEN {} ELSE chosen
      /\ s.current = {} /\ s.held = {} /\ s.stale = {}
  BY <1>2 DEF Idle
<1>4. sync[w].phase = "idle" /\ UNCHANGED <<course, objects, manifest, served, edits, faults>>
  BY DEF StartSync
<1> QED
  BY <1>2, <1>3, <1>4

LEMMA CheckFields ==
  ASSUME TypeOK, NEW w \in Workers, CheckCourse(w)
  PROVE  /\ UNCHANGED <<course, objects, manifest, served, edits>>
         /\ sync[w].phase = "check"
         /\ \A v \in Workers \ {w} : sync'[v] = sync[v]
         /\ \E c \in sync[w].todo :
               LET s == sync'[w] IN
               /\ s.selected = sync[w].selected /\ s.since = sync[w].since
               /\ s.todo = sync[w].todo \ {c}
               /\ \/ s.fetch = sync[w].fetch \cup {c}
                  \/ s.fetch = sync[w].fetch /\ (faults' # faults \/ ~ Diverges(c))
               /\ s.phase = IF s.todo # {} THEN "check"
                            ELSE IF s.fetch # {} THEN "export" ELSE "collect"
               /\ s.current = sync[w].current /\ s.held = sync[w].held
               /\ s.stale = sync[w].stale
         /\ faults' = faults \/ faults' = faults + 1
<1>0. PICK c \in sync[w].todo :
        \E s \in {[sync[w] EXCEPT !.todo = @ \ {c}, !.fetch = @ \cup {c}],
                  [sync[w] EXCEPT !.todo = @ \ {c}]} :
           /\ \/ s = [sync[w] EXCEPT !.todo = @ \ {c}, !.fetch = @ \cup {c}]
              \/ /\ s = [sync[w] EXCEPT !.todo = @ \ {c}]
                 /\ Fault \/ ~ Diverges(c)
           /\ Become(w, AfterCheck(s))
  BY DEF CheckCourse
<1>1. PICK s \in {[sync[w] EXCEPT !.todo = @ \ {c}, !.fetch = @ \cup {c}],
                  [sync[w] EXCEPT !.todo = @ \ {c}]} :
        /\ \/ s = [sync[w] EXCEPT !.todo = @ \ {c}, !.fetch = @ \cup {c}]
           \/ /\ s = [sync[w] EXCEPT !.todo = @ \ {c}]
              /\ Fault \/ ~ Diverges(c)
        /\ Become(w, AfterCheck(s))
  BY <1>0
<1>2. /\ s \in Syncs /\ c \in Courses
      /\ s.selected = sync[w].selected /\ s.since = sync[w].since
      /\ s.todo = sync[w].todo \ {c} /\ s.current = sync[w].current /\ s.held = sync[w].held
      /\ s.stale = sync[w].stale
      /\ \/ s.fetch = sync[w].fetch \cup {c}
         \/ s.fetch = sync[w].fetch /\ (Fault \/ ~ Diverges(c))
  <2>1. sync[w] \in Syncs
    BY DEF TypeOK
  <2>2. c \in Courses /\ sync[w].todo \ {c} \in SUBSET Courses
    BY <2>1 DEF Syncs
  <2>3. sync[w].fetch \cup {c} \in SUBSET Courses
    BY <2>1, <2>2 DEF Syncs
  <2> QED
    BY <1>1, <2>1, <2>2, <2>3 DEF Syncs
<1>3. sync'[w] = AfterCheck(s) /\ \A v \in Workers \ {w} : sync'[v] = sync[v]
  BY <1>1, Becomes
<1>4. Fault => faults' # faults
  BY FaultTyped
<1>5. faults' = faults \/ faults' = faults + 1
  BY DEF CheckCourse, Fault
<1>6. UNCHANGED <<course, objects, manifest, served, edits>> /\ sync[w].phase = "check"
  BY DEF CheckCourse
<1> QED
  BY <1>2, <1>3, <1>4, <1>5, <1>6, AfterCheckFields

LEMMA ExportFields ==
  ASSUME TypeOK, NEW w \in Workers, ExportCourse(w)
  PROVE  /\ UNCHANGED <<course, objects, manifest, served, edits>>
         /\ sync[w].phase = "export"
         /\ \A v \in Workers \ {w} : sync'[v] = sync[v]
         /\ \/ /\ faults' = faults
               /\ \E c \in sync[w].fetch :
                     LET s == sync'[w] IN
                     /\ s.phase = "files" /\ s.current = {c}
                     /\ s.selected = sync[w].selected /\ s.since = sync[w].since
                     /\ s.todo = sync[w].todo /\ s.fetch = sync[w].fetch \ {c}
                     /\ s.export = [i \in Items |-> IF CourseOf[i] = c THEN Live(i) ELSE None]
                     /\ s.left = {i \in Items \ Texts : s.export[i] # None}
                     /\ s.held = sync[w].held /\ s.got = Nothing /\ s.stale = {}
            \/ /\ faults' = faults + 1
               /\ \/ sync'[w] = Idle
                  \/ LET s == sync'[w] IN
                     /\ s.phase \in {"export", "collect"} /\ s.current = {}
                     /\ s.since = sync[w].since /\ s.todo = sync[w].todo
                     /\ s.held = sync[w].held
                     /\ s.phase = "collect" => s.fetch = {}
<1> DEFINE export(c) == [i \in Items |-> IF CourseOf[i] = c THEN Live(i) ELSE None]
           rest(c) == [sync[w] EXCEPT !.fetch = @ \ {c}]
<1>1. PICK c \in sync[w].fetch :
        \/ /\ Become(w, [rest(c) EXCEPT !.phase = "files", !.current = {c}, !.export = export(c),
                                        !.left = {i \in Items \ Texts : export(c)[i] # None},
                                        !.got = Nothing, !.denied = FALSE, !.stale = {}])
           /\ faults' = faults
        \/ Fault /\ Become(w, AfterCourse(rest(c)))
  BY DEF ExportCourse
<1>2. /\ rest(c) \in Syncs /\ rest(c).selected = sync[w].selected
      /\ rest(c).since = sync[w].since /\ rest(c).todo = sync[w].todo
      /\ rest(c).fetch = sync[w].fetch \ {c} /\ rest(c).held = sync[w].held
  BY DEF TypeOK, Syncs
<1>3. UNCHANGED <<course, objects, manifest, served, edits>> /\ sync[w].phase = "export"
  BY DEF ExportCourse
<1>4. CASE Fault /\ Become(w, AfterCourse(rest(c)))
  <2>1. sync'[w] = AfterCourse(rest(c)) /\ \A v \in Workers \ {w} : sync'[v] = sync[v]
    BY <1>4, Becomes
  <2> HIDE DEF rest
  <2> QED
    BY <1>2, <1>3, <1>4, <2>1, AfterCourseFields, FaultTyped
<1>5. CASE /\ Become(w, [rest(c) EXCEPT !.phase = "files", !.current = {c}, !.export = export(c),
                                        !.left = {i \in Items \ Texts : export(c)[i] # None},
                                        !.got = Nothing, !.denied = FALSE, !.stale = {}])
           /\ faults' = faults
  <2> DEFINE exp == export(c)
             r == rest(c)
  <2>1. r \in Syncs
    BY <1>2
  <2> HIDE DEF rest
  <2>2. /\ sync'[w] = [r EXCEPT !.phase = "files", !.current = {c}, !.export = exp,
                               !.left = {i \in Items \ Texts : exp[i] # None},
                               !.got = Nothing, !.denied = FALSE, !.stale = {}]
        /\ \A v \in Workers \ {w} : sync'[v] = sync[v]
    BY <1>5, Becomes
  <2> HIDE DEF exp, r
  <2>3. LET s == sync'[w] IN
        /\ s.phase = "files" /\ s.current = {c}
        /\ s.selected = r.selected /\ s.since = r.since /\ s.todo = r.todo /\ s.fetch = r.fetch
        /\ s.export = exp /\ s.left = {i \in Items \ Texts : s.export[i] # None}
        /\ s.held = r.held /\ s.got = Nothing /\ s.stale = {}
    BY <2>1, <2>2 DEF Syncs
  <2> QED
    BY <1>2, <1>3, <1>5, <2>2, <2>3 DEF exp, r
<1> QED
  BY <1>1, <1>4, <1>5

LEMMA DownloadFields ==
  ASSUME TypeOK, NEW w \in Workers, DownloadFile(w)
  PROVE  /\ UNCHANGED <<course, objects, manifest, served, edits>>
         /\ sync[w].phase = "files" /\ sync[w].held = {}
         /\ \A v \in Workers \ {w} : sync'[v] = sync[v]
         /\ LET s == sync'[w] IN
            /\ s.phase = "files" /\ s.selected = sync[w].selected /\ s.since = sync[w].since
            /\ s.todo = sync[w].todo /\ s.fetch = sync[w].fetch
            /\ s.current = sync[w].current /\ s.export = sync[w].export
            /\ s.got = sync[w].got /\ s.stale = sync[w].stale
            /\ \E i \in sync[w].left :
                  \/ /\ faults' = faults
                     /\ s.left = sync[w].left \ {i}
                     /\ s.held = IF Live(i) # None THEN {<<i, Live(i)>>} ELSE {}
                  \/ /\ faults' = faults + 1
                     /\ s.left \subseteq sync[w].left
                     /\ s.held = {}
<1>1. PICK i \in sync[w].left :
        \/ /\ Become(w, [sync[w] EXCEPT !.left = @ \ {i},
                                        !.held = IF Live(i) # None THEN {<<i, Live(i)>>} ELSE {}])
           /\ faults' = faults
        \/ Fault /\ Become(w, [sync[w] EXCEPT !.left = @ \ {i}])
        \/ /\ Fault
           /\ Become(w, [sync[w] EXCEPT !.left = {k \in @ : ActivityOf[k] # ActivityOf[i]},
                                        !.denied = TRUE])
  BY DEF DownloadFile
<1>2. sync[w] \in Syncs
  BY DEF TypeOK
<1>3. /\ UNCHANGED <<course, objects, manifest, served, edits>>
      /\ sync[w].phase = "files" /\ sync[w].held = {}
  BY DEF DownloadFile
<1>4. CASE /\ Become(w, [sync[w] EXCEPT !.left = @ \ {i},
                                        !.held = IF Live(i) # None THEN {<<i, Live(i)>>} ELSE {}])
           /\ faults' = faults
  <2> DEFINE held == IF Live(i) # None THEN {<<i, Live(i)>>} ELSE {}
  <2>1. /\ sync'[w] = [sync[w] EXCEPT !.left = @ \ {i}, !.held = held]
        /\ \A v \in Workers \ {w} : sync'[v] = sync[v]
    BY <1>4, Becomes
  <2> HIDE DEF held
  <2>2. LET s == sync'[w] IN
        /\ s.phase = sync[w].phase /\ s.selected = sync[w].selected /\ s.since = sync[w].since
        /\ s.todo = sync[w].todo /\ s.fetch = sync[w].fetch
        /\ s.current = sync[w].current /\ s.export = sync[w].export
        /\ s.got = sync[w].got /\ s.stale = sync[w].stale
        /\ s.left = sync[w].left \ {i} /\ s.held = held
    BY <1>2, <2>1 DEF Syncs
  <2> QED
    BY <1>3, <1>4, <2>1, <2>2 DEF held
<1>5. CASE /\ Fault
           /\ \/ Become(w, [sync[w] EXCEPT !.left = @ \ {i}])
              \/ Become(w, [sync[w] EXCEPT !.left = {k \in @ : ActivityOf[k] # ActivityOf[i]},
                                           !.denied = TRUE])
  <2>1. /\ \/ sync'[w] = [sync[w] EXCEPT !.left = @ \ {i}]
           \/ sync'[w] = [sync[w] EXCEPT !.left = {k \in @ : ActivityOf[k] # ActivityOf[i]},
                                         !.denied = TRUE]
        /\ \A v \in Workers \ {w} : sync'[v] = sync[v]
    BY <1>5, Becomes
  <2>2. LET s == sync'[w] IN
        /\ s.phase = sync[w].phase /\ s.selected = sync[w].selected /\ s.since = sync[w].since
        /\ s.todo = sync[w].todo /\ s.fetch = sync[w].fetch
        /\ s.current = sync[w].current /\ s.export = sync[w].export
        /\ s.got = sync[w].got /\ s.stale = sync[w].stale
        /\ s.left \subseteq sync[w].left /\ s.held = sync[w].held
    BY <1>2, <2>1 DEF Syncs
  <2> QED
    BY <1>3, <1>5, <2>1, <2>2, FaultTyped
<1> QED
  BY <1>1, <1>4, <1>5

LEMMA UploadFields ==
  ASSUME TypeOK, NEW w \in Workers, NEW i \in Items, NEW v \in Versions, UploadFile(w, i, v)
  PROVE  /\ UNCHANGED <<course, manifest, served, edits>>
         /\ <<i, v>> \in sync[w].held
         /\ \A u \in Workers \ {w} : sync'[u] = sync[u]
         /\ LET s == sync'[w] IN
            /\ s.phase = sync[w].phase /\ s.selected = sync[w].selected
            /\ s.since = sync[w].since /\ s.todo = sync[w].todo /\ s.fetch = sync[w].fetch
            /\ s.current = sync[w].current /\ s.export = sync[w].export
            /\ s.left = sync[w].left /\ s.held = {} /\ s.stale = sync[w].stale
            /\ \/ /\ faults' = faults
                  /\ objects' = [objects EXCEPT ![i] = v]
                  /\ s.got = [sync[w].got EXCEPT ![i] = sync[w].export[i]]
               \/ /\ faults' = faults + 1
                  /\ objects' \in {objects, [objects EXCEPT ![i] = v]}
                  /\ s.got = sync[w].got
<1>1. sync[w] \in Syncs
  BY DEF TypeOK
<1>2. UNCHANGED <<course, manifest, served, edits>> /\ <<i, v>> \in sync[w].held
  BY DEF UploadFile
<1>3. CASE /\ objects' = [objects EXCEPT ![i] = v] /\ faults' = faults
           /\ Become(w, [sync[w] EXCEPT !.held = {}, !.got[i] = sync[w].export[i]])
  <2>1. /\ sync'[w] = [sync[w] EXCEPT !.held = {}, !.got[i] = sync[w].export[i]]
        /\ \A u \in Workers \ {w} : sync'[u] = sync[u]
    BY <1>3, Becomes
  <2>2. LET s == sync'[w] IN
        /\ s.phase = sync[w].phase /\ s.selected = sync[w].selected
        /\ s.since = sync[w].since /\ s.todo = sync[w].todo /\ s.fetch = sync[w].fetch
        /\ s.current = sync[w].current /\ s.export = sync[w].export
        /\ s.left = sync[w].left /\ s.held = {} /\ s.stale = sync[w].stale
        /\ s.got = [sync[w].got EXCEPT ![i] = sync[w].export[i]]
    BY <1>1, <2>1 DEF Syncs
  <2> QED
    BY <1>2, <1>3, <2>1, <2>2
<1>4. CASE /\ Fault /\ objects' \in {objects, [objects EXCEPT ![i] = v]}
           /\ Become(w, [sync[w] EXCEPT !.held = {}])
  <2>1. /\ sync'[w] = [sync[w] EXCEPT !.held = {}]
        /\ \A u \in Workers \ {w} : sync'[u] = sync[u]
    BY <1>4, Becomes
  <2>2. LET s == sync'[w] IN
        /\ s.phase = sync[w].phase /\ s.selected = sync[w].selected
        /\ s.since = sync[w].since /\ s.todo = sync[w].todo /\ s.fetch = sync[w].fetch
        /\ s.current = sync[w].current /\ s.export = sync[w].export
        /\ s.left = sync[w].left /\ s.held = {} /\ s.stale = sync[w].stale
        /\ s.got = sync[w].got
    BY <1>1, <2>1 DEF Syncs
  <2> QED
    BY <1>2, <1>4, <2>1, <2>2, FaultTyped
<1> QED
  BY <1>3, <1>4 DEF UploadFile

LEMMA AccessFields ==
  ASSUME TypeOK, NEW w \in Workers, CheckAccess(w)
  PROVE  /\ UNCHANGED <<course, objects, manifest, served, edits, faults>>
         /\ sync[w].phase = "files" /\ sync[w].left = {} /\ sync[w].held = {}
         /\ \A v \in Workers \ {w} : sync'[v] = sync[v]
         /\ LET s == sync'[w] IN
            \/ s = Idle
            \/ /\ s.phase = "texts" /\ s.selected = sync[w].selected /\ s.since = sync[w].since
               /\ s.todo = sync[w].todo /\ s.fetch = sync[w].fetch
               /\ s.current = sync[w].current /\ s.export = sync[w].export
               /\ s.got = sync[w].got /\ s.stale = sync[w].stale /\ s.held = sync[w].held
               /\ s.left = {i \in Texts : sync[w].export[i] # None}
<1> DEFINE texts == {i \in Texts : sync[w].export[i] # None}
<1>1. sync[w] \in Syncs
  BY DEF TypeOK
<1>2. /\ UNCHANGED <<course, objects, manifest, served, edits, faults>>
      /\ sync[w].phase = "files" /\ sync[w].left = {} /\ sync[w].held = {}
  BY DEF CheckAccess, counters
<1>3. Become(w, Idle) \/ Become(w, [sync[w] EXCEPT !.phase = "texts", !.left = texts])
  BY DEF CheckAccess
<1> HIDE DEF texts
<1>4. /\ sync'[w] = Idle \/ sync'[w] = [sync[w] EXCEPT !.phase = "texts", !.left = texts]
      /\ \A v \in Workers \ {w} : sync'[v] = sync[v]
  BY <1>3, Becomes
<1>5. CASE sync'[w] = [sync[w] EXCEPT !.phase = "texts", !.left = texts]
  <2>1. LET s == sync'[w] IN
        /\ s.phase = "texts" /\ s.selected = sync[w].selected /\ s.since = sync[w].since
        /\ s.todo = sync[w].todo /\ s.fetch = sync[w].fetch
        /\ s.current = sync[w].current /\ s.export = sync[w].export
        /\ s.got = sync[w].got /\ s.stale = sync[w].stale /\ s.held = sync[w].held
        /\ s.left = texts
    BY <1>1, <1>5 DEF Syncs
  <2> QED
    BY <1>2, <1>4, <2>1 DEF texts
<1> QED
  BY <1>2, <1>4, <1>5

LEMMA TextFields ==
  ASSUME TypeOK, NEW w \in Workers, UploadText(w)
  PROVE  /\ UNCHANGED <<course, manifest, served, edits, faults>>
         /\ sync[w].phase = "texts"
         /\ \A v \in Workers \ {w} : sync'[v] = sync[v]
         /\ LET s == sync'[w] IN
            /\ s.phase = "texts" /\ s.selected = sync[w].selected /\ s.since = sync[w].since
            /\ s.todo = sync[w].todo /\ s.fetch = sync[w].fetch
            /\ s.current = sync[w].current /\ s.export = sync[w].export
            /\ s.held = sync[w].held /\ s.stale = sync[w].stale
            /\ \E i \in sync[w].left :
                  /\ objects' = [objects EXCEPT ![i] = sync[w].export[i]]
                  /\ s.left = sync[w].left \ {i}
                  /\ s.got = [sync[w].got EXCEPT ![i] = sync[w].export[i]]
<1>1. sync[w] \in Syncs
  BY DEF TypeOK
<1>2. UNCHANGED <<course, manifest, served, edits, faults>> /\ sync[w].phase = "texts"
  BY DEF UploadText, counters
<1>3. PICK i \in sync[w].left :
        /\ objects' = [objects EXCEPT ![i] = sync[w].export[i]]
        /\ Become(w, [sync[w] EXCEPT !.left = @ \ {i}, !.got[i] = sync[w].export[i]])
  BY DEF UploadText
<1>4. /\ sync'[w] = [sync[w] EXCEPT !.left = @ \ {i}, !.got[i] = sync[w].export[i]]
      /\ \A v \in Workers \ {w} : sync'[v] = sync[v]
  BY <1>3, Becomes
<1>5. LET s == sync'[w] IN
      /\ s.phase = sync[w].phase /\ s.selected = sync[w].selected /\ s.since = sync[w].since
      /\ s.todo = sync[w].todo /\ s.fetch = sync[w].fetch
      /\ s.current = sync[w].current /\ s.export = sync[w].export
      /\ s.held = sync[w].held /\ s.stale = sync[w].stale
      /\ s.left = sync[w].left \ {i}
      /\ s.got = [sync[w].got EXCEPT ![i] = sync[w].export[i]]
  BY <1>1, <1>4 DEF Syncs
<1> QED
  BY <1>2, <1>3, <1>4, <1>5

LEMMA ManifestFields ==
  ASSUME TypeOK, NEW w \in Workers, WriteManifest(w)
  PROVE  /\ UNCHANGED <<course, objects, served, edits, faults>>
         /\ sync[w].phase = "texts" /\ sync[w].left = {}
         /\ manifest' = IF sync[w].got = Nothing THEN manifest
                        ELSE [i \in Items |-> IF CourseOf[i] \in sync[w].current
                                              THEN sync[w].got[i] ELSE manifest[i]]
         /\ \A v \in Workers \ {w} : sync'[v] = sync[v]
         /\ LET s == sync'[w] IN
            /\ s.phase = "list" /\ s.selected = sync[w].selected /\ s.since = sync[w].since
            /\ s.todo = sync[w].todo /\ s.fetch = sync[w].fetch
            /\ s.current = sync[w].current /\ s.export = sync[w].export
            /\ s.held = sync[w].held /\ s.stale = sync[w].stale
<1>1. sync[w] \in Syncs
  BY DEF TypeOK
<1>2. /\ sync'[w] = [sync[w] EXCEPT !.phase = "list"]
      /\ \A v \in Workers \ {w} : sync'[v] = sync[v]
  BY Becomes DEF WriteManifest
<1>3. LET s == sync'[w] IN
      /\ s.phase = "list" /\ s.selected = sync[w].selected /\ s.since = sync[w].since
      /\ s.todo = sync[w].todo /\ s.fetch = sync[w].fetch
      /\ s.current = sync[w].current /\ s.export = sync[w].export
      /\ s.held = sync[w].held /\ s.stale = sync[w].stale
  BY <1>1, <1>2 DEF Syncs
<1> QED
  BY <1>2, <1>3 DEF WriteManifest, counters

LEMMA ListFields ==
  ASSUME TypeOK, NEW w \in Workers, ListStale(w)
  PROVE  /\ UNCHANGED <<course, objects, manifest, served, edits>>
         /\ sync[w].phase = "list"
         /\ \A v \in Workers \ {w} : sync'[v] = sync[v]
         /\ LET s == sync'[w] IN
            /\ s.phase = "prune" /\ s.selected = sync[w].selected /\ s.since = sync[w].since
            /\ s.todo = sync[w].todo /\ s.fetch = sync[w].fetch
            /\ s.current = sync[w].current /\ s.export = sync[w].export
            /\ s.held = sync[w].held
            /\ \E c \in sync[w].current :
                  \/ /\ faults' = faults
                     /\ s.stale = {i \in Listed(c) : sync[w].export[i] = None}
                  \/ /\ faults' = faults + 1
                     /\ s.stale = sync[w].stale
<1>1. sync[w] \in Syncs
  BY DEF TypeOK
<1>2. UNCHANGED <<course, objects, manifest, served, edits>> /\ sync[w].phase = "list"
  BY DEF ListStale
<1> DEFINE stale(c) == {i \in Listed(c) : sync[w].export[i] = None}
<1>3. PICK c \in sync[w].current :
        \/ Become(w, [sync[w] EXCEPT !.phase = "prune", !.stale = stale(c)]) /\ faults' = faults
        \/ Fault /\ Become(w, [sync[w] EXCEPT !.phase = "prune"])
  BY DEF ListStale
<1> HIDE DEF stale
<1>4. /\ \/ sync'[w] = [sync[w] EXCEPT !.phase = "prune", !.stale = stale(c)] /\ faults' = faults
         \/ sync'[w] = [sync[w] EXCEPT !.phase = "prune"] /\ faults' = faults + 1
      /\ \A v \in Workers \ {w} : sync'[v] = sync[v]
  BY <1>3, Becomes, FaultTyped
<1>5. LET s == sync'[w] IN
      /\ s.phase = "prune" /\ s.selected = sync[w].selected /\ s.since = sync[w].since
      /\ s.todo = sync[w].todo /\ s.fetch = sync[w].fetch
      /\ s.current = sync[w].current /\ s.export = sync[w].export
      /\ s.held = sync[w].held
      /\ \/ s.stale = stale(c) /\ faults' = faults
         \/ s.stale = sync[w].stale /\ faults' = faults + 1
  BY <1>1, <1>4 DEF Syncs
<1> QED
  BY <1>2, <1>4, <1>5 DEF stale

LEMMA PruneFields ==
  ASSUME TypeOK, NEW w \in Workers, Prune(w)
  PROVE  /\ UNCHANGED <<course, manifest, served, edits>>
         /\ sync[w].phase = "prune"
         /\ \A v \in Workers \ {w} : sync'[v] = sync[v]
         /\ sync'[w] = AfterCourse(sync[w])
         /\ \E gone \in SUBSET sync[w].stale :
               /\ objects' = [i \in Items |-> IF i \in gone THEN None ELSE objects[i]]
               /\ \/ gone = sync[w].stale /\ faults' = faults
                  \/ faults' = faults + 1
<1>1. /\ UNCHANGED <<course, manifest, served, edits>> /\ sync[w].phase = "prune"
      /\ Become(w, AfterCourse(sync[w]))
  BY DEF Prune
<1>2. sync'[w] = AfterCourse(sync[w]) /\ \A v \in Workers \ {w} : sync'[v] = sync[v]
  BY <1>1, Becomes
<1>3. \E gone \in SUBSET sync[w].stale :
        /\ objects' = [i \in Items |-> IF i \in gone THEN None ELSE objects[i]]
        /\ \/ gone = sync[w].stale /\ faults' = faults
           \/ faults' = faults + 1
  BY FaultTyped DEF Prune
<1> QED
  BY <1>1, <1>2, <1>3

LEMMA EndFields ==
  ASSUME TypeOK, NEW w \in Workers, CollectFiles(w) \/ FailSync(w)
  PROVE  /\ UNCHANGED <<course, objects, manifest, edits>>
         /\ sync[w].phase # "idle"
         /\ sync'[w] = Idle
         /\ \A v \in Workers \ {w} : sync'[v] = sync[v]
         /\ faults' = faults \/ faults' = faults + 1
<1>1. /\ UNCHANGED <<course, objects, manifest, edits>>
      /\ Become(w, Idle) /\ sync[w].phase # "idle"
      /\ faults' = faults \/ faults' = faults + 1
  BY DEF CollectFiles, FailSync, Fault
<1> QED
  BY <1>1, Becomes

-----------------------------------------------------------------------------
(* The order of versions.                                                  *)

\* An idle worker asks nothing of the storage.
LEMMA IdleHolds ==
  ASSUME NEW w \in Workers, sync'[w] = Idle
  PROVE  Shape(w)' /\ Downloads(w)' /\ Prunes(w)' /\ Undisturbed(w)'
  BY IdleFields DEF Shape, Downloads, Prunes, Undisturbed, Settled

\* While one worker syncs, the others are idle and stay so.
LEMMA OthersIdle ==
  ASSUME OrderInv, OneAtATime, NEW w \in Workers, sync[w].phase # "idle",
         \A v \in Workers \ {w} : sync'[v] = sync[v]
  PROVE  \A v \in Workers \ {w} : sync[v] = Idle /\ sync'[v] = Idle
  BY DEF OrderInv, Shape, OneAtATime

\* So a step of a sync is only about storage and that sync.
LEMMA OrderStep ==
  ASSUME OrderInv, OneAtATime, NEW w \in Workers, sync[w].phase # "idle",
         \A v \in Workers \ {w} : sync'[v] = sync[v],
         Ordered', Shape(w)', Downloads(w)'
  PROVE  OrderInv'
<1>1. \A v \in Workers \ {w} : sync'[v] = Idle
  BY OthersIdle
<1>2. \A v \in Workers \ {w} : Shape(v)' /\ Downloads(v)'
  BY <1>1, IdleHolds
<1> QED
  BY <1>2 DEF OrderInv

LEMMA OrderInit == Init => OrderInv
<1> SUFFICES ASSUME Init PROVE OrderInv
  OBVIOUS
<1>1. \A w \in Workers : sync[w] = Idle
  BY DEF Init
<1>2. \A w \in Workers : Shape(w) /\ Downloads(w)
  BY <1>1, IdleFields DEF Shape, Downloads
<1>3. Ordered
  BY DEF Ordered, Init, Nothing, None
<1> QED
  BY <1>2, <1>3 DEF OrderInv

LEMMA OrderEdit ==
  ASSUME TypeOK, TypeOK', OrderInv, NEW k \in Items, EditCourse(k)
  PROVE  OrderInv'
<1>1. /\ UNCHANGED <<objects, manifest, sync>>
      /\ \A i \in Items : course[i] <= course'[i]
  <2>1. PICK v \in 1 .. Removed : v > course[k] /\ course' = [course EXCEPT ![k] = v]
    BY DEF EditCourse
  <2> QED
    BY <2>1, BoundsTyped DEF EditCourse, TypeOK
<1>2. /\ \A i \in Items : course[i] \in Nat /\ course'[i] \in Nat
      /\ \A i \in Items : objects[i] \in Nat /\ manifest[i] \in Nat
      /\ \A w \in Workers, i \in Items : sync[w].export[i] \in Nat
      /\ Versions \subseteq Nat
  BY VersionsTyped, BoundsTyped DEF TypeOK
<1>3. Ordered'
  BY <1>1, <1>2 DEF OrderInv, Ordered
<1>4. ASSUME NEW w \in Workers PROVE Shape(w)' /\ Downloads(w)'
  <2> sync'[w] = sync[w]
    BY <1>1
  <2>1. Shape(w)'
    BY DEF OrderInv, Shape
  <2>2. ASSUME sync[w].phase \in {"files", "texts"} PROVE Downloads(w)'
    <3> DEFINE s == sync[w]
    <3>1. Downloads(w)
      BY DEF OrderInv
    <3>2. \A i \in Items : s.export[i] <= course'[i]
      BY <1>1, <1>2, <2>2, <3>1 DEF Downloads
    <3>3. \A i \in Items, v \in Versions :
            <<i, v>> \in s.held => s.export[i] # None /\ s.export[i] <= v /\ v <= course'[i]
      <4> SUFFICES ASSUME NEW i \in Items, NEW v \in Versions, <<i, v>> \in s.held
                   PROVE  s.export[i] # None /\ s.export[i] <= v /\ v <= course'[i]
        OBVIOUS
      <4>1. s.export[i] # None /\ s.export[i] <= v /\ v <= course[i]
        BY <2>2, <3>1 DEF Downloads
      <4>2. v \in Nat /\ course[i] \in Nat /\ course'[i] \in Nat /\ course[i] <= course'[i]
        BY <1>1, <1>2
      <4> QED
        BY <4>1, <4>2
    <3> QED
      BY <1>1, <2>2, <3>1, <3>2, <3>3 DEF Downloads
  <2>3. ASSUME sync[w].phase \notin {"files", "texts"} PROVE Downloads(w)'
    BY <2>3 DEF Downloads
  <2> QED
    BY <2>1, <2>2, <2>3
<1> QED
  BY <1>3, <1>4 DEF OrderInv

LEMMA OrderStart ==
  ASSUME TypeOK, OrderInv, NEW w \in Workers, StartSync(w)
  PROVE  OrderInv'
<1>1. Ordered'
  BY StartFields DEF OrderInv, Ordered
<1>2. ASSUME NEW v \in Workers \ {w} PROVE Shape(v)' /\ Downloads(v)'
  BY StartFields DEF OrderInv, Shape, Downloads
<1>3. Shape(w)' /\ Downloads(w)'
  BY StartFields DEF Shape, Downloads
<1> QED
  BY <1>1, <1>2, <1>3 DEF OrderInv

LEMMA OrderCheck ==
  ASSUME TypeOK, OrderInv, OneAtATime, NEW w \in Workers, CheckCourse(w)
  PROVE  OrderInv'
<1>1. Ordered'
  BY CheckFields DEF OrderInv, Ordered
<1>2. Shape(w)
  BY DEF OrderInv
<1>3. Shape(w)'
  BY <1>2, CheckFields DEF Shape
<1>4. Downloads(w)'
  BY CheckFields DEF Downloads
<1> QED
  BY <1>1, <1>3, <1>4, CheckFields, OrderStep

LEMMA OrderExport ==
  ASSUME TypeOK, OrderInv, OneAtATime, NEW w \in Workers, ExportCourse(w)
  PROVE  OrderInv'
<1>1. Ordered'
  BY ExportFields DEF OrderInv, Ordered
<1>2. Shape(w) /\ sync[w] \in Syncs
  BY DEF OrderInv, TypeOK
<1>3. CASE sync'[w] = Idle
  BY <1>1, <1>3, ExportFields, IdleHolds, OrderStep
<1>4. CASE sync'[w] # Idle /\ faults' = faults + 1
  <2>1. Shape(w)'
    BY <1>2, <1>4, ExportFields DEF Shape, TypeOK
  <2>2. Downloads(w)'
    BY <1>4, ExportFields DEF Downloads, TypeOK
  <2> QED
    BY <1>1, <2>1, <2>2, ExportFields, OrderStep
<1>5. CASE faults' = faults
  <2>1. faults # faults + 1
    BY DEF TypeOK
  <2>2. PICK c \in sync[w].fetch :
          LET s == sync'[w] IN
          /\ s.phase = "files" /\ s.current = {c} /\ s.todo = sync[w].todo
          /\ s.export = [i \in Items |-> IF CourseOf[i] = c THEN Live(i) ELSE None]
          /\ s.left = {i \in Items \ Texts : s.export[i] # None}
          /\ s.held = sync[w].held /\ s.got = Nothing /\ s.stale = {}
    BY <1>5, <2>1, ExportFields
  <2>3. c \in Courses /\ sync[w].phase = "export"
    BY <1>2, ExportFields DEF Syncs
  <2>4. Shape(w)'
    BY <1>2, <2>2, <2>3 DEF Shape
  <2>5. UNCHANGED <<course, objects, manifest>>
    BY ExportFields
  <2>6. sync[w].held = {}
    BY <1>2, <2>3 DEF Shape
  <2>7. Downloads(w)'
    <3> DEFINE s == sync'[w]
    <3>1. \A i \in Items : s.export[i] \in {None, Live(i)} /\ (s.export[i] # None => CourseOf[i] = c)
      BY <2>2
    <3>2. \A i \in Items : s.export[i] <= course[i]
      BY <3>1, LiveTyped, BoundsTyped DEF TypeOK, None
    <3>3. \A i \in Items : s.export[i] # None => CourseOf[i] \in s.current /\ manifest[i] <= s.export[i]
      BY <3>1, <2>2, LiveTyped DEF OrderInv, Ordered
    <3>4. \A i \in Items : s.got[i] = None
      BY <2>2 DEF Nothing
    <3> QED
      BY <2>2, <2>5, <2>6, <3>2, <3>3, <3>4 DEF Downloads
  <2> QED
    BY <1>1, <2>4, <2>7, ExportFields, OrderStep
<1> QED
  BY <1>3, <1>4, <1>5, ExportFields

LEMMA OrderDownload ==
  ASSUME TypeOK, TypeOK', OrderInv, OneAtATime, NEW w \in Workers, DownloadFile(w)
  PROVE  OrderInv'
<1>1. Ordered'
  BY DownloadFields DEF OrderInv, Ordered
<1>2. Shape(w) /\ Downloads(w) /\ sync[w] \in Syncs
  BY DEF OrderInv, TypeOK
<1>3. Shape(w)'
  BY <1>2, DownloadFields DEF Shape
<1>4. \A i \in Items, v \in Versions :
        <<i, v>> \in sync'[w].held => /\ i \in sync[w].left /\ v = Live(i) /\ Live(i) # None
  <2>1. PICK k \in sync[w].left :
          \/ sync'[w].held = IF Live(k) # None THEN {<<k, Live(k)>>} ELSE {}
          \/ sync'[w].held = {}
    BY DownloadFields
  <2> SUFFICES ASSUME NEW i \in Items, NEW v \in Versions, <<i, v>> \in sync'[w].held
               PROVE  i \in sync[w].left /\ v = Live(i) /\ Live(i) # None
    OBVIOUS
  <2>2. Live(k) # None /\ <<i, v>> = <<k, Live(k)>>
    BY <2>1
  <2>3. i = k /\ v = Live(k)
    BY <2>2
  <2> QED
    BY <2>2, <2>3
<1>5. \A i \in Items, v \in Versions :
        <<i, v>> \in sync'[w].held
          => sync[w].export[i] # None /\ sync[w].export[i] <= v /\ v <= course[i]
  <2> SUFFICES ASSUME NEW i \in Items, NEW v \in Versions, <<i, v>> \in sync'[w].held
               PROVE  sync[w].export[i] # None /\ sync[w].export[i] <= v /\ v <= course[i]
    OBVIOUS
  <2>1. i \in sync[w].left /\ v = course[i] /\ v <= course[i]
    BY <1>4, LiveTyped
  <2>2. sync[w].export[i] <= course[i] /\ sync[w].export[i] # None
    BY <1>2, <2>1, DownloadFields DEF Downloads
  <2> QED
    BY <2>1, <2>2
<1>6. sync'[w].left \subseteq sync[w].left
  BY DownloadFields
<1>7. Downloads(w)'
  BY <1>2, <1>5, <1>6, DownloadFields DEF Downloads
<1> QED
  BY <1>1, <1>3, <1>7, DownloadFields, OrderStep

LEMMA OrderUpload ==
  ASSUME TypeOK, TypeOK', OrderInv, OneAtATime,
         NEW w \in Workers, NEW k \in Items, NEW v \in Versions, UploadFile(w, k, v)
  PROVE  OrderInv'
<1>1. Shape(w) /\ Downloads(w) /\ sync[w] \in Syncs /\ Ordered
  BY DEF OrderInv, TypeOK
<1> DEFINE s == sync'[w]
<1>2. /\ <<k, v>> \in sync[w].held /\ UNCHANGED <<course, manifest>>
      /\ \A u \in Workers \ {w} : sync'[u] = sync[u]
      /\ s.phase = sync[w].phase /\ s.todo = sync[w].todo /\ s.fetch = sync[w].fetch
      /\ s.current = sync[w].current /\ s.export = sync[w].export
      /\ s.left = sync[w].left /\ s.held = {} /\ s.stale = sync[w].stale
      /\ \/ /\ objects' = [objects EXCEPT ![k] = v]
            /\ s.got = [sync[w].got EXCEPT ![k] = sync[w].export[k]]
         \/ /\ objects' \in {objects, [objects EXCEPT ![k] = v]}
            /\ s.got = sync[w].got
  BY UploadFields
<1>3. sync[w].phase = "files"
  BY <1>1, <1>2 DEF Shape
<1>4. /\ sync[w].export[k] # None /\ sync[w].export[k] <= v /\ v <= course[k]
      /\ manifest[k] <= sync[w].export[k]
  BY <1>1, <1>2, <1>3 DEF Downloads
<1>5. /\ sync[w].got \in [Items -> Copies]
      /\ \A i \in Items : /\ course[i] \in Nat /\ objects[i] \in Nat /\ manifest[i] \in Nat
                          /\ sync[w].export[i] \in Nat /\ sync[w].got[i] \in Nat
      /\ v \in Nat
  BY <1>1, VersionsTyped, BoundsTyped DEF Syncs
<1>6. /\ \A i \in Items \ {k} : objects'[i] = objects[i] /\ s.got[i] = sync[w].got[i]
      /\ \/ objects'[k] = v /\ s.got[k] = sync[w].export[k]
         \/ objects'[k] \in {v, objects[k]} /\ s.got[k] = sync[w].got[k]
  BY <1>2, <1>5 DEF TypeOK
<1>7. Ordered'
  BY <1>1, <1>2, <1>4, <1>5, <1>6 DEF Ordered
<1>8. Shape(w)'
  BY <1>1, <1>2, <1>3 DEF Shape
<1>9. \A i \in Items : s.got[i] # None => s.got[i] = sync[w].export[i] /\ s.got[i] <= objects'[i]
  <2> SUFFICES ASSUME NEW i \in Items, s.got[i] # None
               PROVE  s.got[i] = sync[w].export[i] /\ s.got[i] <= objects'[i]
    OBVIOUS
  <2>1. sync[w].got[i] # None => sync[w].got[i] = sync[w].export[i] /\ sync[w].got[i] <= objects[i]
    BY <1>1, <1>3 DEF Downloads
  <2> QED
    BY <1>4, <1>5, <1>6, <2>1
<1>10. Downloads(w)'
  BY <1>1, <1>2, <1>3, <1>9 DEF Downloads
<1> QED
  BY <1>2, <1>3, <1>7, <1>8, <1>10, OrderStep

LEMMA OrderAccess ==
  ASSUME TypeOK, OrderInv, OneAtATime, NEW w \in Workers, CheckAccess(w)
  PROVE  OrderInv'
<1>1. Ordered'
  BY AccessFields DEF OrderInv, Ordered
<1>2. Shape(w) /\ Downloads(w)
  BY DEF OrderInv
<1>3. CASE sync'[w] = Idle
  BY <1>1, <1>3, AccessFields, IdleHolds, OrderStep
<1>4. CASE sync'[w] # Idle
  <2>1. Shape(w)'
    BY <1>2, <1>4, AccessFields DEF Shape
  <2>2. \A i \in sync'[w].left : sync[w].export[i] # None
    BY <1>4, AccessFields
  <2>3. Downloads(w)'
    BY <1>2, <1>4, <2>2, AccessFields DEF Downloads
  <2> QED
    BY <1>1, <2>1, <2>3, AccessFields, OrderStep
<1> QED
  BY <1>3, <1>4

LEMMA OrderText ==
  ASSUME TypeOK, OrderInv, OneAtATime, NEW w \in Workers, UploadText(w)
  PROVE  OrderInv'
<1>1. Shape(w) /\ Downloads(w) /\ sync[w] \in Syncs /\ Ordered
  BY DEF OrderInv, TypeOK
<1>2. PICK k \in sync[w].left :
        /\ objects' = [objects EXCEPT ![k] = sync[w].export[k]]
        /\ sync'[w].left = sync[w].left \ {k}
        /\ sync'[w].got = [sync[w].got EXCEPT ![k] = sync[w].export[k]]
  BY TextFields
<1>3. /\ k \in Items
      /\ sync[w].export \in [Items -> Copies] /\ sync[w].got \in [Items -> Copies]
      /\ \A i \in Items : /\ course[i] \in Nat /\ objects[i] \in Nat /\ manifest[i] \in Nat
                          /\ sync[w].export[i] \in Nat /\ sync[w].got[i] \in Nat
  BY <1>1, VersionsTyped DEF Syncs
<1>4. sync[w].phase = "texts" /\ UNCHANGED <<course, manifest>>
  BY TextFields
<1>5. /\ sync[w].export[k] # None /\ sync[w].export[k] <= course[k]
      /\ manifest[k] <= sync[w].export[k]
  BY <1>1, <1>3, <1>4 DEF Downloads
<1>6. /\ \A i \in Items \ {k} : objects'[i] = objects[i] /\ sync'[w].got[i] = sync[w].got[i]
      /\ objects'[k] = sync[w].export[k] /\ sync'[w].got[k] = sync[w].export[k]
  BY <1>2, <1>3 DEF TypeOK
<1>7. Ordered'
  BY <1>1, <1>3, <1>4, <1>5, <1>6 DEF Ordered
<1>8. Shape(w)'
  BY <1>1, TextFields DEF Shape
<1>9. \A i \in Items : sync'[w].got[i] # None => /\ sync'[w].got[i] = sync[w].export[i]
                                                /\ sync'[w].got[i] <= objects'[i]
  BY <1>1, <1>3, <1>4, <1>6 DEF Downloads
<1>10. Downloads(w)'
  BY <1>1, <1>2, <1>4, <1>9, TextFields DEF Downloads
<1> QED
  BY <1>7, <1>8, <1>10, TextFields, OrderStep

LEMMA OrderManifest ==
  ASSUME TypeOK, OrderInv, OneAtATime, NEW w \in Workers, WriteManifest(w)
  PROVE  OrderInv'
<1>1. Shape(w) /\ Downloads(w) /\ sync[w] \in Syncs /\ Ordered
  BY DEF OrderInv, TypeOK
<1>2. sync[w].got \in [Items -> Copies]
  BY <1>1 DEF Syncs
<1>3. sync[w].phase = "texts" /\ UNCHANGED <<course, objects>>
  BY ManifestFields
<1>4. \A i \in Items : manifest'[i] = manifest[i] \/ manifest'[i] = sync[w].got[i]
  BY ManifestFields DEF TypeOK
<1>5. \A i \in Items : sync[w].got[i] # None => sync[w].got[i] <= objects[i]
  BY <1>1, <1>3 DEF Downloads
<1>6. \A i \in Items : /\ course[i] \in Nat /\ objects[i] \in Nat /\ manifest[i] \in Nat
                       /\ sync[w].got[i] \in Nat
  BY VersionsTyped
<1>7. Ordered'
  BY <1>1, <1>3, <1>4, <1>5, <1>6 DEF Ordered, None
<1>8. Shape(w)'
  BY <1>1, ManifestFields DEF Shape
<1>9. Downloads(w)'
  BY ManifestFields DEF Downloads
<1> QED
  BY <1>7, <1>8, <1>9, ManifestFields, OrderStep

LEMMA OrderList ==
  ASSUME TypeOK, OrderInv, OneAtATime, NEW w \in Workers, ListStale(w)
  PROVE  OrderInv'
<1>1. Ordered'
  BY ListFields DEF OrderInv, Ordered
<1>2. Shape(w)
  BY DEF OrderInv
<1>3. Shape(w)'
  BY <1>2, ListFields DEF Shape
<1>4. Downloads(w)'
  BY ListFields DEF Downloads
<1> QED
  BY <1>1, <1>3, <1>4, ListFields, OrderStep

LEMMA OrderPrune ==
  ASSUME TypeOK, OrderInv, OneAtATime, NEW w \in Workers, Prune(w)
  PROVE  OrderInv'
<1>1. Ordered'
  BY PruneFields, BoundsTyped DEF OrderInv, Ordered, TypeOK, None
<1>2. Shape(w) /\ sync[w] \in Syncs
  BY DEF OrderInv, TypeOK
<1>3. CASE sync'[w] = Idle
  BY <1>1, <1>3, PruneFields, IdleHolds, OrderStep
<1>4. CASE sync'[w] # Idle
  <2>1. LET r == sync'[w] IN
        /\ r.todo = sync[w].todo /\ r.fetch = sync[w].fetch /\ r.current = {}
        /\ r.held = sync[w].held
        /\ r.phase = IF sync[w].fetch # {} THEN "export" ELSE "collect"
    BY <1>2, <1>4, PruneFields, AfterCourseFields
  <2>2. Shape(w)'
    BY <1>2, <2>1, PruneFields DEF Shape
  <2>3. Downloads(w)'
    BY <2>1 DEF Downloads
  <2> QED
    BY <1>1, <2>2, <2>3, PruneFields, OrderStep
<1> QED
  BY <1>3, <1>4

LEMMA OrderEnd ==
  ASSUME TypeOK, OrderInv, OneAtATime, NEW w \in Workers, CollectFiles(w) \/ FailSync(w)
  PROVE  OrderInv'
<1>1. Ordered'
  BY EndFields DEF OrderInv, Ordered
<1> QED
  BY <1>1, EndFields, IdleHolds, OrderStep

LEMMA OrderNext ==
  ASSUME TypeOK, TypeOK', OrderInv, OneAtATime, [Next]_vars
  PROVE  OrderInv'
<1>1. CASE UNCHANGED vars
  BY <1>1 DEF vars, counters, OrderInv, Ordered, Shape, Downloads
<1>2. CASE Next
  BY <1>2, OrderEdit, OrderStart, OrderCheck, OrderExport, OrderDownload, OrderUpload,
     OrderAccess, OrderText, OrderManifest, OrderList, OrderPrune, OrderEnd
     DEF Next, DownloadCourse
<1> QED
  BY <1>1, <1>2

\* As long as no two workers sync the datasource at the same time, the manifest
\* never records content newer than the object's: no failure, dead worker or
\* edit hides an edit from the reconcile check for good.
THEOREM RecordsStayBehind == Spec /\ []OneAtATime => []ManifestNotAhead
<1>1. OrderInv => ManifestNotAhead
  BY DEF OrderInv, Ordered, ManifestNotAhead
<1>2. TypeOK /\ TypeOK' /\ OrderInv /\ OneAtATime /\ [Next]_vars => OrderInv'
  BY OrderNext
<1> QED
  BY <1>1, <1>2, OrderInit, TypeInit, TypeNext, PTL DEF Spec

-----------------------------------------------------------------------------
(* What a check lets pass.                                                 *)

\* Every step of a worker leaves the syncs of the others alone.
LEMMA OwnSync ==
  ASSUME TypeOK, NEW u \in Workers,
         StartSync(u) \/ CheckCourse(u) \/ DownloadCourse(u) \/ CollectFiles(u) \/ FailSync(u)
  PROVE  \A v \in Workers \ {u} : sync'[v] = sync[v]
<1>1. CASE StartSync(u)
  BY <1>1, StartFields
<1>2. CASE CheckCourse(u)
  BY <1>2, CheckFields
<1>3. CASE ExportCourse(u)
  BY <1>3, ExportFields
<1>4. CASE DownloadFile(u)
  BY <1>4, DownloadFields
<1>5. ASSUME NEW i \in Items, NEW v \in Versions, UploadFile(u, i, v)
      PROVE  \A x \in Workers \ {u} : sync'[x] = sync[x]
  BY <1>5, UploadFields
<1>6. CASE CheckAccess(u)
  BY <1>6, AccessFields
<1>7. CASE UploadText(u)
  BY <1>7, TextFields
<1>8. CASE WriteManifest(u)
  BY <1>8, ManifestFields
<1>9. CASE ListStale(u)
  BY <1>9, ListFields
<1>10. CASE Prune(u)
  BY <1>10, PruneFields
<1>11. CASE CollectFiles(u) \/ FailSync(u)
  BY <1>11, EndFields
<1> QED
  BY <1>1, <1>2, <1>3, <1>4, <1>5, <1>6, <1>7, <1>8, <1>9, <1>10, <1>11 DEF DownloadCourse

\* Storage that does not differ from a fresh export has what the export says.
LEMMA SameIsCurrent ==
  ASSUME TypeOK, Ordered, NEW c \in Courses, ~ Diverges(c), NEW i \in ItemsOf(c) \ Unhashed
  PROVE  objects[i] = Live(i) /\ (Live(i) # None => manifest[i] = Live(i))
<1> DEFINE expected == {k \in ItemsOf(c) : Live(k) # None}
<1>1. /\ expected \subseteq Listed(c) /\ Listed(c) \cap ItemsOf(c) \subseteq expected
      /\ \A k \in (expected \cap Listed(c)) \ Unhashed : manifest[k] = Live(k)
  BY DEF Diverges
<1>2. i \in Items /\ CourseOf[i] \in Under[c]
  BY MoodleAssumption DEF ItemsOf
<1>3. CASE Live(i) = None
  <2>1. i \notin Listed(c)
    BY <1>1, <1>3
  <2> QED
    BY <1>2, <1>3, <2>1 DEF Listed
<1>4. CASE Live(i) # None
  <2>1. i \in Listed(c) /\ manifest[i] = Live(i)
    BY <1>1, <1>4
  <2>2. objects[i] # None /\ Live(i) = course[i]
    BY <1>2, <1>4, <2>1, LiveTyped DEF Listed
  <2>3. objects[i] <= course[i] /\ manifest[i] <= objects[i]
    BY <1>2, <2>2 DEF Ordered
  <2> QED
    BY <1>2, <2>1, <2>2, <2>3, VersionsTyped
<1> QED
  BY <1>3, <1>4

\* One step takes a course off the list only if it has been compared.
LEMMA SkipStep ==
  ASSUME TypeOK, OrderInv, Next, NEW w \in Workers, NEW c \in sync[w].todo,
         c \notin sync'[w].todo, sync'[w].phase # "idle", c \notin sync'[w].fetch,
         UNCHANGED faults
  PROVE  c \in Courses /\ ~ Diverges(c)
<1>1. c \in Courses
  BY DEF TypeOK, Syncs
<1>2. sync[w].phase = "check"
  BY DEF OrderInv, Shape
<1>3. ~ (\E i \in Items : EditCourse(i))
  BY DEF EditCourse
<1>4. PICK u \in Workers :
        StartSync(u) \/ CheckCourse(u) \/ DownloadCourse(u) \/ CollectFiles(u) \/ FailSync(u)
  BY <1>3 DEF Next
<1>5. u = w
  BY <1>4, OwnSync
<1>6. ~ FailSync(w) /\ ~ CollectFiles(w)
  BY EndFields, IdleFields
<1>7. ~ StartSync(w) /\ ~ DownloadCourse(w)
  <2>1. ASSUME NEW i \in Items, NEW v \in Versions PROVE ~ UploadFile(w, i, v)
    BY <1>2, UploadFields DEF OrderInv, Shape
  <2> QED
    BY <1>2, <2>1, StartFields, ExportFields, DownloadFields, AccessFields, TextFields,
       ManifestFields, ListFields, PruneFields DEF DownloadCourse
<1>8. CheckCourse(w)
  BY <1>4, <1>5, <1>6, <1>7
<1> QED
  BY <1>1, <1>8, CheckFields

\* A course that the reconcile check lets pass has in storage exactly what Moodle
\* serves at that moment, of every item whose hash the export gives.
THEOREM PassedCourseIsCurrent == Spec /\ []OneAtATime => SkippedIsCurrent
<1>1. ASSUME TypeOK, OrderInv, [Next]_vars
      PROVE  [\A w \in Workers : \A c \in sync[w].todo :
                 ( /\ c \notin sync'[w].todo
                   /\ sync'[w].phase # "idle"
                   /\ c \notin sync'[w].fetch
                   /\ UNCHANGED faults )
                 => \A i \in ItemsOf(c) \ Unhashed : objects[i] = Live(i)]_vars
  <2>1. CASE UNCHANGED vars
    BY <2>1
  <2>2. CASE Next
    <3>1. ASSUME NEW w \in Workers, NEW c \in sync[w].todo,
                 c \notin sync'[w].todo, sync'[w].phase # "idle", c \notin sync'[w].fetch,
                 UNCHANGED faults, NEW i \in ItemsOf(c) \ Unhashed
          PROVE  objects[i] = Live(i)
      <4>1. c \in Courses /\ ~ Diverges(c)
        BY <1>1, <2>2, <3>1, SkipStep
      <4> QED
        BY <1>1, <4>1, <3>1, SameIsCurrent DEF OrderInv
    <3> QED
      BY <3>1
  <2> QED
    BY <1>1, <2>1, <2>2
<1>2. TypeOK /\ TypeOK' /\ OrderInv /\ OneAtATime /\ [Next]_vars => OrderInv'
  BY OrderNext
<1> QED
  BY <1>1, <1>2, OrderInit, TypeInit, TypeNext, PTL DEF Spec, SkippedIsCurrent

-----------------------------------------------------------------------------
(* What is pruned.                                                         *)

LEMMA PruneStep ==
  ASSUME PruneInv, OneAtATime, OrderInv', NEW w \in Workers, sync[w].phase # "idle",
         \A v \in Workers \ {w} : sync'[v] = sync[v],
         Prunes(w)'
  PROVE  PruneInv'
<1>1. \A v \in Workers \ {w} : sync'[v] = Idle
  BY OthersIdle DEF PruneInv
<1>2. \A v \in Workers \ {w} : Prunes(v)'
  BY <1>1, IdleHolds
<1> QED
  BY <1>2 DEF PruneInv

\* What is removed in Moodle stays removed.
LEMMA PruneEdit ==
  ASSUME TypeOK, PruneInv, OrderInv', NEW k \in Items, EditCourse(k)
  PROVE  PruneInv'
<1>1. /\ UNCHANGED <<objects, sync>>
      /\ \A i \in Items : course[i] = Removed => course'[i] = Removed
  <2>1. PICK v \in 1 .. Removed : v > course[k] /\ course' = [course EXCEPT ![k] = v]
    BY DEF EditCourse
  <2> QED
    BY <2>1, BoundsTyped DEF EditCourse, TypeOK
<1>2. ASSUME NEW w \in Workers PROVE Prunes(w)'
  <2>1. sync'[w] = sync[w] /\ Prunes(w) /\ sync[w].stale \subseteq Items
    BY <1>1 DEF PruneInv, TypeOK, Syncs
  <2> QED
    BY <1>1, <2>1 DEF Prunes
<1> QED
  BY <1>2 DEF PruneInv

LEMMA PruneStart ==
  ASSUME TypeOK, PruneInv, OrderInv', NEW w \in Workers, StartSync(w)
  PROVE  PruneInv'
<1>1. ASSUME NEW v \in Workers \ {w} PROVE Prunes(v)'
  BY StartFields DEF PruneInv, Prunes
<1>2. Prunes(w)'
  BY StartFields DEF Prunes
<1> QED
  BY <1>1, <1>2 DEF PruneInv

\* What is not in the export either was never there, or has been removed.
LEMMA PruneExport ==
  ASSUME TypeOK, PruneInv, OrderInv', OneAtATime, NEW w \in Workers, ExportCourse(w)
  PROVE  PruneInv'
<1>1. CASE sync'[w] = Idle
  BY <1>1, ExportFields, IdleHolds, PruneStep
<1>2. CASE sync'[w].phase \in {"export", "collect"}
  <2>1. Prunes(w)'
    BY <1>2 DEF Prunes
  <2> QED
    BY <2>1, ExportFields, PruneStep
<1>3. CASE sync'[w] # Idle /\ sync'[w].phase \notin {"export", "collect"}
  <2>1. PICK c \in sync[w].fetch :
          LET s == sync'[w] IN
          /\ s.phase = "files" /\ s.current = {c}
          /\ s.export = [i \in Items |-> IF CourseOf[i] = c THEN Live(i) ELSE None]
    BY <1>3, ExportFields
  <2>2. UNCHANGED <<course, objects>>
    BY ExportFields
  <2>3. ASSUME NEW i \in Items, CourseOf[i] = c, Live(i) = None, objects[i] # None
        PROVE  course[i] = Removed
    <3>1. objects[i] <= course[i] /\ objects[i] \in Nat /\ objects[i] # 0
      BY <2>3, VersionsTyped DEF PruneInv, OrderInv, Ordered, None
    <3>2. course[i] \in {0, Removed}
      BY <2>3, LiveTyped DEF None
    <3> QED
      BY <3>1, <3>2
  <2>4. Prunes(w)'
    BY <2>1, <2>2, <2>3 DEF Prunes
  <2> QED
    BY <2>4, ExportFields, PruneStep
<1> QED
  BY <1>1, <1>2, <1>3

\* Only what is exported is uploaded.
LEMMA PruneUpload ==
  ASSUME TypeOK, PruneInv, OrderInv', OneAtATime,
         NEW w \in Workers, NEW k \in Items, NEW v \in Versions, UploadFile(w, k, v)
  PROVE  PruneInv'
<1>1. /\ <<k, v>> \in sync[w].held /\ UNCHANGED course
      /\ \A u \in Workers \ {w} : sync'[u] = sync[u]
      /\ sync'[w].phase = sync[w].phase /\ sync'[w].current = sync[w].current
      /\ sync'[w].export = sync[w].export
      /\ objects' \in {objects, [objects EXCEPT ![k] = v]}
  BY UploadFields
<1>2. sync[w].phase = "files" /\ sync[w].export[k] # None
  BY <1>1 DEF PruneInv, OrderInv, Shape, Downloads
<1>3. \A i \in Items \ {k} : objects'[i] = objects[i]
  BY <1>1 DEF TypeOK
<1>4. Prunes(w)'
  BY <1>1, <1>2, <1>3 DEF PruneInv, Prunes
<1> QED
  BY <1>1, <1>2, <1>4, PruneStep

LEMMA PruneText ==
  ASSUME TypeOK, PruneInv, OrderInv', OneAtATime, NEW w \in Workers, UploadText(w)
  PROVE  PruneInv'
<1>1. sync[w].phase = "texts" /\ UNCHANGED course
  BY TextFields
<1>2. PICK k \in sync[w].left : objects' = [objects EXCEPT ![k] = sync[w].export[k]]
  BY TextFields
<1>3. sync[w].export[k] # None
  BY <1>1 DEF PruneInv, OrderInv, Downloads
<1>4. \A i \in Items \ {k} : objects'[i] = objects[i]
  BY <1>2 DEF TypeOK
<1>5. Prunes(w)'
  BY <1>1, <1>3, <1>4, TextFields DEF PruneInv, Prunes
<1> QED
  BY <1>5, TextFields, PruneStep

\* The steps that touch neither Moodle nor the objects of the course in hand.
LEMMA PruneOthers ==
  ASSUME TypeOK, PruneInv, OrderInv', OneAtATime, NEW w \in Workers,
         CheckCourse(w) \/ DownloadFile(w) \/ CheckAccess(w) \/ WriteManifest(w)
           \/ CollectFiles(w) \/ FailSync(w)
  PROVE  PruneInv'
<1> USE DEF Prunes
<1>1. Prunes(w)
  BY DEF PruneInv
<1>2. CASE CheckCourse(w)
  <2>1. Prunes(w)'
    BY <1>2, CheckFields
  <2> QED
    BY <1>2, <2>1, CheckFields, PruneStep
<1>3. CASE DownloadFile(w)
  <2>1. Prunes(w)'
    BY <1>1, <1>3, DownloadFields
  <2> QED
    BY <1>3, <2>1, DownloadFields, PruneStep
<1>4. CASE CheckAccess(w)
  <2>1. Prunes(w)'
    BY <1>1, <1>4, AccessFields, IdleHolds
  <2> QED
    BY <1>4, <2>1, AccessFields, PruneStep
<1>5. CASE WriteManifest(w)
  <2>1. Prunes(w)'
    BY <1>1, <1>5, ManifestFields
  <2> QED
    BY <1>5, <2>1, ManifestFields, PruneStep
<1>6. CASE CollectFiles(w) \/ FailSync(w)
  BY <1>6, EndFields, IdleHolds, PruneStep
<1> QED
  BY <1>2, <1>3, <1>4, <1>5, <1>6

\* What is listed for pruning is of the course's own path and not in its export.
LEMMA PruneList ==
  ASSUME PathsApart, TypeOK, PruneInv, OrderInv', OneAtATime, NEW w \in Workers, ListStale(w)
  PROVE  PruneInv'
<1>1. PICK c \in sync[w].current :
        \/ sync'[w].stale = {i \in Listed(c) : sync[w].export[i] = None}
        \/ sync'[w].stale = sync[w].stale
  BY ListFields
<1>2. /\ sync[w].phase = "list" /\ sync'[w].phase = "prune" /\ UNCHANGED <<course, objects>>
      /\ sync'[w].current = sync[w].current
  BY ListFields
<1>3. sync[w].stale = {} /\ c \in Courses
  BY <1>2 DEF PruneInv, OrderInv, Shape, TypeOK, Syncs
<1>4. ASSUME NEW i \in sync'[w].stale
      PROVE  CourseOf[i] \in sync[w].current /\ (objects[i] # None => course[i] = Removed)
  <2>1. i \in Listed(c) /\ sync[w].export[i] = None
    BY <1>1, <1>3
  <2>2. i \in Items /\ CourseOf[i] = c
    BY <1>3, <2>1 DEF Listed, PathsApart
  <2> QED
    BY <1>2, <2>1, <2>2 DEF PruneInv, Prunes
<1>5. Prunes(w)'
  BY <1>2, <1>4 DEF Prunes
<1> QED
  BY <1>5, ListFields, PruneStep

LEMMA PrunePrune ==
  ASSUME TypeOK, PruneInv, OrderInv', OneAtATime, NEW w \in Workers, Prune(w)
  PROVE  PruneInv'
<1>1. sync'[w] = Idle \/ sync'[w].phase \in {"export", "collect"}
  BY PruneFields, AfterCourseFields, SyncTyped
<1>2. Prunes(w)'
  BY <1>1, IdleFields DEF Prunes
<1> QED
  BY <1>2, PruneFields, PruneStep

LEMMA PruneNext ==
  ASSUME PathsApart, TypeOK, TypeOK', PruneInv, OneAtATime, [Next]_vars
  PROVE  PruneInv'
<1>1. OrderInv'
  BY OrderNext DEF PruneInv
<1>2. CASE UNCHANGED vars
  BY <1>1, <1>2 DEF vars, counters, PruneInv, Prunes
<1>3. CASE Next
  BY <1>1, <1>3, PruneEdit, PruneStart, PruneExport, PruneUpload, PruneText, PruneOthers,
     PruneList, PrunePrune DEF Next, DownloadCourse
<1> QED
  BY <1>2, <1>3

LEMMA PruneInit == Init => PruneInv
<1> SUFFICES ASSUME Init PROVE PruneInv
  OBVIOUS
<1>1. \A w \in Workers : sync[w] = Idle
  BY DEF Init
<1>2. \A w \in Workers : Prunes(w)
  BY <1>1, IdleFields DEF Prunes
<1> QED
  BY <1>2, OrderInit DEF PruneInv

\* An object that a step takes out of storage was listed for pruning.
LEMMA PrunedWasStale ==
  ASSUME TypeOK, PruneInv, Next, NEW i \in Items, objects[i] # None, objects'[i] = None
  PROVE  Live(i) = None
<1>1. objects' # objects
  OBVIOUS
<1>2. ~ (\E k \in Items : EditCourse(k))
  BY <1>1 DEF EditCourse
<1>3. PICK w \in Workers :
        StartSync(w) \/ CheckCourse(w) \/ DownloadCourse(w) \/ CollectFiles(w) \/ FailSync(w)
  BY <1>2 DEF Next
<1>4. ASSUME NEW k \in Items, NEW v \in Versions, UploadFile(w, k, v) PROVE FALSE
  <2>1. objects' \in {objects, [objects EXCEPT ![k] = v]} /\ v # None
    BY <1>4, UploadFields, BoundsTyped
  <2> QED
    BY <2>1 DEF TypeOK
<1>5. ~ UploadText(w)
  <2> SUFFICES ASSUME UploadText(w) PROVE FALSE
    OBVIOUS
  <2>1. PICK k \in sync[w].left : objects' = [objects EXCEPT ![k] = sync[w].export[k]]
    BY TextFields
  <2>2. sync[w].export[k] # None
    BY TextFields DEF PruneInv, OrderInv, Downloads
  <2> QED
    BY <2>1, <2>2 DEF TypeOK
<1>6. Prune(w)
  BY <1>1, <1>3, <1>4, <1>5, StartFields, CheckFields, ExportFields, DownloadFields,
     AccessFields, ManifestFields, ListFields, EndFields DEF DownloadCourse
<1>7. i \in sync[w].stale /\ sync[w].phase = "prune"
  BY <1>6, PruneFields
<1>8. course[i] = Removed
  BY <1>7 DEF PruneInv, Prunes
<1> QED
  BY <1>8, BoundsTyped DEF Live

\* With paths of their own, and no two workers syncing the datasource at the same
\* time, an object is only pruned when Moodle no longer serves its item: neither a
\* file that failed to download nor one of another course is lost.
THEOREM OnlyGoneIsPruned ==
  ASSUME PathsApart
  PROVE  Spec /\ []OneAtATime => PrunedIsGoneUpstream
<1>1. ASSUME TypeOK, PruneInv, [Next]_vars
      PROVE  [\A i \in Items : objects[i] # None /\ objects'[i] = None => Live(i) = None]_vars
  BY <1>1, PrunedWasStale
<1>2. TypeOK /\ TypeOK' /\ PruneInv /\ OneAtATime /\ [Next]_vars => PruneInv'
  BY PruneNext
<1> QED
  BY <1>1, <1>2, PruneInit, TypeInit, TypeNext, PTL DEF Spec, PrunedIsGoneUpstream

-----------------------------------------------------------------------------
(* What an undisturbed ingestion collects.                                 *)

LEMMA LiveKept ==
  ASSUME UNCHANGED course
  PROVE  \A i \in Items : Live(i)' = Live(i)
  BY DEF Live

LEMMA MirroredKept ==
  ASSUME NEW c \in Courses, Mirrored(c), UNCHANGED course,
         \A i \in ItemsOf(c) : objects'[i] = objects[i] /\ manifest'[i] = manifest[i]
  PROVE  Mirrored(c)'
  BY LiveKept DEF Mirrored, ItemsOf

LEMMA SettledTyped ==
  ASSUME TypeOK, NEW w \in Workers
  PROVE  Settled(w) \in SUBSET Courses
  BY DEF TypeOK, Syncs, Settled

LEMMA QuietInit == Init => QuietInv
<1> SUFFICES ASSUME Init PROVE QuietInv
  OBVIOUS
<1>1. \A w \in Workers : sync[w] = Idle
  BY DEF Init
<1>2. \A w \in Workers : Undisturbed(w)
  BY <1>1, IdleFields DEF Undisturbed, Settled
<1>3. \A w \in Workers : sync[w].since <= edits + faults
  BY <1>1, IdleFields DEF Init
<1> QED
  BY <1>2, <1>3, PruneInit DEF QuietInv

\* A step of a sync that fails, or one of the others, leaves nothing to show.
LEMMA QuietStep ==
  ASSUME TypeOK, QuietInv, OneAtATime, PruneInv', NEW w \in Workers, sync[w].phase # "idle",
         \A v \in Workers \ {w} : sync'[v] = sync[v],
         edits' = edits, faults' = faults \/ faults' = faults + 1,
         sync'[w] = Idle \/ sync'[w].since = sync[w].since,
         sync'[w] # Idle /\ faults' = faults /\ Undisturbed(w) => Undisturbed(w)'
  PROVE  QuietInv'
<1>1. \A v \in Workers \ {w} : sync'[v] = Idle
  BY OthersIdle DEF QuietInv, PruneInv
<1>2. edits \in Nat /\ faults \in Nat /\ \A v \in Workers : sync[v].since \in Nat
  BY BoundsTyped DEF TypeOK, Syncs
<1>3. ASSUME NEW v \in Workers
      PROVE  /\ sync'[v].since <= edits' + faults'
             /\ Quiet(v)' => Undisturbed(v)'
  <2>1. CASE sync'[v] = Idle
    BY <1>2, <2>1, IdleHolds, IdleFields
  <2>2. CASE sync'[v] # Idle
    <3>1. v = w
      BY <1>1, <2>2
    <3>2. sync[w].since <= edits + faults
      BY DEF QuietInv
    <3>3. sync'[w].since = sync[w].since
      BY <2>2, <3>1
    <3>4. sync'[w].since <= edits' + faults'
      BY <1>2, <3>2, <3>3
    <3>5. Quiet(w)' => faults' = faults /\ Quiet(w)
      BY <1>2, <3>2, <3>3 DEF Quiet
    <3>6. Quiet(w)' => Undisturbed(w)'
      BY <2>2, <3>1, <3>5 DEF QuietInv
    <3> QED
      BY <3>1, <3>4, <3>6
  <2> QED
    BY <2>1, <2>2
<1> QED
  BY <1>3 DEF QuietInv

\* An edit disturbs every sync that is under way.
LEMMA QuietEdit ==
  ASSUME TypeOK, QuietInv, PruneInv', NEW k \in Items, EditCourse(k)
  PROVE  QuietInv'
<1>1. sync' = sync /\ edits' = edits + 1 /\ faults' = faults
  BY DEF EditCourse
<1>2. edits \in Nat /\ faults \in Nat /\ \A v \in Workers : sync[v].since \in Nat
  BY BoundsTyped DEF TypeOK, Syncs
<1>3. ASSUME NEW v \in Workers
      PROVE  sync'[v].since <= edits' + faults' /\ ~ Quiet(v)'
  BY <1>1, <1>2 DEF QuietInv, Quiet
<1> QED
  BY <1>3 DEF QuietInv

LEMMA QuietStart ==
  ASSUME TypeOK, QuietInv, PruneInv', NEW w \in Workers, StartSync(w)
  PROVE  QuietInv'
<1>1. /\ UNCHANGED <<course, objects, manifest, edits, faults>>
      /\ \A v \in Workers \ {w} : sync'[v] = sync[v]
  BY StartFields
<1>2. ASSUME NEW v \in Workers \ {w}
      PROVE  /\ sync'[v].since <= edits' + faults'
             /\ Quiet(v)' => Undisturbed(v)'
  <2>1. sync'[v] = sync[v]
    BY <1>1
  <2>2. Undisturbed(v)' <=> Undisturbed(v)
    BY <1>1, <2>1, LiveKept DEF Undisturbed, Settled, Mirrored, Mirrors, Live, ItemsOf
  <2> QED
    BY <1>1, <2>1, <2>2 DEF QuietInv, Quiet
<1>3. sync'[w].since <= edits' + faults'
  BY StartFields, BoundsTyped DEF TypeOK
<1>4. Undisturbed(w)'
  <2>1. Settled(w)' = {}
    BY StartFields DEF Settled
  <2> QED
    BY <2>1, StartFields DEF Undisturbed
<1> QED
  BY <1>2, <1>3, <1>4 DEF QuietInv

LEMMA QuietCheck ==
  ASSUME TypeOK, QuietInv, OneAtATime, PruneInv', NEW w \in Workers, CheckCourse(w)
  PROVE  QuietInv'
<1>1. PICK c \in sync[w].todo :
        LET s == sync'[w] IN
        /\ s.selected = sync[w].selected /\ s.since = sync[w].since
        /\ s.todo = sync[w].todo \ {c}
        /\ \/ s.fetch = sync[w].fetch \cup {c}
           \/ s.fetch = sync[w].fetch /\ (faults' # faults \/ ~ Diverges(c))
        /\ s.phase = IF s.todo # {} THEN "check"
                     ELSE IF s.fetch # {} THEN "export" ELSE "collect"
        /\ s.current = sync[w].current
  BY CheckFields
<1>2. UNCHANGED <<course, objects, manifest, edits>> /\ c \in Courses
  BY CheckFields DEF TypeOK, Syncs
<1>3. ASSUME faults' = faults, Undisturbed(w)
      PROVE  Undisturbed(w)'
  <2>1. ASSUME NEW b \in Settled(w)'
        PROVE  Mirrored(b)
    <3>1. b \in Settled(w) \/ (b = c /\ ~ Diverges(c))
      BY <1>1, <1>3, <2>1 DEF Settled
    <3>2. ~ Diverges(c) => Mirrored(c)
      BY <1>2, SameIsCurrent DEF Mirrored, QuietInv, PruneInv, OrderInv
    <3> QED
      BY <1>3, <3>1, <3>2 DEF Undisturbed
  <2>2. \A b \in Settled(w)' : Mirrored(b)'
    BY <1>2, <2>1, LiveKept DEF Mirrored, ItemsOf
  <2>3. sync'[w].phase \in {"check", "export", "collect"}
    BY <1>1
  <2> QED
    BY <2>2, <2>3 DEF Undisturbed
<1> QED
  BY <1>1, <1>3, CheckFields, QuietStep

LEMMA QuietExport ==
  ASSUME TypeOK, QuietInv, OneAtATime, PruneInv', NEW w \in Workers, ExportCourse(w)
  PROVE  QuietInv'
<1>1. /\ UNCHANGED <<course, objects, manifest, edits>> /\ sync[w].phase = "export"
      /\ faults' = faults \/ faults' = faults + 1
      /\ sync'[w] = Idle \/ sync'[w].since = sync[w].since
  BY ExportFields
<1>2. ASSUME faults' = faults, Undisturbed(w)
      PROVE  Undisturbed(w)'
  <2>1. faults # faults + 1
    BY DEF TypeOK
  <2>2. PICK c \in sync[w].fetch :
          LET s == sync'[w] IN
          /\ s.phase = "files" /\ s.current = {c} /\ s.selected = sync[w].selected
          /\ s.todo = sync[w].todo /\ s.fetch = sync[w].fetch \ {c}
          /\ s.export = [i \in Items |-> IF CourseOf[i] = c THEN Live(i) ELSE None]
          /\ s.left = {i \in Items \ Texts : s.export[i] # None}
          /\ s.held = sync[w].held
    BY <1>2, <2>1, ExportFields
  <2>3. Settled(w)' \subseteq Settled(w)
    BY <1>1, <2>2 DEF Settled, QuietInv, PruneInv, OrderInv, Shape
  <2>4. \A b \in Settled(w)' : Mirrored(b)'
    BY <1>1, <1>2, <2>3, LiveKept DEF Undisturbed, Mirrored, ItemsOf
  <2>5. sync'[w].held = {}
    BY <1>1, <2>2 DEF QuietInv, PruneInv, OrderInv, Shape
  <2>6. \A i \in Items : CourseOf[i] = c => sync'[w].export[i] = Live(i)
    BY <2>2
  <2>7. \A i \in Items \ Texts : CourseOf[i] = c /\ Live(i) # None => i \in sync'[w].left
    BY <2>2, <2>6
  <2>8. \A i \in Items : Live(i)' = Live(i)
    BY <1>1, LiveKept
  <2> QED
    BY <2>2, <2>4, <2>5, <2>6, <2>7, <2>8 DEF Undisturbed
<1> QED
  BY <1>1, <1>2, ExportFields, QuietStep

LEMMA QuietDownload ==
  ASSUME TypeOK, QuietInv, OneAtATime, PruneInv', NEW w \in Workers, DownloadFile(w)
  PROVE  QuietInv'
<1> DEFINE s == sync'[w]
<1>1. /\ UNCHANGED <<course, objects, manifest, edits>>
      /\ sync[w].phase = "files" /\ sync[w].held = {}
      /\ s.phase = "files" /\ s.selected = sync[w].selected /\ s.since = sync[w].since
      /\ s.todo = sync[w].todo /\ s.fetch = sync[w].fetch
      /\ s.current = sync[w].current /\ s.export = sync[w].export
      /\ s.got = sync[w].got
      /\ faults' = faults \/ faults' = faults + 1
  BY DownloadFields
<1>2. ASSUME faults' = faults, Undisturbed(w)
      PROVE  Undisturbed(w)'
  <2>1. faults # faults + 1
    BY DEF TypeOK
  <2>2. PICK k \in sync[w].left :
          /\ s.left = sync[w].left \ {k}
          /\ s.held = IF Live(k) # None THEN {<<k, Live(k)>>} ELSE {}
    BY <1>2, <2>1, DownloadFields
  <2>3. Settled(w)' = Settled(w)
    BY <1>1 DEF Settled
  <2>4. \A b \in Settled(w)' : Mirrored(b)'
    BY <1>1, <1>2, <2>3, LiveKept DEF Undisturbed, Mirrored, ItemsOf
  <2>5. \A i \in Items : Live(i)' = Live(i)
    BY <1>1, LiveKept
  <2>6. \A i \in Items : CourseOf[i] \in s.current => s.export[i] = Live(i)
    BY <1>1, <1>2 DEF Undisturbed
  <2>7. \A i \in Items, v \in Versions : <<i, v>> \in s.held => v = Live(i)
    <3> SUFFICES ASSUME NEW i \in Items, NEW v \in Versions, <<i, v>> \in s.held
                 PROVE  v = Live(i)
      OBVIOUS
    <3>1. <<i, v>> = <<k, Live(k)>>
      BY <2>2
    <3>2. i = k /\ v = Live(k)
      BY <3>1
    <3> QED
      BY <3>2
  <2>8. ASSUME NEW i \in Items \ Texts, CourseOf[i] \in s.current, Live(i) # None
        PROVE  \/ i \in s.left \/ <<i, Live(i)>> \in s.held
               \/ objects[i] = Live(i) /\ s.got[i] = Live(i)
    <3>1. \/ i \in sync[w].left
          \/ objects[i] = Live(i) /\ sync[w].got[i] = Live(i)
      BY <1>1, <1>2, <2>8 DEF Undisturbed
    <3>2. i = k => <<i, Live(i)>> \in s.held
      BY <2>2, <2>8
    <3> QED
      BY <1>1, <2>2, <3>1, <3>2
  <2> HIDE DEF s
  <2>9. \A i \in Items \ Texts : CourseOf[i] \in s.current /\ Live(i)' # None =>
           \/ i \in s.left \/ <<i, Live(i)'>> \in s.held
           \/ objects'[i] = Live(i)' /\ s.got[i] = Live(i)'
    BY <1>1, <2>5, <2>8
  <2>10. \A i \in Items, v \in Versions : <<i, v>> \in s.held => v = Live(i)'
    BY <2>5, <2>7
  <2>11. \A i \in Items : CourseOf[i] \in s.current => s.export[i] = Live(i)'
    BY <2>5, <2>6
  <2> QED
    BY <1>1, <2>4, <2>9, <2>10, <2>11 DEF Undisturbed, s
<1> QED
  BY <1>1, <1>2, DownloadFields, QuietStep

\* An upload touches only the course in hand, which is not settled.
LEMMA SettledKept ==
  ASSUME TypeOK, NEW w \in Workers, Undisturbed(w), UNCHANGED course,
         Settled(w)' \subseteq Settled(w),
         \A i \in Items : CourseOf[i] \notin sync[w].current
                             => objects'[i] = objects[i] /\ manifest'[i] = manifest[i]
  PROVE  \A c \in Settled(w)' : Mirrored(c)'
<1> SUFFICES ASSUME NEW c \in Settled(w)' PROVE Mirrored(c)'
  OBVIOUS
<1>1. c \in Courses /\ c \notin sync[w].current /\ Mirrored(c)
  BY SettledTyped DEF Undisturbed, Settled
<1>2. \A i \in ItemsOf(c) : objects'[i] = objects[i] /\ manifest'[i] = manifest[i]
  BY <1>1 DEF ItemsOf
<1> QED
  BY <1>1, <1>2, MirroredKept

LEMMA QuietUpload ==
  ASSUME TypeOK, QuietInv, OneAtATime, PruneInv',
         NEW w \in Workers, NEW k \in Items, NEW v \in Versions, UploadFile(w, k, v)
  PROVE  QuietInv'
<1> DEFINE s == sync'[w]
<1>1. /\ UNCHANGED <<course, manifest, edits>> /\ <<k, v>> \in sync[w].held
      /\ \A u \in Workers \ {w} : sync'[u] = sync[u]
      /\ s.phase = sync[w].phase /\ s.selected = sync[w].selected /\ s.since = sync[w].since
      /\ s.todo = sync[w].todo /\ s.fetch = sync[w].fetch
      /\ s.current = sync[w].current /\ s.export = sync[w].export
      /\ s.left = sync[w].left /\ s.held = {}
      /\ \/ /\ faults' = faults
            /\ objects' = [objects EXCEPT ![k] = v]
            /\ s.got = [sync[w].got EXCEPT ![k] = sync[w].export[k]]
         \/ faults' = faults + 1
  BY UploadFields
<1>2. /\ sync[w].phase = "files" /\ sync[w].export[k] # None
      /\ CourseOf[k] \in sync[w].current
      /\ \A file \in sync[w].held : file = <<k, v>>
  BY <1>1 DEF QuietInv, PruneInv, OrderInv, Shape, Downloads
<1>3. ASSUME faults' = faults, Undisturbed(w)
      PROVE  Undisturbed(w)'
  <2>1. faults # faults + 1 /\ sync[w].got \in [Items -> Copies] /\ objects \in [Items -> Copies]
    BY DEF TypeOK, Syncs
  <2>2. /\ objects' = [objects EXCEPT ![k] = v]
        /\ s.got = [sync[w].got EXCEPT ![k] = sync[w].export[k]]
    BY <1>1, <1>3, <2>1
  <2>3. /\ objects'[k] = v /\ s.got[k] = sync[w].export[k]
        /\ \A i \in Items \ {k} : objects'[i] = objects[i] /\ s.got[i] = sync[w].got[i]
    BY <2>1, <2>2
  <2>4. v = Live(k) /\ sync[w].export[k] = Live(k)
    BY <1>1, <1>2, <1>3 DEF Undisturbed
  <2>5. Settled(w)' = Settled(w)
    BY <1>1 DEF Settled
  <2>6. \A c \in Settled(w)' : Mirrored(c)'
    BY <1>1, <1>2, <1>3, <2>3, <2>5, SettledKept
  <2>7. ASSUME NEW i \in Items \ Texts, CourseOf[i] \in s.current, Live(i) # None
        PROVE  i \in s.left \/ (objects'[i] = Live(i) /\ s.got[i] = Live(i))
    <3>1. CASE i = k
      BY <2>3, <2>4, <3>1
    <3>2. CASE i # k
      <4>1. <<i, Live(i)>> \notin sync[w].held
        BY <1>2, <3>2
      <4> QED
        BY <1>1, <1>2, <1>3, <2>3, <2>7, <3>2, <4>1 DEF Undisturbed
    <3> QED
      BY <3>1, <3>2
  <2>8. \A i \in Items : Live(i)' = Live(i)
    BY <1>1, LiveKept
  <2>9. \A i \in Items : CourseOf[i] \in s.current => s.export[i] = Live(i)'
    BY <1>1, <1>2, <1>3, <2>8 DEF Undisturbed
  <2> HIDE DEF s
  <2>10. \A i \in Items \ Texts : CourseOf[i] \in s.current /\ Live(i)' # None =>
            i \in s.left \/ (objects'[i] = Live(i)' /\ s.got[i] = Live(i)')
    BY <2>7, <2>8
  <2> QED
    BY <1>1, <1>2, <2>6, <2>9, <2>10 DEF Undisturbed, s
<1> QED
  BY <1>1, <1>2, <1>3, QuietStep

LEMMA QuietAccess ==
  ASSUME TypeOK, QuietInv, OneAtATime, PruneInv', NEW w \in Workers, CheckAccess(w)
  PROVE  QuietInv'
<1> DEFINE s == sync'[w]
<1>1. /\ UNCHANGED <<course, objects, manifest, edits, faults>>
      /\ sync[w].phase = "files" /\ sync[w].left = {} /\ sync[w].held = {}
      /\ \/ s = Idle
         \/ /\ s.phase = "texts" /\ s.selected = sync[w].selected /\ s.since = sync[w].since
            /\ s.todo = sync[w].todo /\ s.fetch = sync[w].fetch
            /\ s.current = sync[w].current /\ s.export = sync[w].export
            /\ s.got = sync[w].got
            /\ s.left = {i \in Texts : sync[w].export[i] # None}
  BY AccessFields
<1>2. ASSUME s # Idle, Undisturbed(w)
      PROVE  Undisturbed(w)'
  <2>1. Settled(w)' = Settled(w)
    BY <1>1, <1>2 DEF Settled
  <2>2. \A c \in Settled(w)' : Mirrored(c)'
    BY <1>1, <1>2, <2>1, SettledKept
  <2>3. \A i \in Items : CourseOf[i] \in s.current => s.export[i] = Live(i)
    BY <1>1, <1>2 DEF Undisturbed
  <2>4. ASSUME NEW i \in Items, CourseOf[i] \in s.current, Live(i) # None
        PROVE  (i \in s.left /\ i \in Texts) \/ (objects[i] = Live(i) /\ s.got[i] = Live(i))
    <3>1. CASE i \in Texts
      BY <1>1, <1>2, <2>3, <2>4, <3>1
    <3>2. CASE i \notin Texts
      BY <1>1, <1>2, <2>4, <3>2 DEF Undisturbed
    <3> QED
      BY <3>1, <3>2
  <2>5. \A i \in Items : Live(i)' = Live(i)
    BY <1>1, LiveKept
  <2> HIDE DEF s
  <2>6. \A i \in Items : CourseOf[i] \in s.current => s.export[i] = Live(i)'
    BY <2>3, <2>5
  <2>7. \A i \in Items : CourseOf[i] \in s.current /\ Live(i)' # None =>
            (i \in s.left /\ i \in Texts) \/ (objects'[i] = Live(i)' /\ s.got[i] = Live(i)')
    BY <1>1, <2>4, <2>5
  <2> QED
    BY <1>1, <1>2, <2>2, <2>6, <2>7 DEF Undisturbed, s
<1> QED
  BY <1>1, <1>2, AccessFields, QuietStep

LEMMA QuietText ==
  ASSUME TypeOK, QuietInv, OneAtATime, PruneInv', NEW w \in Workers, UploadText(w)
  PROVE  QuietInv'
<1> DEFINE s == sync'[w]
<1>1. /\ UNCHANGED <<course, manifest, edits, faults>> /\ sync[w].phase = "texts"
      /\ s.phase = "texts" /\ s.selected = sync[w].selected /\ s.since = sync[w].since
      /\ s.todo = sync[w].todo /\ s.fetch = sync[w].fetch
      /\ s.current = sync[w].current /\ s.export = sync[w].export
  BY TextFields
<1>2. PICK k \in sync[w].left :
        /\ objects' = [objects EXCEPT ![k] = sync[w].export[k]]
        /\ s.left = sync[w].left \ {k}
        /\ s.got = [sync[w].got EXCEPT ![k] = sync[w].export[k]]
  BY TextFields
<1>3. /\ sync[w].got \in [Items -> Copies] /\ objects \in [Items -> Copies] /\ k \in Items
  BY DEF TypeOK, Syncs
<1>4. CourseOf[k] \in sync[w].current
  BY <1>1, <1>3 DEF QuietInv, PruneInv, OrderInv, Downloads
<1>5. /\ objects'[k] = sync[w].export[k] /\ s.got[k] = sync[w].export[k]
      /\ \A i \in Items \ {k} : objects'[i] = objects[i] /\ s.got[i] = sync[w].got[i]
  BY <1>2, <1>3
<1>6. ASSUME Undisturbed(w)
      PROVE  Undisturbed(w)'
  <2>1. Settled(w)' = Settled(w)
    BY <1>1 DEF Settled
  <2>2. \A c \in Settled(w)' : Mirrored(c)'
    BY <1>1, <1>4, <1>5, <1>6, <2>1, SettledKept
  <2>3. \A i \in Items : CourseOf[i] \in s.current => s.export[i] = Live(i)
    BY <1>1, <1>6 DEF Undisturbed
  <2>4. ASSUME NEW i \in Items, CourseOf[i] \in s.current, Live(i) # None
        PROVE  (i \in s.left /\ i \in Texts) \/ (objects'[i] = Live(i) /\ s.got[i] = Live(i))
    <3>1. (i \in sync[w].left /\ i \in Texts) \/ (objects[i] = Live(i) /\ sync[w].got[i] = Live(i))
      BY <1>1, <1>6, <2>4 DEF Undisturbed
    <3> QED
      BY <1>1, <1>2, <1>4, <1>5, <2>3, <3>1
  <2>5. \A i \in Items : Live(i)' = Live(i)
    BY <1>1, LiveKept
  <2> HIDE DEF s
  <2>6. \A i \in Items : CourseOf[i] \in s.current => s.export[i] = Live(i)'
    BY <2>3, <2>5
  <2>7. \A i \in Items : CourseOf[i] \in s.current /\ Live(i)' # None =>
            (i \in s.left /\ i \in Texts) \/ (objects'[i] = Live(i)' /\ s.got[i] = Live(i)')
    BY <2>4, <2>5
  <2> QED
    BY <1>1, <2>2, <2>6, <2>7 DEF Undisturbed, s
<1> QED
  BY <1>1, <1>6, TextFields, QuietStep

\* Everything exported has been obtained, and the manifest says so.
LEMMA QuietManifest ==
  ASSUME TypeOK, QuietInv, OneAtATime, PruneInv', NEW w \in Workers, WriteManifest(w)
  PROVE  QuietInv'
<1> DEFINE s == sync'[w]
<1>1. /\ UNCHANGED <<course, objects, edits, faults>>
      /\ sync[w].phase = "texts" /\ sync[w].left = {}
      /\ manifest' = IF sync[w].got = Nothing THEN manifest
                     ELSE [i \in Items |-> IF CourseOf[i] \in sync[w].current
                                           THEN sync[w].got[i] ELSE manifest[i]]
      /\ s.phase = "list" /\ s.selected = sync[w].selected /\ s.since = sync[w].since
      /\ s.todo = sync[w].todo /\ s.fetch = sync[w].fetch
      /\ s.current = sync[w].current /\ s.export = sync[w].export
  BY ManifestFields
<1>2. ASSUME Undisturbed(w)
      PROVE  Undisturbed(w)'
  <2>1. Settled(w)' = Settled(w)
    BY <1>1 DEF Settled
  <2>2. \A i \in Items : CourseOf[i] \notin sync[w].current => manifest'[i] = manifest[i]
    BY <1>1 DEF TypeOK
  <2>3. \A c \in Settled(w)' : Mirrored(c)'
    BY <1>1, <1>2, <2>1, <2>2, SettledKept
  <2>4. \A i \in Items : CourseOf[i] \in s.current => s.export[i] = Live(i)
    BY <1>1, <1>2 DEF Undisturbed
  <2>5. ASSUME NEW i \in Items, CourseOf[i] \in s.current, Live(i) # None
        PROVE  objects[i] = Live(i) /\ manifest'[i] = Live(i)
    <3>1. objects[i] = Live(i) /\ sync[w].got[i] = Live(i)
      BY <1>1, <1>2, <2>5 DEF Undisturbed
    <3>2. sync[w].got # Nothing
      BY <2>5, <3>1 DEF Nothing
    <3> QED
      BY <1>1, <2>5, <3>1, <3>2
  <2>6. \A i \in Items : Live(i)' = Live(i)
    BY <1>1, LiveKept
  <2> HIDE DEF s
  <2>7. \A i \in Items : CourseOf[i] \in s.current => s.export[i] = Live(i)'
    BY <2>4, <2>6
  <2>8. \A i \in Items : CourseOf[i] \in s.current /\ Live(i)' # None =>
            objects'[i] = Live(i)' /\ manifest'[i] = Live(i)'
    BY <1>1, <2>5, <2>6
  <2> QED
    BY <1>1, <2>3, <2>7, <2>8 DEF Undisturbed, Mirrors, s
<1> QED
  BY <1>1, <1>2, ManifestFields, QuietStep

LEMMA QuietList ==
  ASSUME TypeOK, QuietInv, OneAtATime, PruneInv', NEW w \in Workers, ListStale(w)
  PROVE  QuietInv'
<1> DEFINE s == sync'[w]
<1>1. /\ UNCHANGED <<course, objects, manifest, edits>> /\ sync[w].phase = "list"
      /\ s.phase = "prune" /\ s.selected = sync[w].selected /\ s.since = sync[w].since
      /\ s.todo = sync[w].todo /\ s.fetch = sync[w].fetch
      /\ s.current = sync[w].current
      /\ faults' = faults \/ faults' = faults + 1
  BY ListFields
<1>2. ASSUME faults' = faults, Undisturbed(w)
      PROVE  Undisturbed(w)'
  <2>1. faults # faults + 1
    BY DEF TypeOK
  <2>2. PICK c \in sync[w].current : s.stale = {i \in Listed(c) : sync[w].export[i] = None}
    BY <1>2, <2>1, ListFields
  <2>3. sync[w].current = {c} /\ c \in Courses
    BY <1>1, <2>2 DEF QuietInv, PruneInv, OrderInv, Shape
  <2>4. Settled(w)' = Settled(w)
    BY <1>1 DEF Settled
  <2>5. \A b \in Settled(w)' : Mirrored(b)'
    BY <1>1, <1>2, <2>4, SettledKept
  <2>6. \A i \in Items : CourseOf[i] \in s.current /\ Live(i) # None => Mirrors(i)
    BY <1>1, <1>2 DEF Undisturbed
  <2>7. ASSUME NEW i \in Items, CourseOf[i] \in s.current, Live(i) = None, objects[i] # None
        PROVE  i \in s.stale
    <3>1. sync[w].export[i] = None
      BY <1>1, <1>2, <2>7 DEF Undisturbed
    <3>2. CourseOf[i] \in Under[c]
      BY <1>1, <2>3, <2>7, MoodleAssumption
    <3> QED
      BY <2>2, <2>7, <3>1, <3>2 DEF Listed
  <2>8. \A i \in Items : Live(i)' = Live(i)
    BY <1>1, LiveKept
  <2> HIDE DEF s
  <2>9. \A i \in Items : CourseOf[i] \in s.current /\ Live(i)' # None =>
            objects'[i] = Live(i)' /\ manifest'[i] = Live(i)'
    BY <1>1, <2>6, <2>8 DEF Mirrors
  <2>10. \A i \in Items : CourseOf[i] \in s.current /\ Live(i)' = None /\ objects'[i] # None
            => i \in s.stale
    BY <1>1, <2>7, <2>8
  <2> QED
    BY <1>1, <2>5, <2>9, <2>10 DEF Undisturbed, Mirrors, s
<1> QED
  BY <1>1, <1>2, ListFields, QuietStep

\* With the pruning, the course in hand is settled.
LEMMA QuietPrune ==
  ASSUME TypeOK, QuietInv, OneAtATime, PruneInv', NEW w \in Workers, Prune(w)
  PROVE  QuietInv'
<1> DEFINE s == sync'[w]
<1>1. /\ UNCHANGED <<course, manifest, edits>> /\ sync[w].phase = "prune"
      /\ s = AfterCourse(sync[w])
      /\ faults' = faults \/ faults' = faults + 1
  BY PruneFields
<1>2. \/ s = Idle
      \/ /\ s.selected = sync[w].selected /\ s.todo = sync[w].todo /\ s.fetch = sync[w].fetch
         /\ s.current = {} /\ s.since = sync[w].since
         /\ s.phase \in {"export", "collect"}
  BY <1>1, AfterCourseFields, SyncTyped
<1>3. ASSUME s # Idle, faults' = faults, Undisturbed(w)
      PROVE  Undisturbed(w)'
  <2>1. faults # faults + 1 /\ objects \in [Items -> Copies]
    BY DEF TypeOK
  <2>2. objects' = [i \in Items |-> IF i \in sync[w].stale THEN None ELSE objects[i]]
    BY <1>3, <2>1, PruneFields
  <2>3. Settled(w)' \subseteq Settled(w) \cup sync[w].current
    BY <1>2, <1>3 DEF Settled
  <2>4. ASSUME NEW c \in Settled(w), c \notin sync[w].current
        PROVE  Mirrored(c)'
    <3>1. \A i \in ItemsOf(c) : i \notin sync[w].stale
      BY <1>1, <2>4 DEF QuietInv, PruneInv, Prunes, ItemsOf
    <3>2. \A i \in ItemsOf(c) : objects'[i] = objects[i]
      BY <2>2, <3>1 DEF ItemsOf
    <3> QED
      BY <1>1, <1>3, <3>2, SettledTyped, MirroredKept DEF Undisturbed
  <2>5. ASSUME NEW c \in sync[w].current
        PROVE  Mirrored(c)'
    <3>1. ASSUME NEW i \in ItemsOf(c)
          PROVE  objects'[i] = Live(i) /\ (Live(i) # None => manifest[i] = Live(i))
      <4>1. i \in Items /\ CourseOf[i] \in sync[w].current
        BY <2>5 DEF ItemsOf
      <4>2. CASE Live(i) # None
        <5>1. objects[i] = Live(i) /\ manifest[i] = Live(i)
          BY <1>1, <1>3, <4>1, <4>2 DEF Undisturbed, Mirrors
        <5>2. course[i] # Removed
          BY <4>1, <4>2, LiveTyped, BoundsTyped
        <5>3. i \notin sync[w].stale
          BY <1>1, <4>2, <5>1, <5>2 DEF QuietInv, PruneInv, Prunes
        <5> QED
          BY <2>2, <4>1, <5>1, <5>3
      <4>3. CASE Live(i) = None
        <5>1. objects[i] # None => i \in sync[w].stale
          BY <1>1, <1>3, <4>1, <4>3 DEF Undisturbed
        <5> QED
          BY <2>2, <4>1, <4>3, <5>1
      <4> QED
        BY <4>2, <4>3
    <3> QED
      BY <1>1, <3>1, LiveKept DEF Mirrored, ItemsOf
  <2>6. \A c \in Settled(w)' : Mirrored(c)'
    <3> SUFFICES ASSUME NEW c \in Settled(w)' PROVE Mirrored(c)'
      OBVIOUS
    <3> QED
      BY <2>3, <2>4, <2>5
  <2> QED
    BY <1>2, <1>3, <2>6 DEF Undisturbed
<1> QED
  BY <1>1, <1>2, <1>3, PruneFields, QuietStep

LEMMA QuietEnd ==
  ASSUME TypeOK, QuietInv, OneAtATime, PruneInv', NEW w \in Workers,
         CollectFiles(w) \/ FailSync(w)
  PROVE  QuietInv'
  BY EndFields, QuietStep

LEMMA QuietNext ==
  ASSUME PathsApart, TypeOK, TypeOK', QuietInv, OneAtATime, [Next]_vars
  PROVE  QuietInv'
<1>1. PruneInv'
  BY PruneNext DEF QuietInv
<1>2. CASE UNCHANGED vars
  <2>1. UNCHANGED <<course, objects, manifest, sync, edits, faults>>
    BY <1>2 DEF vars, counters
  <2>2. \A w \in Workers : Undisturbed(w)' <=> Undisturbed(w)
    BY <2>1 DEF Undisturbed, Settled, Mirrored, Mirrors, Live, ItemsOf
  <2> QED
    BY <1>1, <2>1, <2>2 DEF QuietInv, Quiet
<1>3. CASE Next
  BY <1>1, <1>3, QuietEdit, QuietStart, QuietCheck, QuietExport, QuietDownload, QuietUpload,
     QuietAccess, QuietText, QuietManifest, QuietList, QuietPrune, QuietEnd
     DEF Next, DownloadCourse
<1> QED
  BY <1>2, <1>3

\* What is collected of a mirrored course is what Moodle serves.
LEMMA CollectedIsLive ==
  ASSUME TypeOK, QuietInv, NEW w \in Workers, CollectFiles(w), Quiet(w), UNCHANGED faults,
         NEW i \in Items \ Unhashed, CourseOf[i] \in sync[w].selected
  PROVE  served'[i] = Live(i)
<1> DEFINE files == UNION {CollectedFrom(c, manifest) : c \in sync[w].selected}
<1>1. sync[w].phase = "collect"
  BY DEF CollectFiles
<1>2. served' = [k \in Items |-> IF k \in files THEN objects[k] ELSE None]
  BY FaultTyped DEF CollectFiles
<1>3. Settled(w) = sync[w].selected
  BY <1>1 DEF Settled, QuietInv, PruneInv, OrderInv, Shape
<1>4. objects[i] = Live(i) /\ (Live(i) # None => manifest[i] = Live(i))
  BY <1>3 DEF QuietInv, Undisturbed, Mirrored, ItemsOf
<1>5. CASE Live(i) = None
  BY <1>2, <1>4, <1>5
<1>6. CASE Live(i) # None
  <2>1. CourseOf[i] \in Under[CourseOf[i]]
    BY MoodleAssumption
  <2>2. i \in CollectedFrom(CourseOf[i], manifest)
    BY <1>4, <1>6, <2>1 DEF CollectedFrom, Listed
  <2>3. i \in files
    BY <2>2
  <2> QED
    BY <1>2, <1>4, <2>3
<1> QED
  BY <1>5, <1>6

\* A step from the collection to idle that counts no fault is the collection.
LEMMA CollectStep ==
  ASSUME TypeOK, Next, NEW w \in Workers, sync[w].phase = "collect", sync'[w].phase = "idle",
         UNCHANGED faults
  PROVE  CollectFiles(w)
<1>1. sync'[w] # sync[w]
  OBVIOUS
<1>2. ~ (\E i \in Items : EditCourse(i))
  BY <1>1 DEF EditCourse
<1>3. PICK u \in Workers :
        StartSync(u) \/ CheckCourse(u) \/ DownloadCourse(u) \/ CollectFiles(u) \/ FailSync(u)
  BY <1>2 DEF Next
<1>4. u = w
  BY <1>1, <1>3, OwnSync
<1>5. ~ FailSync(w)
  BY FaultTyped DEF FailSync
<1>6. ASSUME NEW i \in Items, NEW v \in Versions PROVE ~ UploadFile(w, i, v)
  BY UploadFields
<1>7. ~ DownloadCourse(w) /\ ~ StartSync(w) /\ ~ CheckCourse(w)
  BY <1>6, StartFields, CheckFields, ExportFields, DownloadFields, AccessFields, TextFields,
     ManifestFields, ListFields, PruneFields DEF DownloadCourse
<1> QED
  BY <1>3, <1>4, <1>5, <1>7

\* Whatever the earlier syncs went through, an ingestion in which nothing fails
\* and nothing is edited collects of its courses what Moodle serves, of every item
\* whose hash the export gives.
THEOREM UndisturbedIngestionServesCourse ==
  ASSUME PathsApart
  PROVE  Spec /\ []OneAtATime => QuietSyncServesCourse
<1>1. ASSUME TypeOK, QuietInv, [Next]_vars
      PROVE  [\A w \in Workers :
                ( /\ sync[w].phase = "collect" /\ sync'[w].phase = "idle"
                  /\ sync[w].since = edits + faults
                  /\ UNCHANGED faults )
                => \A i \in Items \ Unhashed :
                      CourseOf[i] \in sync[w].selected => served'[i] = Live(i)]_vars
  <2>1. CASE UNCHANGED vars
    BY <2>1
  <2>2. CASE Next
    <3>1. ASSUME NEW w \in Workers, sync[w].phase = "collect", sync'[w].phase = "idle",
                 sync[w].since = edits + faults, UNCHANGED faults,
                 NEW i \in Items \ Unhashed, CourseOf[i] \in sync[w].selected
          PROVE  served'[i] = Live(i)
      <4>1. CollectFiles(w)
        BY <1>1, <2>2, <3>1, CollectStep
      <4>2. Quiet(w)
        BY <3>1 DEF Quiet
      <4> QED
        BY <1>1, <3>1, <4>1, <4>2, CollectedIsLive
    <3> QED
      BY <3>1
  <2> QED
    BY <1>1, <2>1, <2>2
<1>2. TypeOK /\ TypeOK' /\ QuietInv /\ OneAtATime /\ [Next]_vars => QuietInv'
  BY QuietNext
<1> QED
  BY <1>1, <1>2, QuietInit, TypeInit, TypeNext, PTL DEF Spec, QuietSyncServesCourse

=============================================================================
