------------------------ MODULE CourseCatalogueProofs -----------------------
(***************************************************************************)
(* For any courses, saves, syncs and faults: what is selected is what the  *)
(* last reindex was prepared with, or it is recorded why not; a course     *)
(* leaves the catalogue only by a sync that Moodle did not list it to; and *)
(* a sync that nothing disturbs makes the catalogue that of Moodle.        *)
(*                                                                         *)
(* Of the selection, the shape of the saves is enough: a save that changes *)
(* it either goes on to a reindex or has written over another.  Of the     *)
(* catalogue, a sync under way has fetched just the courses before its     *)
(* offset as long as Moodle does not change, and the one sync that has     *)
(* loaded the rows knows all of them as long as no two overlap.            *)
(***************************************************************************)
EXTENDS CourseCatalogue, FiniteSetTheorems, SequenceTheorems, TLAPS

-----------------------------------------------------------------------------
(* The selection.                                                          *)

SaveStages == {"none", "read", "stored", "failed", "over"}

SavesOK ==
    /\ selection \subseteq Courses
    /\ save \in [Saves -> [at : SaveStages, seen : SUBSET Courses, wanted : SUBSET Courses]]

SelectionInv == SavesOK /\ SelectionIsSent

LEMMA SelectionInit == Init => SelectionInv
  BY DEF Init, SelectionInv, SavesOK, SaveStages, NoSave, SelectionIsSent

\* A prepared reindex has the selection of now.
LEMMA ReindexSends ==
  ASSUME SelectionInv, SavesOK', NEW s \in Syncs, Reindex(s)
  PROVE  SelectionInv'
  BY DEF SelectionInv, SelectionIsSent, Reindex

\* The steps of a save other than its reindex.
LEMMA SaveSteps ==
  ASSUME SelectionInv, NEW u \in Saves,
         ReadSelection(u) \/ StoreSelection(u) \/ ReindexFails(u)
  PROVE  SelectionInv'
<1> USE DEF SelectionInv, SavesOK, SaveStages
<1>1. CASE ReadSelection(u)
  <2>1. PICK wanted \in SUBSET Offered :
          save' = [save EXCEPT ![u] = [at |-> "read", seen |-> selection, wanted |-> wanted]]
    BY <1>1 DEF ReadSelection
  <2>2. save[u].at = "none" /\ UNCHANGED <<selection, sent, slips>>
    BY <1>1 DEF ReadSelection, syncVars
  <2>3. SavesOK'
    BY <2>1, <2>2, OfferedAreCourses DEF Courses
  <2>4. SelectionIsSent'
    BY <2>1, <2>2 DEF SelectionIsSent
  <2> QED
    BY <2>3, <2>4
<1>2. CASE StoreSelection(u)
  <2> DEFINE stage == IF Reindexes(u) THEN "stored" ELSE "over"
  <2>1. save' = [save EXCEPT ![u] = [NoSave EXCEPT !.at = stage]]
    BY <1>2 DEF StoreSelection
  <2>2. /\ save[u].at = "read" /\ sent' = sent
        /\ selection' = save[u].wanted
           \/ (save[u].wanted = save[u].seen /\ selection' = selection)
        /\ slips' = slips \union (IF selection # save[u].seen THEN {"overwritten"} ELSE {})
    BY <1>2 DEF StoreSelection
  <2>3. SavesOK'
    BY <2>1, <2>2 DEF NoSave
  <2>4. CASE Reindexes(u)
    <3>1. save'[u].at = "stored"
      BY <2>1, <2>4 DEF NoSave
    <3>2. SelectionIsSent'
      BY <3>1 DEF SelectionIsSent
    <3> QED
      BY <2>3, <3>2
  <2>5. CASE ~Reindexes(u)
    <3>1. save[u].wanted = save[u].seen
      BY <2>5 DEF Reindexes
    <3>2. CASE selection # save[u].seen
      <4>1. "overwritten" \in slips'
        BY <2>2, <3>2
      <4>2. SelectionIsSent'
        BY <4>1 DEF SelectionIsSent
      <4> QED
        BY <2>3, <4>2
    <3>3. CASE selection = save[u].seen
      <4>1. selection' = selection
        BY <2>2, <3>1, <3>3
      <4>2. SelectionIsSent'
        BY <2>1, <2>2, <4>1 DEF SelectionIsSent
      <4> QED
        BY <2>3, <4>2
    <3> QED
      BY <2>3, <3>2, <3>3
  <2> QED
    BY <2>3, <2>4, <2>5
<1>3. CASE ReindexFails(u)
  <2>1. /\ save' = [save EXCEPT ![u].at = "failed"]
        /\ UNCHANGED <<selection, sent, slips>>
    BY <1>3 DEF ReindexFails, syncVars
  <2>2. SavesOK'
    BY <2>1
  <2>3. SelectionIsSent'
    BY <2>1 DEF SelectionIsSent
  <2> QED
    BY <2>2, <2>3
<1> QED
  BY <1>1, <1>2, <1>3

\* A step that leaves the selection, the saves and what was sent alone may at
\* most record another race.
LEMMA SelectionAlone ==
  ASSUME SelectionInv, UNCHANGED <<selection, sent, save>>, slips \subseteq slips'
  PROVE  SelectionInv'
  BY DEF SelectionInv, SavesOK, SelectionIsSent

LEMMA SelectionStep == SelectionInv /\ [Next]_vars => SelectionInv'
<1> SUFFICES ASSUME SelectionInv, [Next]_vars PROVE SelectionInv'
  OBVIOUS
<1>1. CASE MoodleChanges
  BY <1>1, SelectionAlone DEF MoodleChanges
<1>2. ASSUME NEW s \in Syncs, ReindexAnyway(s) PROVE SelectionInv'
  <2>1. SavesOK'
    BY <1>2 DEF ReindexAnyway, Reindex, SelectionInv, SavesOK
  <2> QED
    BY <1>2, <2>1, ReindexSends DEF ReindexAnyway
<1>3. ASSUME NEW s \in Syncs, Publish(s) \/ PublishFails(s) PROVE SelectionInv'
  BY <1>3, SelectionAlone DEF Publish, PublishFails
<1>4. ASSUME NEW s \in Syncs, WorkerStep(s) \/ SyncFails(s) \/ WorkerDies(s)
      PROVE  SelectionInv'
  BY <1>4, SelectionAlone DEF WorkerStep, Claim, FetchPage, Format, SyncFails, WorkerDies
<1>5. ASSUME NEW s \in Syncs, SubscriberStep(s) \/ HandlerDies(s) PROVE SelectionInv'
  BY <1>5, SelectionAlone
  DEF SubscriberStep, LoadRows, CommitCourses, CommitIsStale, ApplyFailure, HandlerDies
<1>6. ASSUME NEW u \in Saves, ReadSelection(u) \/ StoreSelection(u) \/ ReindexFails(u)
      PROVE  SelectionInv'
  BY <1>6, SaveSteps
<1>7. ASSUME NEW u \in Saves, NEW s \in Syncs, ReindexAfterSave(u, s) PROVE SelectionInv'
  <2>1. SavesOK'
    BY <1>7 DEF ReindexAfterSave, Reindex, SelectionInv, SavesOK, SaveStages
  <2> QED
    BY <1>7, <2>1, ReindexSends DEF ReindexAfterSave
<1>8. CASE UNCHANGED vars
  BY <1>8, SelectionAlone DEF vars
<1> QED
  BY <1>1, <1>2, <1>3, <1>4, <1>5, <1>6, <1>7, <1>8 DEF Next

\* The courses selected are those the last reindex was prepared with, while no
\* save is on its way to one, unless a reindex failed or two saves overlapped.
THEOREM SelectionSentCorrect == Spec => []SelectionIsSent
<1>1. SelectionInv => SelectionIsSent
  BY DEF SelectionInv
<1> QED
  BY <1>1, SelectionInit, SelectionStep, PTL DEF Spec

-----------------------------------------------------------------------------
(* The invariant of the catalogue.                                         *)

Stages == {"none", "prepared", "queued", "paging", "listed", "reported", "loaded",
           "applied", "failing", "failed", "lost"}
Entry == [course : Courses, version : Nat, place : Nat]
RowOK(r) == DOMAIN r = {"course", "sync", "place", "version"} /\ r.course \in Courses
SyncOK(q) ==
    /\ DOMAIN q = DOMAIN NoSync
    /\ q.at \in Stages
    /\ q.since \in Nat /\ q.offset \in Nat
    /\ q.got \subseteq Entry
    /\ q.whole \in BOOLEAN
    /\ \A r \in q.rows : RowOK(r)
    /\ q.at \in {"none", "prepared", "queued"} => q.offset = 0 /\ q.got = {}

ShapeOK ==
    /\ moodle \in [Courses -> Nat]
    /\ changes \in Nat
    /\ \A r \in rows : RowOK(r)
    /\ DOMAIN sync = Syncs
    /\ \A s \in Syncs : SyncOK(sync[s]) /\ sync[s].since <= changes

\* The entries of the courses before a place, and of all.
EntryOf(c) == [course |-> c, version |-> moodle[c], place |-> Place(c)]
EntriesBefore(n) == {EntryOf(c) : c \in {d \in Present : Place(d) < n}}
AllEntries == {EntryOf(c) : c \in Present}

\* What a sync knows whose Moodle has not changed since it began.
ListingOK ==
    \A s \in Syncs : sync[s].since = changes =>
        /\ sync[s].at = "paging" => sync[s].got = EntriesBefore(sync[s].offset)
        /\ sync[s].at \in {"listed", "reported", "loaded", "applied"} /\ sync[s].whole =>
              /\ sync[s].got = AllEntries
              /\ sync[s].gone = Courses \ Present

\* One row for each course, and one sync at a time that has loaded them, all of
\* them, as long as no two overlapped and no listing repeated a course.
OneRowEach(rs) == \A r, q \in rs : r.course = q.course => r = q
LoadedOK ==
    \/ "overlapped" \in slips \/ "repeated" \in slips
    \/ /\ OneRowEach(rows)
       /\ \A s \in Syncs : sync[s].at = "loaded" => sync[s].rows = rows
       /\ \A s, t \in Syncs : sync[s].at = "loaded" /\ sync[t].at = "loaded" => s = t

CatalogueInv == ShapeOK /\ ListingOK /\ LoadedOK

LEMMA CoursesAreFinite == IsFiniteSet(Courses)
<1>1. /\ Order \in [1 .. Len(Order) -> Range(Order)]
      /\ Len(Order) \in Nat
  BY CoursesAreOrdered
<1>2. DOMAIN Order = 1 .. Len(Order)
  BY <1>1
<1>3. Order \in Surjection(DOMAIN Order, Courses)
  BY <1>1, <1>2 DEF Surjection, Courses, Range
<1>4. IsFiniteSet(DOMAIN Order)
  BY <1>1, <1>2, FS_Interval
<1> QED
  BY <1>3, <1>4, FS_Surjection

\* Every course of the listing has a place in it.
LEMMA PlaceIsInListing ==
  ASSUME NEW c \in Present
  PROVE  /\ Place(c) \in Nat
         /\ Cardinality(Present) \in Nat
         /\ Place(c) < Cardinality(Present)
<1> DEFINE before == {d \in Present : \E i, j \in DOMAIN Order :
                                        i < j /\ Order[i] = d /\ Order[j] = c}
<1>1. IsFiniteSet(Present)
  BY CoursesAreFinite, FS_Subset DEF Present
<1>2. /\ IsFiniteSet(before)
      /\ Cardinality(before) <= Cardinality(Present)
      /\ Cardinality(Present) = Cardinality(before) => Present = before
  BY <1>1, FS_Subset
<1>3. Cardinality(before) \in Nat /\ Cardinality(Present) \in Nat
  BY <1>1, <1>2, FS_CardinalityType
<1>4. DOMAIN Order \subseteq Nat
  BY CoursesAreOrdered
<1>5. c \notin before
  <2> SUFFICES ASSUME NEW i \in DOMAIN Order, NEW j \in DOMAIN Order,
                      i < j, Order[i] = c, Order[j] = c
               PROVE  FALSE
    OBVIOUS
  <2>1. i = j
    BY CoursesAreOrdered
  <2> QED
    BY <2>1, <1>4
<1>6. Place(c) = Cardinality(before)
  BY DEF Place
<1> QED
  BY <1>2, <1>3, <1>5, <1>6

-----------------------------------------------------------------------------
(* The steps.  Moodle stays as it is, or every sync under way is disturbed.*)

LEMMA CatalogueInit == Init => CatalogueInv
<1> SUFFICES ASSUME Init PROVE CatalogueInv
  OBVIOUS
<1>1. ShapeOK
  <2>1. SyncOK(NoSync) /\ NoSync.since = 0
    BY DEF SyncOK, NoSync, Stages
  <2>2. /\ DOMAIN sync = Syncs
        /\ \A s \in Syncs : sync[s] = NoSync
    BY DEF Init
  <2>3. moodle \in [Courses -> Nat] /\ changes = 1 /\ rows = {}
    BY DEF Init
  <2> QED
    BY <2>1, <2>2, <2>3 DEF ShapeOK
<1>2. ListingOK
  BY DEF Init, ListingOK, NoSync
<1>3. LoadedOK
  BY DEF Init, LoadedOK, OneRowEach, NoSync
<1> QED
  BY <1>1, <1>2, <1>3 DEF CatalogueInv

\* What only the sync of the step can disturb.
Others(s) ==
    /\ DOMAIN sync' = Syncs
    /\ \A t \in Syncs \ {s} : sync'[t] = sync[t]

\* The entries are those of before while Moodle stays as it is.
LEMMA EntriesStay ==
  ASSUME UNCHANGED moodle
  PROVE  /\ Present' = Present
         /\ AllEntries' = AllEntries
         /\ \A n : EntriesBefore(n)' = EntriesBefore(n)
  BY DEF Present, AllEntries, EntriesBefore, EntryOf, Place

LEMMA OneSyncMoves ==
  ASSUME CatalogueInv, NEW s \in Syncs, Others(s), SyncOK(sync'[s]),
         UNCHANGED <<moodle, changes>>, sync'[s].since <= changes,
         \A r \in rows' : RowOK(r),
         sync'[s].since = changes =>
             /\ sync'[s].at = "paging" => sync'[s].got = EntriesBefore(sync'[s].offset)
             /\ sync'[s].at \in {"listed", "reported", "loaded", "applied"} /\ sync'[s].whole =>
                   sync'[s].got = AllEntries /\ sync'[s].gone = Courses \ Present,
         LoadedOK'
  PROVE  CatalogueInv'
<1>1. ShapeOK'
  BY DEF CatalogueInv, ShapeOK, Others
<1>2. ListingOK'
  BY EntriesStay DEF CatalogueInv, ListingOK, Others
<1> QED
  BY <1>1, <1>2 DEF CatalogueInv

\* A step of a sync that neither has nor comes to have loaded the rows.
LEMMA LoadedStays ==
  ASSUME LoadedOK, NEW s \in Syncs, Others(s), sync'[s].at # "loaded", rows' = rows,
         slips \subseteq slips'
  PROVE  LoadedOK'
  BY DEF LoadedOK, OneRowEach, Others

LEMMA RequestStep ==
  ASSUME CatalogueInv, NEW s \in Syncs, Reindex(s) \/ Publish(s) \/ Claim(s)
  PROVE  CatalogueInv'
<1> DEFINE q == sync[s]
           t == sync'[s]
<1>1. /\ SyncOK(q) /\ q.since <= changes /\ DOMAIN sync = Syncs /\ changes \in Nat
      /\ \A r \in rows : RowOK(r)
  BY DEF CatalogueInv, ShapeOK
<1>2. CASE Reindex(s) \/ Publish(s)
  <2>1. /\ Others(s)
        /\ q.at \in {"none", "prepared"} /\ t.at \in {"prepared", "queued"}
        /\ t = [q EXCEPT !.at = t.at]
        /\ UNCHANGED <<moodle, rows, changes, slips>>
    BY <1>1, <1>2 DEF Reindex, Publish, Others, SyncOK, NoSync
  <2>2. SyncOK(t) /\ t.since = q.since
    BY <1>1, <2>1 DEF SyncOK, NoSync, Stages
  <2>3. LoadedOK'
    BY <2>1, LoadedStays DEF CatalogueInv
  <2> QED
    BY <1>1, <2>1, <2>2, <2>3, OneSyncMoves
<1>3. CASE Claim(s)
  <2>1. /\ Others(s) /\ q.at = "queued"
        /\ t = [q EXCEPT !.at = "paging", !.since = changes]
        /\ UNCHANGED <<moodle, rows, changes, slips>>
    BY <1>1, <1>3 DEF Claim, Others, SyncOK, NoSync
  <2>2. SyncOK(t) /\ t.at = "paging" /\ t.since = changes /\ t.got = {} /\ t.offset = 0
    BY <1>1, <2>1 DEF SyncOK, NoSync, Stages
  <2>3. EntriesBefore(0) = {}
    BY PlaceIsInListing DEF EntriesBefore
  <2>4. LoadedOK'
    BY <2>1, <2>2, LoadedStays DEF CatalogueInv
  <2>5. t.got = EntriesBefore(t.offset)
    BY <2>2, <2>3
  <2>6. t.since <= changes
    BY <1>1, <2>2
  <2> QED
    BY <1>1, <2>1, <2>2, <2>4, <2>5, <2>6, OneSyncMoves
<1> QED
  BY <1>2, <1>3

LEMMA FetchPageStep ==
  ASSUME CatalogueInv, NEW s \in Syncs, FetchPage(s)
  PROVE  CatalogueInv'
<1> DEFINE q == sync[s]
           t == sync'[s]
<1>1. /\ SyncOK(q) /\ q.since <= changes /\ DOMAIN sync = Syncs /\ changes \in Nat
      /\ moodle \in [Courses -> Nat]
      /\ \A r \in rows : RowOK(r)
  BY DEF CatalogueInv, ShapeOK
<1>2. /\ Others(s) /\ q.at = "paging"
      /\ t = [q EXCEPT !.got = q.got \union PageAt(q.offset),
                       !.offset = q.offset + PageSize,
                       !.at = IF HasMore(q.offset) THEN "paging" ELSE "listed",
                       !.gone = Courses \ Present]
      /\ UNCHANGED <<moodle, rows, changes, slips>>
  BY <1>1 DEF FetchPage, NextOffset, Others, SyncOK, NoSync
<1>3. /\ DOMAIN t = DOMAIN NoSync
      /\ t.got = q.got \union PageAt(q.offset) /\ t.offset = q.offset + PageSize
      /\ t.at = (IF HasMore(q.offset) THEN "paging" ELSE "listed")
      /\ t.gone = Courses \ Present
      /\ t.since = q.since /\ t.whole = q.whole /\ t.rows = q.rows
  BY <1>1, <1>2 DEF SyncOK, NoSync
<1>4. PageAt(q.offset) =
        {EntryOf(c) : c \in {d \in Present : q.offset <= Place(d) /\ Place(d) < q.offset + PageSize}}
  BY DEF PageAt, EntryOf
<1>5. PageAt(q.offset) \subseteq Entry
  <2>1. \A c \in Present : EntryOf(c) \in Entry
    BY <1>1, PlaceIsInListing DEF EntryOf, Entry, Present
  <2> QED
    BY <1>4, <2>1
<1>6. SyncOK(t)
  BY <1>1, <1>3, <1>5, PagesHaveCourses DEF SyncOK, Stages
<1>7. ASSUME q.since = changes
      PROVE  t.got = EntriesBefore(q.offset + PageSize)
  <2>1. q.got = EntriesBefore(q.offset)
    BY <1>2, <1>7 DEF CatalogueInv, ListingOK
  <2>2. \A c \in Present : /\ Place(c) \in Nat
                           /\ Place(c) < q.offset + PageSize <=>
                                \/ Place(c) < q.offset
                                \/ q.offset <= Place(c) /\ Place(c) < q.offset + PageSize
    BY <1>1, PlaceIsInListing, PagesHaveCourses DEF SyncOK
  <2> QED
    BY <1>3, <1>4, <2>1, <2>2 DEF EntriesBefore
<1>8. ASSUME ~ HasMore(q.offset)
      PROVE  EntriesBefore(q.offset + PageSize) = AllEntries
  <2>1. \A c \in Present : Place(c) < q.offset + PageSize
    BY <1>1, <1>8, PlaceIsInListing, PagesHaveCourses DEF SyncOK, HasMore
  <2> QED
    BY <2>1 DEF EntriesBefore, AllEntries
<1>9. LoadedOK'
  BY <1>2, <1>3, LoadedStays DEF CatalogueInv
<1>10. t.since = changes =>
         /\ t.at = "paging" => t.got = EntriesBefore(t.offset)
         /\ t.at \in {"listed", "reported", "loaded", "applied"} /\ t.whole =>
               t.got = AllEntries /\ t.gone = Courses \ Present
  BY <1>3, <1>7, <1>8
<1> QED
  BY <1>1, <1>2, <1>3, <1>6, <1>9, <1>10, OneSyncMoves

LEMMA FormatStep ==
  ASSUME CatalogueInv, NEW s \in Syncs, Format(s)
  PROVE  CatalogueInv'
<1> DEFINE q == sync[s]
           t == sync'[s]
<1>1. /\ SyncOK(q) /\ q.since <= changes /\ DOMAIN sync = Syncs
      /\ \A r \in rows : RowOK(r)
  BY DEF CatalogueInv, ShapeOK
<1>2. /\ Others(s) /\ q.at = "listed"
      /\ UNCHANGED <<moodle, rows, changes, slips>>
      /\ t = [q EXCEPT !.at = "reported"]
         \/ \E c : t = [q EXCEPT !.at = "reported", !.whole = FALSE,
                                  !.got = {e \in q.got : e.course # c}]
  <2>1. /\ q.at = "listed"
        /\ UNCHANGED <<moodle, rows, changes, slips>>
        /\ \/ sync' = [sync EXCEPT ![s].at = "reported"]
           \/ \E c : sync' = [sync EXCEPT ![s].at = "reported", ![s].whole = FALSE,
                                          ![s].got = {e \in q.got : e.course # c}]
    BY DEF Format
  <2>2. CASE sync' = [sync EXCEPT ![s].at = "reported"]
    BY <1>1, <2>1, <2>2 DEF Others
  <2>3. CASE \E c : sync' = [sync EXCEPT ![s].at = "reported", ![s].whole = FALSE,
                                        ![s].got = {e \in q.got : e.course # c}]
    <3>1. PICK c : sync' = [sync EXCEPT ![s].at = "reported", ![s].whole = FALSE,
                                        ![s].got = {e \in q.got : e.course # c}]
      BY <2>3
    <3>2. /\ Others(s)
          /\ t = [q EXCEPT !.at = "reported", !.whole = FALSE,
                           !.got = {e \in q.got : e.course # c}]
      BY <1>1, <3>1 DEF Others, SyncOK, NoSync
    <3> QED
      BY <2>1, <3>2
  <2> QED
    BY <2>1, <2>2, <2>3
<1>3. /\ DOMAIN t = DOMAIN NoSync
      /\ t.since = q.since /\ t.gone = q.gone /\ t.at = "reported"
      /\ t.offset = q.offset /\ t.rows = q.rows /\ t.got \subseteq q.got
  <2>1. CASE t = [q EXCEPT !.at = "reported"]
    BY <1>1, <2>1 DEF SyncOK, NoSync
  <2>2. ASSUME NEW c, t = [q EXCEPT !.at = "reported", !.whole = FALSE,
                                    !.got = {e \in q.got : e.course # c}]
        PROVE  /\ DOMAIN t = DOMAIN NoSync
               /\ t.since = q.since /\ t.gone = q.gone /\ t.at = "reported"
               /\ t.offset = q.offset /\ t.rows = q.rows
               /\ t.got \subseteq q.got
    BY <1>1, <2>2 DEF SyncOK, NoSync
  <2> QED
    BY <1>2, <2>1, <2>2
<1>4. (t.whole = q.whole /\ t.got = q.got) \/ t.whole = FALSE
  BY <1>1, <1>2 DEF SyncOK, NoSync
<1>7. SyncOK(t)
  BY <1>1, <1>3, <1>4 DEF SyncOK, Stages
<1>5. LoadedOK'
  BY <1>2, <1>3, LoadedStays DEF CatalogueInv
<1>6. t.since = changes /\ t.whole => t.got = AllEntries /\ t.gone = Courses \ Present
  BY <1>2, <1>3, <1>4 DEF CatalogueInv, ListingOK
<1> QED
  BY <1>1, <1>2, <1>3, <1>5, <1>6, <1>7, OneSyncMoves

LEMMA EndStep ==
  ASSUME CatalogueInv, NEW s \in Syncs,
         PublishFails(s) \/ SyncFails(s) \/ WorkerDies(s) \/ CommitIsStale(s) \/ ApplyFailure(s)
  PROVE  CatalogueInv'
<1> DEFINE t == sync'[s]
<1>1. /\ DOMAIN sync = Syncs /\ changes \in Nat
      /\ \A r \in rows : RowOK(r)
  BY DEF CatalogueInv, ShapeOK
<1>2. PICK at \in {"lost", "failing", "failed"} :
        /\ sync' = [sync EXCEPT ![s] = [NoSync EXCEPT !.at = at]]
        /\ UNCHANGED <<moodle, rows, changes, slips>>
  BY DEF PublishFails, SyncFails, WorkerDies, CommitIsStale, ApplyFailure, Ends
<1>3. /\ Others(s)
      /\ t.at = at /\ t.since = 0 /\ SyncOK(t)
  BY <1>1, <1>2 DEF Others, SyncOK, NoSync, Stages
<1>4. LoadedOK'
  BY <1>2, <1>3, LoadedStays DEF CatalogueInv
<1>5. t.since <= changes
  BY <1>1, <1>3
<1> QED
  BY <1>1, <1>2, <1>3, <1>4, <1>5, OneSyncMoves

\* A handler has the rows of now, one for each course.
LEMMA LoadRowsStep ==
  ASSUME CatalogueInv, NEW s \in Syncs, LoadRows(s)
  PROVE  CatalogueInv'
<1> DEFINE q == sync[s]
           t == sync'[s]
<1>1. /\ SyncOK(q) /\ q.since <= changes /\ DOMAIN sync = Syncs
      /\ \A r \in rows : RowOK(r)
  BY DEF CatalogueInv, ShapeOK
<1>2. PICK existing \in SUBSET rows :
        /\ CourseOf(existing) = CourseOf(rows)
        /\ sync' = [sync EXCEPT ![s].at = "loaded", ![s].rows = existing,
                                ![s].status = status]
  BY DEF LoadRows
<1>3. /\ q.at = "reported"
      /\ UNCHANGED <<moodle, rows, changes>>
      /\ slips' = slips \union
           (IF \E o \in Syncs : sync[o].at = "loaded" THEN {"overlapped"} ELSE {})
  BY DEF LoadRows
<1>4. /\ Others(s)
      /\ DOMAIN t = DOMAIN NoSync
      /\ t.at = "loaded" /\ t.rows = existing
      /\ t.since = q.since /\ t.offset = q.offset /\ t.got = q.got /\ t.gone = q.gone
      /\ t.whole = q.whole
  BY <1>1, <1>2 DEF Others, SyncOK, NoSync
<1>5. SyncOK(t)
  BY <1>1, <1>4 DEF SyncOK, Stages
<1>6. OneRowEach(rows) => existing = rows
  <2> SUFFICES ASSUME OneRowEach(rows), NEW r \in rows PROVE r \in existing
    OBVIOUS
  <2>1. r.course \in CourseOf(existing)
    BY <1>2 DEF CourseOf
  <2>2. PICK o \in existing : o.course = r.course
    BY <2>1 DEF CourseOf
  <2> QED
    BY <2>2 DEF OneRowEach
<1>7. LoadedOK'
  <2>1. CASE \E o \in Syncs : sync[o].at = "loaded"
    BY <1>3, <2>1 DEF LoadedOK
  <2>2. CASE ~ \E o \in Syncs : sync[o].at = "loaded"
    BY <1>3, <1>4, <1>6, <2>2 DEF CatalogueInv, LoadedOK, Others, OneRowEach
  <2> QED
    BY <2>1, <2>2
<1>8. t.since = changes /\ t.whole => t.got = AllEntries /\ t.gone = Courses \ Present
  BY <1>3, <1>4 DEF CatalogueInv, ListingOK
<1> QED
  BY <1>1, <1>3, <1>4, <1>5, <1>7, <1>8, OneSyncMoves

LEMMA HandlerDiesStep ==
  ASSUME CatalogueInv, NEW s \in Syncs, HandlerDies(s)
  PROVE  CatalogueInv'
<1> DEFINE q == sync[s]
           t == sync'[s]
<1>1. /\ SyncOK(q) /\ q.since <= changes /\ DOMAIN sync = Syncs
      /\ \A r \in rows : RowOK(r)
  BY DEF CatalogueInv, ShapeOK
<1>2. /\ q.at \in {"loaded", "applied"}
      /\ sync' = [sync EXCEPT ![s].at = "reported", ![s].rows = {}, ![s].status = "ready"]
      /\ UNCHANGED <<moodle, rows, changes, slips>>
  BY DEF HandlerDies
<1>3. /\ Others(s)
      /\ DOMAIN t = DOMAIN NoSync
      /\ t.at = "reported" /\ t.rows = {}
      /\ t.since = q.since /\ t.offset = q.offset /\ t.got = q.got /\ t.gone = q.gone
      /\ t.whole = q.whole
  BY <1>1, <1>2 DEF Others, SyncOK, NoSync
<1>4. SyncOK(t)
  BY <1>1, <1>3 DEF SyncOK, Stages
<1>5. LoadedOK'
  BY <1>2, <1>3, LoadedStays DEF CatalogueInv
<1>6. t.since = changes /\ t.whole => t.got = AllEntries /\ t.gone = Courses \ Present
  BY <1>2, <1>3 DEF CatalogueInv, ListingOK
<1> QED
  BY <1>1, <1>2, <1>3, <1>4, <1>5, <1>6, OneSyncMoves

\* Whoever changes Moodle disturbs every sync under way.
LEMMA MoodleStep ==
  ASSUME CatalogueInv, MoodleChanges
  PROVE  CatalogueInv'
<1>1. /\ changes' = changes + 1 /\ changes \in Nat
      /\ UNCHANGED <<rows, sync, slips>>
  BY DEF MoodleChanges, CatalogueInv, ShapeOK
<1>2. moodle' \in [Courses -> Nat]
  <2>1. PICK c \in Courses, v \in {0, changes'} : moodle' = [moodle EXCEPT ![c] = v]
    BY DEF MoodleChanges
  <2> QED
    BY <1>1, <2>1 DEF CatalogueInv, ShapeOK
<1>3. \A s \in Syncs : SyncOK(sync[s]) /\ sync[s].since <= changes /\ sync[s].since \in Nat
  BY DEF CatalogueInv, ShapeOK, SyncOK
<1>4. \A s \in Syncs : sync'[s].since <= changes' /\ sync'[s].since # changes'
  BY <1>1, <1>3
<1>5. ShapeOK'
  BY <1>1, <1>2, <1>3, <1>4 DEF CatalogueInv, ShapeOK
<1>6. ListingOK'
  BY <1>4 DEF ListingOK
<1>7. LoadedOK'
  BY <1>1 DEF CatalogueInv, LoadedOK
<1> QED
  BY <1>5, <1>6, <1>7 DEF CatalogueInv

-----------------------------------------------------------------------------
(* The commit of a listing.                                                *)

\* What a commit writes: no course leaves that the listing has.
LEMMA CommittedCourses ==
  ASSUME CatalogueInv, NEW s \in Syncs, CommitCourses(s)
  PROVE  /\ \A r \in rows' : RowOK(r)
         /\ \A c \in CourseOf(rows) \ CourseOf(rows') : ~ ListedIn(sync[s].got, c)
<1> DEFINE q == sync[s]
           touched == Updated(q.got, q.rows)
           added == Added(s, q.got, q.rows)
           replaced == {r \in rows : \E o \in touched \union Removed(q.got, q.rows) :
                            Key(o) = Key(r)}
<1>1. rows' = IF q.got = {} THEN rows ELSE (rows \ replaced) \union touched \union added
  BY DEF CommitCourses
<1>2. /\ \A r \in rows : RowOK(r)
      /\ \A r \in q.rows : RowOK(r)
      /\ q.got \subseteq Entry
  BY DEF CatalogueInv, ShapeOK, SyncOK
<1>3. \A r \in touched : RowOK(r) /\ \E o \in q.rows : o.course = r.course
  BY <1>2 DEF Updated, RowOK
<1>4. \A r \in added : RowOK(r)
  BY <1>2 DEF Added, RowOK, Entry
<1>5. \A r \in rows' : RowOK(r)
  BY <1>1, <1>2, <1>3, <1>4
<1>6. ASSUME NEW c, c \in CourseOf(rows), ListedIn(q.got, c)
      PROVE  c \in CourseOf(rows')
  <2>1. q.got # {}
    BY <1>6 DEF ListedIn
  <2>2. CASE c \in CourseOf(q.rows)
    <3>1. PICK r \in q.rows : r.course = c
      BY <2>2 DEF CourseOf
    <3>2. [r EXCEPT !.version = LastVersion(q.got, r.course)] \in touched
      BY <1>6, <3>1 DEF Updated
    <3>3. [r EXCEPT !.version = LastVersion(q.got, r.course)].course = c
      BY <1>2, <3>1 DEF RowOK
    <3> QED
      BY <1>1, <2>1, <3>2, <3>3 DEF CourseOf
  <2>3. CASE c \notin CourseOf(q.rows)
    <3>1. PICK e \in q.got : e.course = c
      BY <1>6 DEF ListedIn
    <3>2. [course |-> e.course, sync |-> s, place |-> e.place, version |-> e.version] \in added
      BY <2>3, <3>1 DEF Added
    <3> QED
      BY <1>1, <2>1, <3>1, <3>2 DEF CourseOf
  <2> QED
    BY <2>2, <2>3
<1> QED
  BY <1>5, <1>6

\* Over all the rows, one for each course, a listing that has each course once
\* leaves just what it lists, in one row each.
LEMMA CommittedRows ==
  ASSUME CatalogueInv, NEW s \in Syncs, CommitCourses(s), sync[s].got # {},
         ~ ListedTwice(sync[s].got), OneRowEach(rows), sync[s].rows = rows
  PROVE  /\ OneRowEach(rows')
         /\ \A r \in rows' : \E e \in sync[s].got : r.course = e.course /\ r.version = e.version
         /\ \A e \in sync[s].got : \E r \in rows' : r.course = e.course
<1> DEFINE q == sync[s]
           touched == Updated(q.got, rows)
           added == Added(s, q.got, rows)
           removed == Removed(q.got, rows)
           replaced == {r \in rows : \E o \in touched \union removed : Key(o) = Key(r)}
<1>1. rows' = (rows \ replaced) \union touched \union added
  BY DEF CommitCourses
<1>2. /\ \A r \in rows : RowOK(r)
      /\ q.got \subseteq Entry
      /\ \A e, o \in q.got : e.course = o.course => e = o
  BY DEF CatalogueInv, ShapeOK, SyncOK, ListedTwice
<1>3. ASSUME NEW e \in q.got
      PROVE  LastVersion(q.got, e.course) = e.version
  <2>1. {o \in q.got : o.course = e.course} = {e}
    BY <1>2
  <2>2. e.place \in Nat
    BY <1>2 DEF Entry
  <2> DEFINE last == CHOOSE l \in {e} : \A o \in {e} : o.place <= l.place
  <2>3. last = e
    <3>1. \E l \in {e} : \A o \in {e} : o.place <= l.place
      BY <2>2
    <3> QED
      BY <3>1
  <2> QED
    BY <2>1, <2>3 DEF LastVersion
<1>4. rows \ replaced = {}
  <2> SUFFICES ASSUME NEW r \in rows PROVE r \in replaced
    OBVIOUS
  <2>1. CASE ListedIn(q.got, r.course)
    <3> DEFINE o == [r EXCEPT !.version = LastVersion(q.got, r.course)]
    <3>1. o \in touched
      BY <2>1 DEF Updated
    <3>2. Key(o) = Key(r)
      BY <1>2 DEF Key, RowOK
    <3> QED
      BY <3>1, <3>2
  <2>2. CASE ~ ListedIn(q.got, r.course)
    <3>1. r \in removed
      BY <2>2 DEF Removed
    <3> QED
      BY <3>1
  <2> QED
    BY <2>1, <2>2
<1>5. rows' = touched \union added
  BY <1>1, <1>4
<1>6. ASSUME NEW r \in touched
      PROVE  /\ \E o \in rows : r = [o EXCEPT !.version = LastVersion(q.got, o.course)]
                                /\ o.course = r.course
             /\ \E e \in q.got : r.course = e.course /\ r.version = e.version
  <2>1. PICK o \in rows : /\ ListedIn(q.got, o.course)
                          /\ r = [o EXCEPT !.version = LastVersion(q.got, o.course)]
    BY DEF Updated
  <2>2. PICK e \in q.got : e.course = o.course
    BY <2>1 DEF ListedIn
  <2>3. r.course = o.course /\ r.version = LastVersion(q.got, o.course)
    BY <1>2, <2>1 DEF RowOK
  <2> QED
    BY <1>3, <2>1, <2>2, <2>3
<1>7. ASSUME NEW r \in added
      PROVE  /\ r.course \notin CourseOf(rows)
             /\ \E e \in q.got :
                  r = [course |-> e.course, sync |-> s, place |-> e.place, version |-> e.version]
  BY DEF Added
<1>8. OneRowEach(rows')
  <2> SUFFICES ASSUME NEW r \in touched \union added, NEW p \in touched \union added,
                      r.course = p.course
               PROVE  r = p
    BY <1>5 DEF OneRowEach
  <2>1. CASE r \in touched /\ p \in touched
    BY <1>6, <2>1 DEF OneRowEach
  <2>2. CASE r \in added /\ p \in added
    <3>1. PICK e \in q.got :
            r = [course |-> e.course, sync |-> s, place |-> e.place, version |-> e.version]
      BY <1>7, <2>2
    <3>2. PICK o \in q.got :
            p = [course |-> o.course, sync |-> s, place |-> o.place, version |-> o.version]
      BY <1>7, <2>2
    <3>3. e = o
      BY <1>2, <3>1, <3>2
    <3> QED
      BY <3>1, <3>2, <3>3
  <2>3. \A x \in touched : x.course \in CourseOf(rows)
    BY <1>6 DEF CourseOf
  <2> QED
    BY <1>7, <2>1, <2>2, <2>3
<1>9. \A r \in rows' : \E e \in q.got : r.course = e.course /\ r.version = e.version
  BY <1>5, <1>6, <1>7
<1>10. ASSUME NEW e \in q.got PROVE \E r \in rows' : r.course = e.course
  <2>1. CASE e.course \in CourseOf(rows)
    <3>1. PICK o \in rows : o.course = e.course
      BY <2>1 DEF CourseOf
    <3>2. [o EXCEPT !.version = LastVersion(q.got, o.course)] \in touched
      BY <3>1 DEF Updated, ListedIn
    <3>3. [o EXCEPT !.version = LastVersion(q.got, o.course)].course = e.course
      BY <1>2, <3>1 DEF RowOK
    <3> QED
      BY <1>5, <3>2, <3>3
  <2>2. CASE e.course \notin CourseOf(rows)
    <3>1. [course |-> e.course, sync |-> s, place |-> e.place, version |-> e.version] \in added
      BY <2>2 DEF Added
    <3> QED
      BY <1>5, <3>1
  <2> QED
    BY <2>1, <2>2
<1> QED
  BY <1>8, <1>9, <1>10

LEMMA CommitStep ==
  ASSUME CatalogueInv, NEW s \in Syncs, CommitCourses(s)
  PROVE  CatalogueInv'
<1> DEFINE q == sync[s]
           t == sync'[s]
<1>1. SyncOK(q) /\ q.since <= changes /\ DOMAIN sync = Syncs
  BY DEF CatalogueInv, ShapeOK
<1>2. /\ q.at = "loaded"
      /\ sync' = [sync EXCEPT ![s].at = "applied", ![s].rows = {}, ![s].status = "ready"]
      /\ UNCHANGED <<moodle, changes>>
      /\ slips' = slips \union (IF ListedTwice(q.got) THEN {"repeated"} ELSE {})
      /\ q.got = {} => rows' = rows
  BY DEF CommitCourses
<1>3. /\ Others(s)
      /\ DOMAIN t = DOMAIN NoSync
      /\ t.at = "applied" /\ t.rows = {}
      /\ t.since = q.since /\ t.offset = q.offset /\ t.got = q.got /\ t.gone = q.gone
      /\ t.whole = q.whole
  BY <1>1, <1>2 DEF Others, SyncOK, NoSync
<1>4. SyncOK(t)
  BY <1>1, <1>3 DEF SyncOK, Stages
<1>5. LoadedOK'
  <2> SUFFICES ASSUME "overlapped" \notin slips', "repeated" \notin slips' PROVE LoadedOK'
    BY DEF LoadedOK
  <2>1. /\ OneRowEach(rows) /\ q.rows = rows /\ ~ ListedTwice(q.got)
        /\ \A o \in Syncs : sync[o].at = "loaded" => o = s
    BY <1>2 DEF CatalogueInv, LoadedOK
  <2>2. OneRowEach(rows')
    BY <1>2, <2>1, CommittedRows
  <2>3. \A o \in Syncs : sync'[o].at # "loaded"
    BY <1>3, <2>1 DEF Others
  <2> QED
    BY <2>2, <2>3 DEF LoadedOK, OneRowEach
<1>6. t.since = changes /\ t.whole => t.got = AllEntries /\ t.gone = Courses \ Present
  BY <1>2, <1>3 DEF CatalogueInv, ListingOK
<1> QED
  BY <1>1, <1>2, <1>3, <1>4, <1>5, <1>6, CommittedCourses, OneSyncMoves

\* The steps of a save leave the catalogue alone; they may record a race.
LEMMA CatalogueAlone ==
  ASSUME CatalogueInv, UNCHANGED <<moodle, rows, sync, changes>>, slips \subseteq slips'
  PROVE  CatalogueInv'
<1>1. ShapeOK'
  BY DEF CatalogueInv, ShapeOK
<1>2. ListingOK'
  BY EntriesStay DEF CatalogueInv, ListingOK
<1>3. LoadedOK'
  BY DEF CatalogueInv, LoadedOK
<1> QED
  BY <1>1, <1>2, <1>3 DEF CatalogueInv

LEMMA CatalogueStep == CatalogueInv /\ [Next]_vars => CatalogueInv'
<1> SUFFICES ASSUME CatalogueInv, [Next]_vars PROVE CatalogueInv'
  OBVIOUS
<1>1. CASE MoodleChanges
  BY <1>1, MoodleStep
<1>2. ASSUME NEW s \in Syncs, ReindexAnyway(s) \/ Publish(s) \/ Claim(s)
      PROVE  CatalogueInv'
  BY <1>2, RequestStep DEF ReindexAnyway
<1>3. ASSUME NEW s \in Syncs, FetchPage(s) PROVE CatalogueInv'
  BY <1>3, FetchPageStep
<1>4. ASSUME NEW s \in Syncs, Format(s) PROVE CatalogueInv'
  BY <1>4, FormatStep
<1>5. ASSUME NEW s \in Syncs,
             PublishFails(s) \/ SyncFails(s) \/ WorkerDies(s) \/ CommitIsStale(s) \/ ApplyFailure(s)
      PROVE  CatalogueInv'
  BY <1>5, EndStep
<1>6. ASSUME NEW s \in Syncs, LoadRows(s) PROVE CatalogueInv'
  BY <1>6, LoadRowsStep
<1>7. ASSUME NEW s \in Syncs, CommitCourses(s) PROVE CatalogueInv'
  BY <1>7, CommitStep
<1>8. ASSUME NEW s \in Syncs, HandlerDies(s) PROVE CatalogueInv'
  BY <1>8, HandlerDiesStep
<1>9. ASSUME NEW u \in Saves, ReadSelection(u) \/ StoreSelection(u) \/ ReindexFails(u)
      PROVE  CatalogueInv'
  BY <1>9, CatalogueAlone DEF ReadSelection, StoreSelection, ReindexFails, syncVars
<1>10. ASSUME NEW u \in Saves, NEW s \in Syncs, ReindexAfterSave(u, s) PROVE CatalogueInv'
  BY <1>10, RequestStep DEF ReindexAfterSave
<1>11. CASE UNCHANGED vars
  BY <1>11, CatalogueAlone DEF vars
<1> QED
  BY <1>1, <1>2, <1>3, <1>4, <1>5, <1>6, <1>7, <1>8, <1>9, <1>10, <1>11
  DEF Next, WorkerStep, SubscriberStep

\* Only the commit of a listing applies a sync, and only that changes the rows.
LEMMA OnlyCommitsApply ==
  ASSUME CatalogueInv, [Next]_vars
  PROVE  /\ \A s \in Syncs : Applies(s) => CommitCourses(s)
         /\ rows' # rows => \E s \in Syncs : CommitCourses(s) /\ Applies(s)
<1>1. DOMAIN sync = Syncs /\ \A s \in Syncs : SyncOK(sync[s])
  BY DEF CatalogueInv, ShapeOK
<1>2. ASSUME NEW u \in Syncs, CommitCourses(u)
      PROVE  /\ Applies(u)
             /\ \A s \in Syncs : Applies(s) => s = u
  BY <1>1, <1>2 DEF CommitCourses, Applies, SyncOK, NoSync
<1>3. ASSUME ~ \E u \in Syncs : CommitCourses(u)
      PROVE  /\ rows' = rows
             /\ \A s \in Syncs : ~ Applies(s)
  <2>1. CASE UNCHANGED sync /\ rows' = rows
    BY <2>1 DEF Applies
  <2>2. CASE /\ rows' = rows
             /\ \E u \in Syncs : \E at \in {"lost", "failing", "failed"} :
                  sync' = [sync EXCEPT ![u] = [NoSync EXCEPT !.at = at]]
    BY <1>1, <2>2 DEF Applies, NoSync
  <2>3. CASE /\ rows' = rows
             /\ \E u \in Syncs : /\ \A s \in Syncs \ {u} : sync'[s] = sync[s]
                                 /\ sync'[u].at # "applied"
    BY <2>3 DEF Applies
  <2>4. CASE MoodleChanges \/ UNCHANGED vars
    BY <2>1, <2>4 DEF MoodleChanges, vars
  <2>5. ASSUME NEW u \in Saves, ReadSelection(u) \/ StoreSelection(u) \/ ReindexFails(u)
        PROVE  UNCHANGED sync /\ rows' = rows
    BY <2>5 DEF ReadSelection, StoreSelection, ReindexFails, syncVars
  <2>6. ASSUME NEW u \in Syncs,
               PublishFails(u) \/ SyncFails(u) \/ WorkerDies(u) \/ CommitIsStale(u) \/ ApplyFailure(u)
        PROVE  /\ rows' = rows
               /\ \E at \in {"lost", "failing", "failed"} :
                    sync' = [sync EXCEPT ![u] = [NoSync EXCEPT !.at = at]]
    BY <2>6 DEF PublishFails, SyncFails, WorkerDies, CommitIsStale, ApplyFailure, Ends
  <2>7. ASSUME NEW u \in Syncs, Reindex(u) \/ Publish(u) \/ Claim(u) \/ FetchPage(u)
        PROVE  /\ rows' = rows
               /\ \A s \in Syncs \ {u} : sync'[s] = sync[s]
               /\ sync'[u].at # "applied"
    BY <1>1, <2>7 DEF Reindex, Publish, Claim, FetchPage, SyncOK, NoSync
  <2>8. ASSUME NEW u \in Syncs, Format(u) \/ LoadRows(u) \/ HandlerDies(u)
        PROVE  /\ rows' = rows
               /\ \A s \in Syncs \ {u} : sync'[s] = sync[s]
               /\ sync'[u].at # "applied"
    <3>1. CASE HandlerDies(u)
      BY <1>1, <3>1 DEF HandlerDies, SyncOK, NoSync
    <3>3. CASE LoadRows(u)
      <4>1. PICK existing : sync' = [sync EXCEPT ![u].at = "loaded", ![u].rows = existing,
                                                 ![u].status = status]
        BY <3>3 DEF LoadRows
      <4>2. rows' = rows
        BY <3>3 DEF LoadRows
      <4> QED
        BY <1>1, <4>1, <4>2 DEF SyncOK, NoSync
    <3>2. CASE Format(u)
      <4>1. rows' = rows
        BY <3>2 DEF Format
      <4>2. CASE sync' = [sync EXCEPT ![u].at = "reported"]
        BY <1>1, <4>1, <4>2 DEF SyncOK, NoSync
      <4>3. CASE \E c : sync' = [sync EXCEPT ![u].at = "reported", ![u].whole = FALSE,
                                            ![u].got = {e \in @ : e.course # c}]
        <5>1. PICK c : sync' = [sync EXCEPT ![u].at = "reported", ![u].whole = FALSE,
                                            ![u].got = {e \in @ : e.course # c}]
          BY <4>3
        <5> QED
          BY <1>1, <4>1, <5>1 DEF SyncOK, NoSync
      <4> QED
        BY <3>2, <4>2, <4>3 DEF Format
    <3> QED
      BY <2>8, <3>1, <3>2, <3>3
  <2> QED
    BY <1>3, <2>1, <2>2, <2>3, <2>4, <2>5, <2>6, <2>7, <2>8
    DEF Next, WorkerStep, SubscriberStep, ReindexAnyway, ReindexAfterSave
<1> QED
  BY <1>2, <1>3

LEMMA CatalogueCorrect == Spec => []CatalogueInv
  BY CatalogueInit, CatalogueStep, PTL DEF Spec

\* A course leaves the catalogue only by a sync that Moodle did not list it to,
\* or that Moodle changed under, or that could not format a course.
THEOREM KnownCoursesCorrect == Spec => KnownCoursesStay
<1>1. ASSUME CatalogueInv, [Next]_vars
      PROVE  [\A c \in CourseOf(rows) \ CourseOf(rows)' : \E s \in Syncs :
                /\ Applies(s)
                /\ c \in sync[s].gone \/ sync[s].since # changes \/ ~sync[s].whole]_vars
  <2> SUFFICES ASSUME NEW c \in CourseOf(rows) \ CourseOf(rows)'
               PROVE  \E s \in Syncs :
                        /\ Applies(s)
                        /\ c \in sync[s].gone \/ sync[s].since # changes \/ ~sync[s].whole
    OBVIOUS
  <2>1. rows' # rows
    BY DEF CourseOf
  <2>2. PICK s \in Syncs : CommitCourses(s) /\ Applies(s)
    BY <1>1, <2>1, OnlyCommitsApply
  <2>3. ~ ListedIn(sync[s].got, c)
    BY <1>1, <2>2, CommittedCourses DEF CourseOf
  <2>4. c \in Courses
    BY <1>1 DEF CourseOf, CatalogueInv, ShapeOK, RowOK
  <2>5. ASSUME sync[s].since = changes, sync[s].whole
        PROVE  c \in sync[s].gone
    <3>1. sync[s].got = AllEntries /\ sync[s].gone = Courses \ Present
      BY <1>1, <2>2, <2>5 DEF CatalogueInv, ListingOK, Applies
    <3>2. c \notin Present
      <4> SUFFICES ASSUME c \in Present PROVE FALSE
        OBVIOUS
      <4>1. EntryOf(c) \in sync[s].got /\ EntryOf(c).course = c
        BY <3>1 DEF AllEntries, EntryOf
      <4> QED
        BY <2>3, <4>1 DEF ListedIn
    <3> QED
      BY <2>4, <3>1, <3>2
  <2> QED
    BY <2>2, <2>5
<1> QED
  BY <1>1, CatalogueCorrect, PTL DEF KnownCoursesStay, Spec

\* What is in one row each has as many rows.
LEMMA OneRowEachCounts ==
  ASSUME NEW rs, NEW S, IsFiniteSet(S), OneRowEach(rs), CourseOf(rs) = S
  PROVE  Cardinality(rs) = Cardinality(S)
<1> DEFINE rowOf == [c \in S |-> CHOOSE r \in rs : r.course = c]
<1>1. \A c \in S : rowOf[c] \in rs /\ rowOf[c].course = c
  BY DEF CourseOf
<1>2. rowOf \in [S -> rs]
  BY <1>1
<1>3. \A c, d \in S : rowOf[c] = rowOf[d] => c = d
  BY <1>1
<1>4. \A r \in rs : \E c \in S : rowOf[c] = r
  <2> SUFFICES ASSUME NEW r \in rs PROVE r.course \in S /\ rowOf[r.course] = r
    OBVIOUS
  <2>1. r.course \in S
    BY DEF CourseOf
  <2> QED
    BY <1>1, <2>1 DEF OneRowEach
<1> HIDE DEF rowOf
<1>5. rowOf \in Bijection(S, rs)
  BY <1>2, <1>3, <1>4 DEF Bijection, Injection, Surjection, IsInjective
<1> QED
  BY <1>5, FS_Bijection DEF ExistsBijection

\* A sync that nothing disturbs makes the catalogue that of Moodle, in one row
\* for each course, whatever earlier syncs left behind.
THEOREM QuietSyncCorrect == Spec => QuietSyncMirrorsMoodle
<1>1. ASSUME CatalogueInv, [Next]_vars
      PROVE  [\A s \in Syncs :
                /\ Applies(s) /\ sync[s].since = changes /\ sync[s].whole
                /\ slips' = {} \/ slips' = {"overwritten"}
                /\ Present # {}
                => /\ {<<r.course, r.version>> : r \in rows'} = {<<c, moodle[c]>> : c \in Present}
                   /\ Cardinality(rows') = Cardinality(Present)]_vars
  <2> SUFFICES ASSUME NEW s \in Syncs, Applies(s), sync[s].since = changes, sync[s].whole,
                      slips' = {} \/ slips' = {"overwritten"}, Present # {}
               PROVE  /\ {<<r.course, r.version>> : r \in rows'} = {<<c, moodle[c]>> : c \in Present}
                      /\ Cardinality(rows') = Cardinality(Present)
    OBVIOUS
  <2> DEFINE q == sync[s]
  <2>1. CommitCourses(s)
    BY <1>1, OnlyCommitsApply
  <2>2. q.got = AllEntries
    BY <1>1 DEF CatalogueInv, ListingOK, Applies
  <2>3. /\ "overlapped" \notin slips /\ "repeated" \notin slips
        /\ q.at = "loaded"
    BY <2>1 DEF CommitCourses
  <2>4. OneRowEach(rows) /\ q.rows = rows
    BY <1>1, <2>3 DEF CatalogueInv, LoadedOK
  <2>5. ~ ListedTwice(q.got)
    BY <2>2 DEF ListedTwice, AllEntries, EntryOf
  <2>6. q.got # {}
    BY <2>2 DEF AllEntries
  <2>7. /\ OneRowEach(rows')
        /\ \A r \in rows' : \E e \in q.got : r.course = e.course /\ r.version = e.version
        /\ \A e \in q.got : \E r \in rows' : r.course = e.course
    BY <1>1, <2>1, <2>4, <2>5, <2>6, CommittedRows
  <2>8. \A r \in rows' : r.course \in Present /\ r.version = moodle[r.course]
    BY <2>2, <2>7 DEF AllEntries, EntryOf
  <2>9. \A c \in Present : \E r \in rows' : r.course = c
    <3> SUFFICES ASSUME NEW c \in Present PROVE \E r \in rows' : r.course = c
      OBVIOUS
    <3>1. EntryOf(c) \in q.got /\ EntryOf(c).course = c
      BY <2>2 DEF AllEntries, EntryOf
    <3> QED
      BY <2>7, <3>1
  <2>10. {<<r.course, r.version>> : r \in rows'} = {<<c, moodle[c]>> : c \in Present}
    BY <2>8, <2>9
  <2>11. CourseOf(rows') = Present
    BY <2>8, <2>9 DEF CourseOf
  <2>12. IsFiniteSet(Present)
    BY CoursesAreFinite, FS_Subset DEF Present
  <2> QED
    BY <2>7, <2>10, <2>11, <2>12, OneRowEachCounts
<1> QED
  BY <1>1, CatalogueCorrect, PTL DEF QuietSyncMirrorsMoodle, Spec

=============================================================================
