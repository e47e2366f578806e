SPECIFICATION FairSpec
CONSTANTS
    c1 = c1
    c2 = c2
    Order <- TwoCourses
    Syncs = {s1, s2}
    Saves = {u1, u2}
    Offered <- JustOne
    PageSize = 1
    MaxChanges = 2
    MaxFaults = 1
INVARIANTS SelectionIsSent
PROPERTIES KnownCoursesStay QuietSyncMirrorsMoodle SyncingEnds
CHECK_DEADLOCK FALSE
