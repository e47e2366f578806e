------------------------- MODULE MCCourseCatalogue -------------------------
(* Model checking of CourseCatalogue: pages of one course, so that a change *)
(* of Moodle can shift the offset, two syncs and two saves.                 *)
EXTENDS CourseCatalogue

CONSTANTS c1, c2
TwoCourses == <<c1, c2>>
JustOne == {c1}
=============================================================================
