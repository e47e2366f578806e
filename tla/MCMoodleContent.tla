--------------------------- MODULE MCMoodleContent ---------------------------
(***************************************************************************)
(* Two courses: one with two files in an activity and a text, one with a   *)
(* file whose hash is omitted in some runs.                                *)
(***************************************************************************)
EXTENDS MoodleContent

CONSTANTS c1, c12, f1, f2, t1, f3, a1, a2

MCCourseOf == [i \in Items |-> IF i = f3 THEN c12 ELSE c1]
MCActivityOf == [i \in Items |-> IF i = f3 THEN a2 ELSE a1]

\* Every course has a path of its own.
Apart == [c \in Courses |-> {c}]

=============================================================================
