--------------------------- MODULE MCJobProgress ---------------------------
(* Model checking of JobProgress: two files whose messages are handled by  *)
(* two subscribers, with one message lost or one subscriber stopped.       *)
EXTENDS JobProgress
============================================================================
