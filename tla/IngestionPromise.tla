--------------------------- MODULE IngestionPromise ---------------------------
(***************************************************************************)
(* What HaystackClient.ingest_files promises to the worker, whatever polls *)
(* fail, keys expire or processes die: the wait for the pipeline ends, it  *)
(* ends once, and it ends in success only if the pipeline succeeded.  A    *)
(* failure promises nothing about the pipeline, which may still be running *)
(* or may succeed later.  IngestionWait implements it.                     *)
(***************************************************************************)
VARIABLES
    pipeline,   \* the background run of one submission
    reported    \* what the worker was told

TypeOK ==
    /\ pipeline \in {"none", "running", "succeeded", "failed"}
    /\ reported \in {"none", "success", "failure"}

Init == pipeline = "none" /\ reported = "none"

Start ==
    /\ pipeline = "none"
    /\ reported = "none"
    /\ pipeline' = "running"
    /\ UNCHANGED reported

Finish ==
    /\ pipeline = "running"
    /\ pipeline' \in {"succeeded", "failed"}
    /\ UNCHANGED reported

Report ==
    /\ reported = "none"
    /\ \/ reported' = "failure"
       \/ pipeline = "succeeded" /\ reported' = "success"
    /\ UNCHANGED pipeline

Next == Start \/ Finish \/ Report

Spec == Init /\ [][Next]_<<pipeline, reported>>

Ends == <>(reported # "none")
=============================================================================
