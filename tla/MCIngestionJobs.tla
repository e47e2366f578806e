--------------------------- MODULE MCIngestionJobs ---------------------------
(* Model values and symmetry for the runs of IngestionJobs. *)
EXTENDS IngestionJobs, TLC

CONSTANTS r1, r2, w1, w2

OneRequest == {r1}
TwoRequests == {r1, r2}
OneWorker == {w1}
TwoWorkers == {w1, w2}

\* Sound in the safety runs only: no property names a handler or a worker.
Symmetric == Permutations(TwoRequests) \cup Permutations(TwoWorkers)
=============================================================================
