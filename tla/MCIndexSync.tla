----------------------------- MODULE MCIndexSync -----------------------------
(* Model values for the runs of IndexSync. *)
EXTENDS IndexSync, TLC

CONSTANTS f1, f2, k1, k2

TwoFiles == {f1, f2}
TwoKeys == {k1, k2}
DistinctKeys == (f1 :> k1) @@ (f2 :> k2)
=============================================================================
