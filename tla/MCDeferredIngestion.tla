------------------------- MODULE MCDeferredIngestion -------------------------
(* Model checking of DeferredIngestion: the jobs of two KBs that share a    *)
(* datasource, or one job behind two datasources.                          *)
EXTENDS DeferredIngestion, TLC

CONSTANTS j1, j2, d1, d2, h1, h2

OneJob == {j1}
TwoJobs == {j1, j2}
TwoDatasources == {d1, d2}
TwoHandlers == {h1, h2}
OneKb == j1 :> TwoDatasources
TwoKbs == j1 :> TwoDatasources @@ j2 :> {d1}
Symmetric == Permutations(TwoHandlers)
=============================================================================
