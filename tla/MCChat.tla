------------------------------- MODULE MCChat -------------------------------
(* Model checking of Chat: questions that name one or two people, answers  *)
(* of a placeholder and one character, and bounds on turns, syncs and      *)
(* deployments that its cfg names.                                         *)
EXTENDS Chat

CONSTANTS ann, bob
TwoNames == {ann, bob}
TwoDigits == <<"1", "2">>
AnnOrBob == {<<ann>>, <<bob, ann>>}
=============================================================================
