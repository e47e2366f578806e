------------------------- MODULE MCChatbotResources ------------------------
(* Model checking of ChatbotResources: one chatbot, two requests at a      *)
(* time, with the cleanup script beside them.                              *)
EXTENDS ChatbotResources, TLC

Symmetry == Permutations(Files) \union Permutations(Datasources)
                \union Permutations(Images) \union Permutations(Requests)
============================================================================
