------------------------- MODULE MCChatbotSchedules -------------------------
(* Model checking of ChatbotSchedules: one chatbot, whose lock no other one *)
(* shares, and two processes; two times of firing, and two ticks.           *)
EXTENDS ChatbotSchedules
=============================================================================
