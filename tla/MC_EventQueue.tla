--------------------------- MODULE MC_EventQueue ---------------------------
(* Model-checking instance of EventQueue.                                 *)
EXTENDS EventQueue

CONSTANTS p1, p2

MCParticipants == {p1, p2}
=============================================================================
