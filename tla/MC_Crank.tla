----------------------------- MODULE MC_Crank -----------------------------
(* Model-checking instance of Crank.                                      *)
EXTENDS Crank, TLC

CONSTANTS p1, p2, c1, c2

MCParticipants == {p1, p2}
MCCrankers == {c1, c2}
MCOneCranker == {c1}
Symm == Permutations(MCCrankers)
=============================================================================
