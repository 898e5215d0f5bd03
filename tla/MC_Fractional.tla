---------------------------- MODULE MC_Fractional ----------------------------
(* Model-checking instance of Fractional.                                 *)
EXTENDS Fractional

(* Operands as the client builds them: Fractional(int(q * 10**d), d) for *)
(* d in {0, 1, 2} (not simplified), the same values simplified, zero and *)
(* a negative.                                                            *)
MCOperands == {Frac(0, 0), Frac(5, 0), Frac(12, 1), Frac(120, 2), Frac(50, 1), Frac(-3, 1)}
=============================================================================
