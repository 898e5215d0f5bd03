--------------------------- MODULE MC_TraderFunds ---------------------------
(* sdk.decimals = 2.  The literals, as a caller would write them: 0.29,   *)
(* 1.5, 0.126 and 1.15.  MCFloatTrunc is what CPython 3 prints for        *)
(* int(lit * 100) and int(lit * 2): 0.29 * 100 is 28.999999999999996 and   *)
(* 1.15 * 100 is 114.99999999999999, so both truncate a unit low.         *)
EXTENDS TraderFunds

MCLiterals == {Frac(29, 2), Frac(15, 1), Frac(126, 3), Frac(115, 2)}

MCFloatTrunc ==
    [p \in MCLiterals \X {2, 100} |->
        LET x == p[1]  f == p[2]
        IN  CASE x = Frac(29, 2)  -> IF f = 100 THEN 28  ELSE 0
              [] x = Frac(15, 1)  -> IF f = 100 THEN 150 ELSE 3
              [] x = Frac(126, 3) -> IF f = 100 THEN 12  ELSE 0
              [] x = Frac(115, 2) -> IF f = 100 THEN 114 ELSE 2]
=============================================================================
