---------------------------- MODULE MC_Bootstrap ----------------------------
EXTENDS Bootstrap

CONSTANTS auth, t1, mint, oracle, clock

MCProductKeys == {<<"pk", 1>>, <<"pk", 2>>}
MCRatio == [k \in MCProductKeys |-> k[2]]
=============================================================================
