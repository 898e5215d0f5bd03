----------------------------- MODULE MC_Context -----------------------------
EXTENDS Context

CONSTANTS p0, o1, o2

MCOwners == {o1, o2}
MCOneOwner == {o1}
=============================================================================
