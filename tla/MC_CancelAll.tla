----------------------------- MODULE MC_CancelAll -----------------------------
EXTENDS CancelAll
=============================================================================
