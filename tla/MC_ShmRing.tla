----------------------------- MODULE MC_ShmRing -----------------------------
EXTENDS ShmRing, TLC
=============================================================================
