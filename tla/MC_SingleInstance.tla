------------------------- MODULE MC_SingleInstance -------------------------
EXTENDS SingleInstance

CONSTANTS p1, p2, p3
=============================================================================
