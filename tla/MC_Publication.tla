--------------------------- MODULE MC_Publication ---------------------------
EXTENDS Publication

CONSTANTS m1, m2, r1, r2

MessageRelaySymmetry == Permutations({m1, m2}) \cup Permutations({r1, r2})
=============================================================================
