--------------------------- MODULE MC_RelayHealth ---------------------------
EXTENDS RelayHealth, TLC

CONSTANTS r1, p1, t1, t2, rate, access

\* A refusal of access cools down longer than a rate limit.
CooldownBase(c) == IF c = rate THEN 1 ELSE 2
ClockSkews == {0, -1}

ThreadSymmetry == Permutations(Threads)
=============================================================================
