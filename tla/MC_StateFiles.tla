---------------------------- MODULE MC_StateFiles ----------------------------
EXTENDS StateFiles

CONSTANTS h1, h2, t1, t2, t3, registry, inbox

\* Two threads of one process and one of another.
HomeOf(t) == IF t = t3 THEN h2 ELSE h1
=============================================================================
