-------------------------- MODULE MC_Subscriptions --------------------------
EXTENDS Subscriptions

CONSTANTS t1, t2, r1, r2

=============================================================================
