-------------------------- MODULE MC_BrokerWorkers --------------------------
EXTENDS BrokerWorkers, TLC

CONSTANTS e1, e2, p1, p2, p3, c1, c2, s1

\* A call and a status request at one endpoint, a call at another.
Split == [r \in Requests |-> IF r = c2 THEN e2 ELSE e1]
=============================================================================
