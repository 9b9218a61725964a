---------------------------- MODULE MC_BrokerRpc ----------------------------
EXTENDS BrokerRpc, TLC

CONSTANTS c1, c2, s1, s2

RequestThreadSymmetry == Permutations({c1, c2}) \cup Permutations({s1, s2})
=============================================================================
