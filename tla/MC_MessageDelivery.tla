------------------------ MODULE MC_MessageDelivery ------------------------
(* Small instances of MessageDelivery for TLC. *)
EXTENDS MessageDelivery, TLC

Symmetry == Permutations(Ciphertexts)
=============================================================================
