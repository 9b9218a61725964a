------------------------------ MODULE RelaySet ------------------------------
(* The relays that are configured: the same for Publication, RelayHealth    *)
(* and Subscriptions, each a specification of its own.                      *)
CONSTANT Relays
=============================================================================
