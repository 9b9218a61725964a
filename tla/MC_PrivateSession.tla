------------------------- MODULE MC_PrivateSession -------------------------
(* One client, an expiring and a permanent invitation, two keys.             *)
EXTENDS PrivateSession
=============================================================================
