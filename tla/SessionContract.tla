--------------------------- MODULE SessionContract ---------------------------
(***************************************************************************)
(* What the handshake promises for ONE connection id: the two ends of a    *)
(* private session and the keys offered for it. The service offers a key   *)
(* once; only after it revoked that very session may it offer another. An  *)
(* end that was closed stays closed. The client joins at most once, with   *)
(* a key the service offered.                                              *)
(***************************************************************************)
CONSTANTS Keys, NoKey

VARIABLES
    offers,   \* keys the service has offered
    service,  \* its end: "none", "up", "severed" (revoked alone) or "down"
    client,   \* the other end: "idle", "up" or "down"
    pinned    \* the key the client joined with

vars == <<offers, service, client, pinned>>

Init == offers = {} /\ service = "none" /\ client = "idle" /\ pinned = NoKey

Offer(k) ==
    /\ service \in {"none", "severed"}
    /\ k \notin offers
    /\ offers' = offers \cup {k}
    /\ service' = "up"
    /\ UNCHANGED <<client, pinned>>

CloseService ==
    /\ service = "up"
    /\ service' \in {"severed", "down"}
    /\ UNCHANGED <<offers, client, pinned>>

Join(k) ==
    /\ client = "idle"
    /\ k \in offers
    /\ client' = "up"
    /\ pinned' = k
    /\ UNCHANGED <<offers, service>>

CloseClient ==
    /\ client \in {"idle", "up"}
    /\ client' = "down"
    /\ UNCHANGED <<offers, service, pinned>>

Next == CloseService \/ CloseClient \/ \E k \in Keys : Offer(k) \/ Join(k)

Spec == Init /\ [][Next]_vars

=============================================================================
