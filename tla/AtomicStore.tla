----------------------------- MODULE AtomicStore -----------------------------
(* What the other modules assume of the state files: every write adds to a    *)
(* document in one step, and what was committed stays.                        *)

CONSTANTS Documents, Updates
VARIABLE value

Init == value = [d \in Documents |-> {}]

Commit(d, u) == u \notin value[d] /\ value' = [value EXCEPT ![d] = @ \cup {u}]

Spec == Init /\ [][\E d \in Documents, u \in Updates : Commit(d, u)]_value
=============================================================================
