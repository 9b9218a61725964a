------------------------ MODULE MC_TaskCoordination ------------------------
(* Small instances of TaskCoordination for TLC. *)
EXTENDS TaskCoordination

\* The client coordinates and reviews, the service does the work.
Delegation ==
    [client |-> [local |-> {"coordinator", "reviewer"}, peer |-> {"participant"}],
     service |-> [local |-> {"participant"}, peer |-> {"coordinator", "reviewer"}]]
=============================================================================
