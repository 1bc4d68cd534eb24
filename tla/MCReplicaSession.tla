--------------------------- MODULE MCReplicaSession ---------------------------
(* ReplicaSession for TLC.                                                   *)
EXTENDS ReplicaSession

=============================================================================
