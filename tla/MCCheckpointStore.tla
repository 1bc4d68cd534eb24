------------------------- MODULE MCCheckpointStore -------------------------
(* TLC instances of CheckpointStore; the constants are set in the .cfg files. *)
EXTENDS CheckpointStore
=============================================================================
