---------------------------- MODULE MCTableHandler ----------------------------
(* TableHandler for TLC.  The time starts when the table may be asked for, so *)
(* MaxTime leaves twice the timeout after the first round is created.         *)
EXTENDS TableHandler, TLC

Symmetry == Permutations(Rounds)

ASSUME RoomAssumption == MaxTime >= getRetryDelay + 2 * Timeout

=============================================================================
