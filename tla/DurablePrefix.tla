---------------------------- MODULE DurablePrefix ----------------------------
(***************************************************************************)
(* What Pegasus relies on from its storage engine: decrees are written in  *)
(* order, the decree rocksdb reports as flushed only grows and never       *)
(* passes the last written one, and a crash or a close keeps exactly the   *)
(* decrees up to it, to be followed by the next one.                       *)
(***************************************************************************)
EXTENDS Integers

VARIABLES
    written,    \* the last decree applied and visible to readers
    flushed     \* the decree GetLastFlushedDecree reports after a crash

vars == <<written, flushed>>

Init == flushed \in Nat /\ written = flushed

Write == written' = written + 1 /\ UNCHANGED flushed

Flush == flushed' \in flushed + 1 .. written /\ UNCHANGED written

Reopen == written' = flushed /\ UNCHANGED flushed

Next == Write \/ Flush \/ Reopen

Spec == Init /\ [][Next]_vars

=============================================================================
