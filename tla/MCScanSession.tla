--------------------------- MODULE MCScanSession ---------------------------
(***************************************************************************)
(* The scans TLC checks.  A cfg gives Scans one of the sets below.         *)
(***************************************************************************)
EXTENDS ScanSession

\* Two partitions, an exclusive start and an inclusive stop key, in batches of
\* one row, while a row is written and removed.
TwoPartitions ==
    [partitions |-> {1, 2}, keys |-> 3, start |-> 1, stop |-> 3,
     start_inclusive |-> FALSE, stop_inclusive |-> TRUE, batch_size |-> 1,
     mutable |-> {2}, expiring |-> {}, iterator_errors |-> FALSE,
     max_calls |-> 5, max_losses |-> 1]

\* A full scan of one partition, with n calls, rows that may be written,
\* removed or expire, and iterators that may fail.
Full(n, rows, ttl, errors) ==
    [partitions |-> {1}, keys |-> 3, start |-> 0, stop |-> 4,
     start_inclusive |-> TRUE, stop_inclusive |-> FALSE, batch_size |-> 1,
     mutable |-> rows, expiring |-> ttl, iterator_errors |-> errors,
     max_calls |-> n, max_losses |-> 2]

MCScans == {TwoPartitions, Full(4, {}, {}, FALSE), Full(3, {}, {2}, TRUE)}
MCExpired == {Full(6, {}, {2}, FALSE)}
MCIterator == {Full(6, {}, {}, TRUE)}
=============================================================================
