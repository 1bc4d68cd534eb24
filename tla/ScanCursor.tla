----------------------------- MODULE ScanCursor -----------------------------
(***************************************************************************)
(* What a pegasus_scanner promises its user: the rows of each partition    *)
(* come in key order and none comes twice, and the scan is reported        *)
(* complete only when every row that was there all the time has come.      *)
(***************************************************************************)
EXTENDS Integers, Sequences

CONSTANT Rows     \* the rows <<partition, key>> there may be

VARIABLES
    wanted,       \* the rows to scan that are there all the time
    delivered,    \* the rows handed to the user
    complete      \* "yes" once PERR_SCAN_COMPLETE was reported

vars == <<wanted, delivered, complete>>

Init ==
    /\ wanted \in SUBSET Rows
    /\ delivered = <<>>
    /\ complete = "no"

Deliver ==
    /\ complete = "no"
    /\ \E row \in Rows :
          /\ \A i \in 1 .. Len(delivered) :
                 delivered[i][1] = row[1] => delivered[i][2] < row[2]
          /\ delivered' = Append(delivered, row)
    /\ UNCHANGED <<wanted, complete>>

Finish ==
    /\ \A row \in wanted : \E i \in 1 .. Len(delivered) : delivered[i] = row
    /\ complete' = "yes"
    /\ UNCHANGED <<wanted, delivered>>

Next == Deliver \/ Finish

Spec == Init /\ [][Next]_vars

=============================================================================
