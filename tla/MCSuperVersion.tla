--------------------------- MODULE MCSuperVersion ---------------------------
(***************************************************************************)
(* The instance of SuperVersion that TLC checks.                           *)
(***************************************************************************)
EXTENDS SuperVersion
=============================================================================
