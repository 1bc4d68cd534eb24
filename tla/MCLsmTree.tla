----------------------------- MODULE MCLsmTree -----------------------------
(***************************************************************************)
(* The instance of LsmTree that TLC checks.                                *)
(***************************************************************************)
EXTENDS LsmTree, TLC

AnyJob == Permutations(Jobs)
=============================================================================
