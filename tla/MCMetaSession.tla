---------------------------- MODULE MCMetaSession ----------------------------
(* MetaSession for TLC: a round may ask as many times as there are servers.  *)
EXTENDS MetaSession

ASSUME TriesAssumption == MaxQueryCount >= MetaCount

=============================================================================
