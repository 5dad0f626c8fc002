---------------------------- MODULE MCPairChanges ----------------------------
(* Instances of PairChanges for TLC. *)
EXTENDS PairChanges

CONSTANTS edit, del
=============================================================================
