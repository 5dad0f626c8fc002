----------------------------- MODULE MCDriveJob -----------------------------
(* Instances of DriveJob for TLC: a directory d with a file g in it, and a *)
(* file f beside it.                                                       *)
EXTENDS DriveJob

CONSTANTS d, f, g

MCParent == [i \in Items |-> IF i = g THEN d ELSE Dest]
MCChunks == [i \in Files |-> IF i = f THEN 2 ELSE 0]
MCNames  == [i \in Items |-> IF i = f THEN 3 ELSE 1]
=============================================================================
