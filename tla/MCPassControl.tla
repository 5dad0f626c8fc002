--------------------------- MODULE MCPassControl ---------------------------
(* Instances of PassControl for TLC. *)
EXTENDS PassControl

CONSTANTS c1, c2
=============================================================================
