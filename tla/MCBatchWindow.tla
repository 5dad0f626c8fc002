---------------------------- MODULE MCBatchWindow ----------------------------
(***************************************************************************)
(* BatchWindow for TLC: one caller to lead, and enough for two windows.    *)
(***************************************************************************)
EXTENDS BatchWindow
=============================================================================
