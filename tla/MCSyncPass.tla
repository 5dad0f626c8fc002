----------------------------- MODULE MCSyncPass -----------------------------
(***************************************************************************)
(* SyncPass for TLC.                                                       *)
(***************************************************************************)
EXTENDS SyncPass
=============================================================================
