--------------------------- MODULE MCLockRequests ---------------------------
(* Instances of LockRequests for TLC. *)
EXTENDS LockRequests

CONSTANTS a, b
=============================================================================
