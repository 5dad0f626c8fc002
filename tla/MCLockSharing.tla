---------------------------- MODULE MCLockSharing ----------------------------
(* Instances of LockSharing for TLC. *)
EXTENDS LockSharing

CONSTANTS u1, u2, l1, l2, l3, l4
=============================================================================
