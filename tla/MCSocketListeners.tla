-------------------------- MODULE MCSocketListeners --------------------------
(* Instances of SocketListeners for TLC. *)
EXTENDS SocketListeners

CONSTANTS r1, r2, r3, t1, t2
=============================================================================
