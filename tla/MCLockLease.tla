----------------------------- MODULE MCLockLease -----------------------------
(* Instances of LockLease for TLC. *)
EXTENDS LockLease

CONSTANTS a, b

(* Whose wall clock is set: the one of b back, or the one of a forward *)
MCBack    == [l \in Locks |-> IF l = b THEN {-2} ELSE {}]
MCForward == [l \in Locks |-> IF l = a THEN {2} ELSE {}]
=============================================================================
