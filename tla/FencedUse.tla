------------------------------ MODULE FencedUse ------------------------------
(***************************************************************************)
(* What a lock on a resource promises: tenancies.  At most one lock is the *)
(* tenant, only the tenant is in use (now and then: its holder may stop    *)
(* relying on it and resume), and a tenancy that is over never comes back. *)
(***************************************************************************)
EXTENDS Integers

CONSTANT Locks

VARIABLES tenant, using, over

Init == tenant = {} /\ using = {} /\ over = {}

Admit(l) ==
    /\ tenant = {} /\ l \notin over
    /\ tenant' = {l} /\ using' \in {{}, {l}}
    /\ UNCHANGED over

PauseOrResume ==
    /\ tenant # {}
    /\ using' \in {{}, tenant}
    /\ UNCHANGED <<tenant, over>>

Evict ==
    /\ tenant # {}
    /\ tenant' = {} /\ using' = {} /\ over' = over \cup tenant

(* A lock that never gets to be the tenant *)
Reject(l) ==
    /\ l \notin tenant \cup over
    /\ over' = over \cup {l}
    /\ UNCHANGED <<tenant, using>>

Next == PauseOrResume \/ Evict \/ \E l \in Locks : Admit(l) \/ Reject(l)

Spec == Init /\ [][Next]_<<tenant, using, over>>
=============================================================================
