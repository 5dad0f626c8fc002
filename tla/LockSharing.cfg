SPECIFICATION SharingSpec
CONSTANTS
    u1 = u1
    u2 = u2
    l1 = l1
    l2 = l2
    l3 = l3
    l4 = l4
    None = None
    Callers = {u1, u2}
    Retaking = {u1}
    Locks = {l1, l2, l3, l4}
    ACQUISITIONS_PER_CALL = 2
INVARIANTS
    SharingInvariant
PROPERTIES
    HandedOutConfirmed
    CallEnds
CHECK_DEADLOCK FALSE
