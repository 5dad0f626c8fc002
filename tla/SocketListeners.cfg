SPECIFICATION Spec
CONSTANTS
    r1 = r1
    r2 = r2
    r3 = r3
    t1 = t1
    t2 = t2
    None = None
    Regs = {r1, r2}
    SyncRegs = {r2}
    Threads = {t1, t2}
    CAPACITY = 1
    MAX_EVENTS = 2
INVARIANTS
    RegistrationInvariant
    OneTaskServes
PROPERTIES
    EventsInOrder
    CallsAndTasksEnd
CHECK_DEADLOCK FALSE
