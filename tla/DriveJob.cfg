SPECIFICATION Spec
CONSTANTS
    d = d
    f = f
    g = g
    Dest = Dest
    Driver = Driver
    Dirs = {d}
    Files = {f, g}
    Parent <- MCParent
    PlannedName <- MCNames
    Chunks <- MCChunks
    Colored = {d}
    UNVERIFIED = TRUE
    MEMORY = 1
    CHUNKS_PER_FILE = 2
    PARALLEL = 1
    NAME_ATTEMPTS = 2
    MAX_NAME = 4
    Wanted = {1, 3}
    MAX_VERBS = 2
    MAX_FAULTS = 1
INVARIANTS
    JobInvariant
    CreatedIsReported
    SharesAreKept
PROPERTIES
    
    JobEnds
CHECK_DEADLOCK FALSE
