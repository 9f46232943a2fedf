CONSTANTS
    Capacity = 3
    Threads = {t1, t2}
    AbaModulus = 5
SPECIFICATION FairSpec
INVARIANTS
    FreeListIntact
    UniqueOwner
PROPERTIES
    RefusalsJustified
    LockFree
CHECK_DEADLOCK FALSE
