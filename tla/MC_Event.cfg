CONSTANTS
    Notifiers = {n1, n2}
    trigger_id_max = 1
    BITSET_ELEMENT_BITSIZE = 1
    SEM_VALUE_MAX = 2
SPECIFICATION FairSpec
INVARIANTS
    NothingLost
    NoLostWakeUp
    StorageRemovedByLast
PROPERTIES
    Delivered
CHECK_DEADLOCK FALSE
