CONSTANTS
    Notifiers = {n1}
    trigger_id_max = 1
    BITSET_ELEMENT_BITSIZE = 1
    SEM_VALUE_MAX = 2
SPECIFICATION Spec
INVARIANT
    WaitAllUnblocks
CHECK_DEADLOCK FALSE
