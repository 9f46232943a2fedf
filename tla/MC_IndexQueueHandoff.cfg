CONSTANTS
    Capacity = 2
    MaxPush = 3
    Torn = Torn
    HandoffSynchronizes = FALSE
SPECIFICATION Spec
INVARIANT
    HandoffThreadSafe
CHECK_DEADLOCK FALSE
