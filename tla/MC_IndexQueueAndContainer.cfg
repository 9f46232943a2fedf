CONSTANTS
    Capacity = 2
    MaxPush = 12
    Torn = Torn
    HandoffSynchronizes = TRUE
    capacity = 2
    Writers = {w1, w2}
    MaxAdd = 3
    TornEntry = TornEntry
SPECIFICATION MCSpec
INVARIANTS
    UnreadSlotsIntact
    AnswersReliable
    SnapshotNeverTorn
    SnapshotExact
    SlotsAccounted
PROPERTIES
    ImplementsFifo
    LockedStaysEmpty
    EventuallyExact
CHECK_DEADLOCK FALSE
