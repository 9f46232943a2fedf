CONSTANTS
    Capacity = 2
    MaxPush = 8
    Torn = Torn
    t1 = t1
    t2 = t2
    u1 = u1
    p = p
    q = q
    None = None
    Threads = {t1, t2, u1}
    process <- ProcessOf
SPECIFICATION MCSpec
INVARIANTS
    UnreadSlotsIntact
    ReturnedExactlyOnce
    AnswersReliable
    OnlyDeadCleanedUp
    StillAliveOnlyAtStart
    ExclusiveUntilLockLost
PROPERTIES
    ImplementsFifo
    DeadNodeRemoved
CHECK_DEADLOCK FALSE
