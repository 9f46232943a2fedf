CONSTANTS
    t1 = t1
    t2 = t2
    u1 = u1
    p = p
    q = q
    None = None
    Threads = {t1, t2, u1}
    process <- ProcessOf
SPECIFICATION MonitoringSpec
INVARIANT
    NodeNeverStillAlive
CHECK_DEADLOCK FALSE
