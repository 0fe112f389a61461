SPECIFICATION Spec
CONSTANTS
    t1 = t1
    t2 = t2
    Thread = {main, t1, t2}
    Main = main
    Object = {o1, o2}
    Event = {}
    AutoReset = {}
    MaxRecursion = 2
    MaxRequests = 1
    AbortLockWaiters = FALSE
    SuspendWaiters = FALSE
    Nobody = nobody
    NoWait = nowait
    NoScan = noscan
    End = end
INVARIANTS TypeOK ListsMatchStatus PendingMeansWaiting OwnersCanRelease
PROPERTY EnterReturnsOwning
SYMMETRY Alike
CHECK_DEADLOCK FALSE
