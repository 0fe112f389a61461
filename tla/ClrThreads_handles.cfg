SPECIFICATION FairSpec
CONSTANTS
    t1 = t1
    t2 = t2
    Thread = {main, t1, t2}
    Main = main
    Object = {}
    Event = {auto, manual}
    AutoReset = {auto}
    MaxRecursion = 2
    MaxRequests = 2
    AbortLockWaiters = FALSE
    SuspendWaiters = FALSE
    Nobody = nobody
    NoWait = nowait
    NoScan = noscan
    End = end
INVARIANT NoMissedSignal
PROPERTIES SignalFreesOne SignalReturns
CHECK_DEADLOCK FALSE
