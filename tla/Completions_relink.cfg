SPECIFICATION Spec
CONSTANTS
    timer = timer
    Completion = {u1, u2, i1}
    IsrCompletion = {i1}
    Event <- TimerEvent
    SystemTimer = timer
    Delta = {1, 2}
    Timeout = {0, 1, 2}
    WakeupSets <- TimerMask
    MaxTicks = 3
    IdleValue = 14
    CompareRange = 4
    RelinkAllowed = TRUE
    NoCall = nocall
INVARIANTS NodeInOneList SortedByDueTime HeadIsArmed
