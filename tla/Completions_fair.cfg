SPECIFICATION FairSpec
CONSTANTS
    timer = timer
    Completion = {u1, i1}
    IsrCompletion = {i1}
    Event <- TimerEvent
    SystemTimer = timer
    Delta = {1, 2}
    Timeout = {0, 1, 2}
    WakeupSets <- TimerMask
    MaxTicks = 3
    IdleValue = 14
    CompareRange = 4
    RelinkAllowed = FALSE
    NoCall = nocall
INVARIANTS TypeOK HeadIsCompare
PROPERTIES KeepsTimerPromise CompletionsFire ContinuationsRun WaitEnds
