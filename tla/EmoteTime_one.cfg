SPECIFICATION EmoteFairSpec
CONSTANTS
    Timer = {events, mac}
    IsrTimer = {events}
    EVENTS = events
    MaxSlots = 3
    MaxPool = 1
    Shape <- OneShotSoon
    Cushion = 1
    MaxTicks = 4
    LastCall = 3
    Never = never
    NoTimer = notimer
    Completion = {c1}
    Delta = {0, 1, 4}
    PastDelay = 1
    IdleValue = idle
    CLOCK_COMMON_FACTOR = 2
    timerFrequency = 4
    Word = 8
    CallbacksEnqueue = FALSE
    NoCall = nocall
INVARIANTS HeadHasTimer TimerIsForCompletion
PROPERTY CompletionsFire
