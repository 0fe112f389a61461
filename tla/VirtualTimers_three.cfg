SPECIFICATION Spec
CONSTANTS
    mac = mac
    led = led
    Timer = {events, mac, led}
    IsrTimer = {events}
    MaxSlots = 4
    MaxPool = 2
    Shape <- SoonOrPeriodic
    Cushion = 1
    MaxTicks = 3
    LastCall = 1
    Never = never
    NoTimer = notimer
INVARIANTS TypeOK AlarmCoversTimers
PROPERTIES EarliestFirst
SYMMETRY SameKind
