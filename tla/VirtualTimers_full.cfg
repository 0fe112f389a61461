SPECIFICATION FairSpec
CONSTANTS
    mac = mac
    led = led
    Timer = {events, mac, led}
    IsrTimer = {events}
    MaxSlots = 3
    MaxPool = 1
    Shape <- Soon
    Cushion = 1
    MaxTicks = 3
    LastCall = 1
    Never = never
    NoTimer = notimer
INVARIANT AlarmHasTimer
PROPERTY OneShotsEnd
