SPECIFICATION FairSpec
CONSTANTS
    a1 = a1
    r1 = r1
    r2 = r2
    AppPacket = {a1}
    AirPacket = {r1}
    SendSize = 2
    RecvSize = 1
    Hello = hello
    Nothing = nothing
INVARIANTS TypeOK PendingIsAnswered
PROPERTIES NotCutOff SendBufferIsQueue StoredIsTaken
