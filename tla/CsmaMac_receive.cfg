SPECIFICATION Spec
CONSTANTS
    a1 = a1
    r1 = r1
    r2 = r2
    AppPacket = {a1}
    AirPacket = {r1, r2}
    SendSize = 2
    RecvSize = 2
    Hello = hello
    Nothing = nothing
PROPERTY ReceivedIsQueue
