SPECIFICATION FairSpec
CONSTANTS
    w1 = w1
    w2 = w2
    w3 = w3
    Weak = {w1, w2}
    Slots = 2
    BlockSlots = 2
    SafeObjects = 1
    Nothing = nothing
    Ram = ram
    Unsequenced = 9
    MaxSets = 3
    MaxFaults = 2
    FailsUnsequenced = FALSE
    MoveWhenIdle = FALSE
INVARIANTS TypeOK PersistedIsStored RestartKeeps IdleMeansSaved
PROPERTY ComesToRest
