SPECIFICATION FairSpec
CONSTANTS
    t1 = t1
    t2 = t2
    Timer = {t1, t2}
    Request <- Requests
    Infinite = 99
    MaxTime = 2
    MaxFailures = 1
    Nothing = nothing
INVARIANTS TypeOK ThreadServesTimers
PROPERTY OwedIsCalled
