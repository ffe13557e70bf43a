\* Four requests for one permit, one of them with a plain (threaded) handler;
\* every failure the code can meet.
CONSTANTS
    r1 = r1
    r2 = r2
    r3 = r3
    r4 = r4
    Req = {r1, r2, r3, r4}
    SyncReq = {r1}
    MaxConcurrency = 1
    RequestTimeout = TRUE
    DrainTimeouts = {TRUE, FALSE}
    Cancels = TRUE
    BadMappers = TRUE
SPECIFICATION FairSpec
INVARIANTS
    PermitsSound
    CountAndDrainSound
CHECK_DEADLOCK FALSE
PROPERTIES ImplementsGate EveryRequestLeaves DrainEnds
