CONSTANTS
    r1 = r1
    r2 = r2
    r3 = r3
    r4 = r4
    Req = {r1, r2}
    SyncReq = {}
    MaxConcurrency = 1
    RequestTimeout = TRUE
    DrainTimeouts = {TRUE}
    Cancels = TRUE
    BadMappers = FALSE
SPECIFICATION Spec
CHECK_DEADLOCK FALSE
INVARIANTS DrainWaitsForRequests
