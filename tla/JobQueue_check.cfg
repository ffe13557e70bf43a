CONSTANTS
    j1 = j1
    j2 = j2
    j3 = j3
    Retries = 1
    Job = {j1, j2}
    MaxWorkers = 2
    Caller = {c1, c2}
    Key = {k1}
    NoJob = NoJob
    NoKey = NoKey
    NoWorker = NoWorker
    MaxRetries <- OneRetried
    BaseDelay = 1
    Backoff = 2
    MaxDelay = 2
    Jitter = 0
    PollTicks = 1
    Horizon = 1
    Stops = TRUE
    Overlap = TRUE
    Stubborn = TRUE
    Strays = TRUE
SPECIFICATION FairSpec
CHECK_DEADLOCK FALSE
INVARIANTS
    BooksAgree
    NoOversleep
    JoinAndStopSound
PROPERTIES ImplementsLedger EveryJobSettles StopReturns
