\* Two startups; up to three resources registered, two of them with a cleanup.
CONSTANTS
    a = a
    b = b
    c = c
    q = q
    None = None
    Resource = {a, b, c}
    Request = {q}
    HasCleanup = {a, b}
    StartHandlers = 1
    StopHandlers = 1
    MaxListed = 3
    MaxRounds = 2
SPECIFICATION Spec
CHECK_DEADLOCK FALSE
INVARIANTS
    ClosedAsOpened
    ServedOpen
    ReportsTruth
