\* A heartbeat that has no idle_timeout, or one that is not above its interval.
CONSTANTS
    Interval = 2
    Limits = {0, 2}
    None = None
SPECIFICATION WSFairSpec
INVARIANTS
    CloseIsTold
PROPERTIES BeatEnds IdlePeerIsClosed
CHECK_DEADLOCK FALSE
