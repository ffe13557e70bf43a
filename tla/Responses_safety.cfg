CONSTANTS
    None = None
    MaxSize = 4
    ChunkSize = 2
    MaxItems = 3
    MaxPings = 2
SPECIFICATION Spec
CHECK_DEADLOCK FALSE
INVARIANTS
    FileAsAsked
    WellSent
    NothingSkipped
