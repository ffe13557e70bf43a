CONSTANTS
    Absent = Absent
    Forms <- MCForms
    Kinds = {"multipart", "urlencoded", "other"}
    Slack = 1
    MaxFields = 2
    MaxPartSize = 10
    MaxFileSize = 3
    MaxBody = 36
    MaxChunk = 7
    MaxReads = 3
SPECIFICATION BodySpec
CHECK_DEADLOCK FALSE
INVARIANTS
    ReadsAreWhatWasSent
    LimitsExact
PROPERTY EveryReadEnds
