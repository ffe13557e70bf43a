\* Every small graph, under every kind of override.
CONSTANTS
    session = session
    user = user
    audit = audit
    Endpoint = Endpoint
    Dep = {session, user, audit}
    Graphs <- Trees
    AsyncGen = {session}
    SyncGen = {audit}
    Overrides <- Tables
    MaxDepth = 5
SPECIFICATION Spec
INVARIANTS
    ClosedAfterUsers
    AllClosed
    SharedAsCached
CHECK_DEADLOCK FALSE
