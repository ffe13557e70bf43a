CONSTANTS
    c1 = c1
    c2 = c2
    r1 = r1
    r2 = r2
    r3 = r3
    r4 = r4
    Client = {c1}
    Request = {r1, r2, r3, r4}
    Field = {k1}
    None = None
    Cleared = Cleared
    Modes = {"cookie", "memory"}
    MaxAge = 1
    Fallbacks = 0
    MaxRestarts = 1
    Horizon = 1
    MaxChanges = 1
SPECIFICATION Spec
SYMMETRY Symmetric
CHECK_DEADLOCK FALSE
INVARIANTS
    FollowerAccepted
    OnlyAnsweredWrites
    
PROPERTY SafeRequestRepairs
