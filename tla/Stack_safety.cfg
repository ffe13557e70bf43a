CONSTANTS
    r1 = r1
    r2 = r2
    r3 = r3
    home = home
    other = other
    Request = {r1, r2, r3}
    None = None
    Star = Star
    Orders <- MCOrders
    Scopes <- MCScopes
    Answers <- MCAnswers
    Prefer <- MCPrefer
    MaxRequests = 2
    Window = 2
    Ttl = 2
    MaxEntries = 1
    MinSize = 2
    AllowedOrigins <- MCAllowedOrigins
    AllowedMethods <- MCAllowedMethods
    Credentials = TRUE
    AllowedHosts = {home}
    TrustedProxies = {"p"}
    Horizon = 3
SPECIFICATION Spec
SYMMETRY Symmetric
CHECK_DEADLOCK FALSE
INVARIANTS
    CacheHonest
    Quota
    RightForClient
