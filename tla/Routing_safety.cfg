CONSTANTS
    None = None
    Segments <- MCSegments
    Methods = {"GET", "WS"}
    Patterns <- MCPatterns
    Paths <- MCPaths
    Markers <- MCMarkers
    Numerals = {"7"}
    Handlers = {"h", "k"}
    Bundles <- MCBundles
    Roots <- MCRoots
    DocPath <- MCDoc
    DocHandler = "doc"
    MaxCalls = 3
SPECIFICATION RoutingSpec
CHECK_DEADLOCK FALSE
INVARIANTS
    MatchIsTheRoutes
    HiddenByLiteralsOnly
    PathsLand
    DocCurrent
