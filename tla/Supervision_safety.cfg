SPECIFICATION MCSpec
CONSTANTS
    Calls = {c1, c2}
    NoUrl = NoUrl
    Raw <- MCRaw
    Canon <- MCCanon
    Rules <- MCRules
    Default = "allow"
    MaxRequests = 3
    MaxMoves = 1
    Sessions = {s1, s2}
    Instances = {first, second}
    Ports = {80, 8420}
    Tabs = {left, right}
    None = None
    Bytes <- MCBytes
    Patterns <- MCPatterns
    Texts <- MCTexts
    Files <- MCFiles
    Omitted = Omitted
    MAX_APPROVAL_TIMEOUT_MS = 3
    DefaultTimeout = 2
SYMMETRY Symmetry
INVARIANTS SlotsSound Accounted Supervised LostOnlyWhileDraining AnswersReach PolicyMeans
PROPERTY ImplementsSubscription
CHECK_DEADLOCK FALSE
