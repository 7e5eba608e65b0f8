SPECIFICATION MCSpec
CONSTANTS
    Clients = {c1, c2}
    Names = {n1, n2}
    Connections = {c1, c2}
    MaxOpen = 1
    Urls <- MCUrls
    Site <- MCSite
    Pairs <- MCPairs
    MaxObjects = 3
    Calls = {k1, k2, k3}
    Nobody = Nobody
    Callers = {c1, c2}
    NoHolder = NoHolder
    MaxChanges = 2
    MaxBrowsers = 3
    MaxBoots = 2
    ReplayFails = TRUE
    MaxSessions = 1
    Rounds = 2
    MaxSupervisors = 2
    MaxEngines = 3
    MaxContexts = 2
SYMMETRY Symmetry
VIEW View
INVARIANTS OneBrowserPerManager ClosedHoldsNothing NoneMissed ClosedForGood StorageSound SnapshotHonest DumpsEachUrl
PROPERTIES NeverReplaced FileNeverOlder EmptiedOnlyBare
CHECK_DEADLOCK FALSE
