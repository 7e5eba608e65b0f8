SPECIFICATION MCSpec
CONSTANTS
    Clients = {c1, c2}
    MaxPages = 2
    MaxTabs = 2
    MaxSerial = 2
    MaxEngines = 2
    MayAbandon = FALSE
    Creates = TRUE
    MaxCalls = 3
    Places = {here, there}
    PhaseTimeout = 2
    MaxPhaseRestarts = 2
    PollBudget = 3
    MaxPollBudget = 2
    Slowest = 1
    MaxDocs = 3
    Handles = {h1, h2, b}
    Blind = {b}
    FeedCapacity = 2
    ChannelSize = 1
    MaxSpawns = 3
    MaxEvents = 2
SYMMETRY Symmetry
VIEW View
INVARIANTS PagesSound OneActiveUnlessRelisted NoOrphan NoStrayFeed ActsOnSettled FeedsSound
CHECK_DEADLOCK FALSE
