SPECIFICATION MCSpec
CONSTANTS
    Callers = {a1, a2}
    Processes = {p1, p2}
    Files = {binary, data}
    Binary = binary
    Versions = {0, 1, 2}
    MaxAttempts = 2
    MaxStagings = 2
    MaxDeaths = 1
    Launchers = {l1, l2}
    Ports = {1, 2}
    Configured = 0
    MaxLaunches = 2
    HandsOff = {l2}
    Isolating = {l1}
    Adopters = {a1, a2}
    Contexts = {p1, p2}
    Elements = {e, f}
    SweepAt = 1
    MaxDocs = 3
    MaxScopes = 2
    Captors = {c1, c2, c3}
    MinInterval = 3
    PENDING_CAP = 2
    RequestIds = {r1, r2, r3}
    MaxClock = 6
    MaxReserved = 12
    MaxNotes = 5
SYMMETRY Symmetry
INVARIANTS InstallsWhole LaunchesTidy RefsFaithful OwnInstallKnown QueueIsTable
PROPERTIES CapturesSpaced
CHECK_DEADLOCK FALSE
