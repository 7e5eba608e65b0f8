SPECIFICATION MCSpec
CONSTANTS
    Clients = {c1}
    MaxPages = 2
    MaxTabs = 3
    MaxSerial = 3
    MaxEngines = 2
    MayAbandon = FALSE
    Creates = TRUE
INVARIANT ClosedStaysClosed
CHECK_DEADLOCK FALSE
