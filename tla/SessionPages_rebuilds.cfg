SPECIFICATION FairMCSpec
CONSTANTS
    Clients = {c1}
    MaxPages = 1
    MaxTabs = 3
    MaxSerial = 3
    MaxEngines = 2
    MayAbandon = TRUE
    Creates = TRUE
VIEW View
INVARIANT OneActive
PROPERTY GateReopens
CHECK_DEADLOCK FALSE

