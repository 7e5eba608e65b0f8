SPECIFICATION StorageSpec
CONSTANTS
    Callers = {c1, c2}
    NoHolder = NoHolder
    MaxChanges = 2
    MaxBrowsers = 2
    MaxBoots = 1
    ReplayFails = FALSE
SYMMETRY Symmetry
PROPERTIES LoginKept
CHECK_DEADLOCK FALSE
