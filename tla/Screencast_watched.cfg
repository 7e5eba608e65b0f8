SPECIFICATION Spec
CONSTANTS
    Connections = {w1}
    Streams = {t1, t2}
    Capacity = 1
INVARIANT WatchedIsCaptured
CHECK_DEADLOCK FALSE
