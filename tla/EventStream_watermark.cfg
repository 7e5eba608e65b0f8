SPECIFICATION Spec
CONSTANTS
    Sessions = {s1, s2}
    RingCapacity = 2
    ChannelCapacity = 2
    MaxEvents = 5
    MaxDue = 0
INVARIANTS WatermarkSafe
CHECK_DEADLOCK FALSE
