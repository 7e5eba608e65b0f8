SPECIFICATION MCSpec
CONSTANTS
    Sessions = {s1}
    RingCapacity = 2
    ChannelCapacity = 2
    MaxEvents = 4
    MaxDue = 1
    Connections = {w1, w2}
    Streams = {t1, t2, t3}
    Capacity = 1
    Callers = {c1}
    Beats = {b1}
    Engines = {e1, e2}
    Attempts = {a1, a2, a3}
    NoTask = NoTask
    MaxRestarts = 2
    Window = 2
    Delay <- MCDelay
    Interval = 1
    LaunchBudget = 1
INVARIANT NoStrayCapture
PROPERTIES Recovers CatchesUp VanishedIsReleased StreamsEnd
CHECK_DEADLOCK FALSE
