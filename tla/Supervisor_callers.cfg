SPECIFICATION Spec
CONSTANTS
    Callers = {c1, c2}
    Beats = {b1, b2}
    Engines = {e1, e2, e3}
    Attempts = {a1, a2}
    None = None
    MaxRestarts = 1
    Window = 2
    Delay <- NoDelay
    Interval = 0
    LaunchBudget = 1
SYMMETRY Symmetry
INVARIANTS BreakerBound EnginesSound
PROPERTY ImplementsSlot
