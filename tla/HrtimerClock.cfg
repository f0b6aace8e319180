CONSTANTS
    Cpus = {c1, c2}
    Timers = {h, r}
    Soft = {}
    Real = {r}
    Lazy = {h}
    None = None
    KTIME_MAX = 3
    MaxTime = 1
    Slacks = {0, 1}
    Offsets = {0, 1}
    HangDelay = 1
    Deferred = TRUE
    MaxStarts = 2
    MaxSets = 2
SPECIFICATION Spec
INVARIANTS NoMissedEvent ClockSetTakesEffect
CHECK_DEADLOCK FALSE
SYMMETRY Symmetry
