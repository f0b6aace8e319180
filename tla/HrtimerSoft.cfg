CONSTANTS
    Cpus = {c1}
    Timers = {h, s}
    Soft = {s}
    Real = {}
    Lazy = {}
    None = None
    KTIME_MAX = 6
    MaxTime = 4
    Slacks = {0}
    Offsets = {0}
    HangDelay = 1
    Deferred = TRUE
    MaxStarts = 4
    MaxSets = 0
SPECIFICATION FairSpec
INVARIANTS NextMirrorsDevice
PROPERTIES EveryTimerExpires
CHECK_DEADLOCK FALSE
