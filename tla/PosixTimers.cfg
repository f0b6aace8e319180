SPECIFICATION Spec
CONSTANTS
    Timers = {k1, k2}
    Threads = {p1, p2}
    SigevNone = {k2}
    NoTimer = NoTimer
    INT_MAX = 1
    Values = {0, 2}
    Intervals = {0, 1}
    ClockBack = 1
    MaxTime = 2
    MaxCalls = 4
    MaxIgnores = 1
    MaxSeq = 3
SYMMETRY Symmetry
INVARIANTS RefsAreExact IdsAreUnique PeriodicStaysAlive SignalIsCurrent OverrunsAddUp
CHECK_DEADLOCK FALSE
