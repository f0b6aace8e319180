SPECIFICATION Spec
CONSTANTS
    Timers = {t1, t2}
    None = None
    Never = Never
    W = 8
    LVL_CLK_SHIFT = 1
    LVL_BITS = 2
    LVL_DEPTH = 3
    TIMER_NEXT_MAX_DELTA = 50
    Start = 253
    Deltas = {5, 13, 255}
    MaxTicks = 7
    MaxLag = 1
SYMMETRY Symmetry
INVARIANTS NothingMissed WakesInTime
PROPERTIES FiresOnTime NoWarning
CHECK_DEADLOCK FALSE
