SPECIFICATION Spec
CONSTANTS
    Cpus = {c1, c2}
    Timers = {t1}
    Threads = {p1, p2}
    Starter1 = p1
    Stopper1 = p2
    None = None
    Hotplug = {c1, c2}
    Uses <- MCUses
SYMMETRY Symmetry
INVARIANTS ShutdownIsFinal SerializedWithItself QueuedWhereFlagsSay
PROPERTIES SyncMeansIdle
CHECK_DEADLOCK FALSE
