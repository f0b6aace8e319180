SPECIFICATION Spec
CONSTANTS
    Cpus = {c1, c2}
    Timers = {t1}
    Starters = {p1, p2}
    Cancellers = {p2}
    Hotplug = {c1, c2}
    Migration = Migration
    Nobody = Nobody
    MaxSeq = 4
SYMMETRY Symmetry
INVARIANTS
    LockProtects
    QueueMatchesBase
PROPERTIES
    CancelSeesInactive
    ImplementsAbs
