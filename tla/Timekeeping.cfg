SPECIFICATION Spec
CONSTANTS
    Clocks = {"tsc", "acpi"}
    Source <- MCSource
    Default = "tsc"
    NSEC_PER_SEC = 3
    NTP_INTERVAL_LENGTH = 2
    MaxAdj = 1
    W = 4
    Day = 2
    KTIME_MAX = 1000
    MaxTime = 6
    MaxIdle = 5
    Sets = {6}
    Shifts <- MCShifts
    Sleeps = {5}
    MaxOps = 2
INVARIANTS ReadersAgree SleepCountedOnce
PROPERTIES MonotonicNeverBack LeapIsAnnounced
CHECK_DEADLOCK FALSE
