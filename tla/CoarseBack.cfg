SPECIFICATION Spec
CONSTANTS
    Clocks = {"tsc"}
    Source <- MCFineSource
    Default = "tsc"
    NSEC_PER_SEC = 4
    NTP_INTERVAL_LENGTH = 2
    MaxAdj = 1
    W = 7
    Day = 2
    KTIME_MAX = 1000
    MaxTime = 9
    MaxIdle = 3
    Sets = {}
    Shifts = {}
    Sleeps = {}
    MaxOps = 1
PROPERTIES CoarseNeverBack
CHECK_DEADLOCK FALSE
