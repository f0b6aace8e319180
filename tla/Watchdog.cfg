SPECIFICATION WatchdogSpec
CONSTANTS
    Cpus = {0, 1}
    MAX_SEQ = 6
    INTERVAL = 2
    ppm_shift = 0
    Timeout = 1
    WdWidth = 3
    CsWidth = 4
    Skews <- MCSkews
    Rates = {4}
    Stops = {4}
    MaxLate = 0
    MaxReadout = 3
    MaxStops = 1
    MaxTime = 9
INVARIANTS NoFalseSkew SuccessBoundsSkew
PROPERTIES ChecksEnd
CHECK_DEADLOCK FALSE
