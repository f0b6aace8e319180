CONSTANTS
    Tasks = {p}
    MaxTime = 4
    Delays = {1, 3}
    Slack = 1
    MaxCalls = 2
    MaxSignals = 2
    MaxWakes = 1
SPECIFICATION FairSpec
INVARIANTS FrameIsDead NeverEarly
PROPERTIES RestIsEnough RestartKeepsExpiry CallsReturn
CHECK_DEADLOCK FALSE
