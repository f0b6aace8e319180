SPECIFICATION Spec
CONSTANTS
    jiffies = jiffies
    pm = pm
    hpet = hpet
    tsc = tsc
    NULL = NULL
    Sources = {jiffies, pm, hpet, tsc}
    Jiffies = jiffies
    InitRating <- MCRating
    MustVerify = {tsc}
    Continuous = {pm, hpet, tsc}
    Nonstop = {pm, tsc}
    MayBreak = {pm}
    Distrusted = {tsc, hpet}
    MaxOps = 3
    MaxKthreads = 2
    MaxFails = 1
INVARIANTS UnboundIsUnused BestIsUsed WatchedIsChecked
PROPERTIES UnstableIsDemoted
CHECK_DEADLOCK FALSE
