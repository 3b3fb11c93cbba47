SPECIFICATION Spec
CONSTANTS
    Classes <- Two
    MaxLooks = 2
    Clears <- ClearsMix
    Breaks <- BreaksMix
    Spread <- SpreadMix
    Recovery = FALSE
    ClosedLoop = TRUE
    RepSizes = {2}
    RepSeconds = 2
    WarmupSeconds = 0
    Drains = {1}
    Estimate = 2
    MaxRequests = 0
    MaxSeconds = 0
    MaxReps = 0
    MinSeconds = 5
    HeavyOneIn = 2
    SevereMinN = 4
    Spent = {0}
INVARIANT VerdictIsEarned
