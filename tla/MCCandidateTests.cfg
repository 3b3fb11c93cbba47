SPECIFICATION Spec
CONSTANTS
    Classes <- One
    MaxLooks = 2
    Clears <- ClearsOne
    Breaks <- BreaksOne
    Spread <- SpreadOne
    Recovery = TRUE
    ClosedLoop = FALSE
    RepSizes = {2, 3}
    RepSeconds = 2
    WarmupSeconds = 1
    Drains = {0}
    Estimate = 2
    MaxRequests = 8
    MaxSeconds = 30
    MaxReps = 0
    MinSeconds = 0
    HeavyOneIn = 2
    SevereMinN = 4
    Spent = {0}
INVARIANT AtMostLTests
