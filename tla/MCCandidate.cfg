SPECIFICATION Spec
CONSTANTS
    Classes <- One
    MaxLooks = 2
    Clears <- ClearsOne
    Breaks <- BreaksOne
    Spread <- SpreadOne
    Recovery = TRUE
    ClosedLoop = FALSE
    RepSizes = {1, 3}
    RepSeconds = 2
    WarmupSeconds = 1
    Drains = {0, 1}
    Estimate = 2
    MaxRequests = 6
    MaxSeconds = 16
    MaxReps = 4
    MinSeconds = 5
    HeavyOneIn = 2
    SevereMinN = 4
    Spent = {0, 6}
INVARIANTS
    LooksStandAsTaken
    VerdictIsEarned
    CapsBeforeLoad
PROPERTIES
    ContractSpec
    Terminates
