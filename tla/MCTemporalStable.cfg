SPECIFICATION Spec
CONSTANTS
    Kinds <- Both
    Values <- Measured
    Days = {1, 2}
    Keep = 8
    QuotaKeep = 9
    Of = 10
    Quota = 8
    MinRuns = 2
    MinDays = 2
    Threshold = 200
    MaxRuns = 3
INVARIANT StableMeansEveryRunConfirmed
CHECK_DEADLOCK FALSE
