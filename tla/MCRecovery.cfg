SPECIFICATION Spec
CONSTANTS
    Attempts = 3
    Ratio = 2
    Keep = 3
    KeepOf = 4
    Offered = 2
    Limit = 3
    Latencies <- Few
    Goodputs <- Few
    Calls = 3
INVARIANTS
    RecoveredIsVerified
    InvalidIsExhausted
PROPERTIES
    BaselinesStay
CHECK_DEADLOCK FALSE
