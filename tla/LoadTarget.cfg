SPECIFICATION Spec
CONSTANTS
    Tasks = {t1, t2, t3}
    Threads = 2
    Pauses = TRUE
    Fires = 2
    Runs = 2
INVARIANTS
    Accounting
    ClosedLoopHolds
    NothingHidden
    NothingLost
PROPERTIES
    Drains
