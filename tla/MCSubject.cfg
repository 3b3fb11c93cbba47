SPECIFICATION Spec
CONSTANTS
    Top = 7
    Policies <- Mixed
    MinConfirmed = 2
INVARIANTS
    HighestFirst
    ConfirmedStands
    Bracketed
    StopsAtSaturation
    EntryIsBacked
    ReportIsTrue
    ConformsUnlessWithheld
PROPERTIES
    InvalidIsFinal
    Terminates
