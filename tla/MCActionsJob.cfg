SPECIFICATION JobSpec
CONSTANTS
    Subjects = 2
    Arms = 2
    Overload <- Second
    Verified = TRUE
    Job = Job
    Writers = {Job, r1}
    Theirs <- Results
    Nothing = Nothing
    Files = Files
    Dest <- Places
    Others = 1
    Faults = 1
INVARIANTS
    ListedAreWritten
    CountsMatch
    TwiceOnlyInARace
    SavedOrOvertaken
    CommittedIsReadable
PROPERTIES
    NothingTakenBack
    BranchIsALog
