SPECIFICATION BatchSpec
CONSTANTS
    b1 = b1
    b2 = b2
    Invocations = {b1, b2}
    None = None
    Explicit = {1}
    Runs <- Pairs
    Target <- Tokens
    FailFast = {b1}
    Dir <- OneDir
    Providers <- Tokenizers
    Strategy = "auto"
INVARIANTS
    SummaryIsTrue
    TurnsAreShared
    ClosestKept
    Converges
PROPERTY Ends
