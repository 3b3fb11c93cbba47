SPECIFICATION Spec
CONSTANTS
    Publishers = {p1, p2}
    Files = 3
    Tries = 2
INVARIANT ManifestMeansComplete
PROPERTIES
    NeverOverwritten
    PublishedAtLast
