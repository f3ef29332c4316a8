\* Enough generations for two overshoots of a gallop capped at 4.
SPECIFICATION FairSpec
CONSTANTS
    MaxGeneration = 12
    ProbeCap = 9
    GallopCap = 4
    GetsCounted = 10
    NoHint = NoHint
INVARIANTS
    TypeOK
    ResolvedIsCommitted
    ResolvedIsRecent
    GallopIsLogarithmic
PROPERTIES
    SearchEnds
