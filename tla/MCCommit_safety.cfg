\* Two transactions of every kind, three attempts each, one generation spare.
SPECIFICATION Spec
CONSTANTS
    Writers = {w1, w2}
    Bootstrapper = boot
    Transactions <- EveryRule
    MaxGeneration = 3
    Collecting = FALSE
    MaxAttempts = 3
SYMMETRY Symmetry
INVARIANTS
    Lineage
    AtMostOnce
    CommittedIsDurable
    AbortedNeverCommits
    NoWriteSkew
PROPERTIES
    MarkersImmortal
    ImplementsCatalogLog
