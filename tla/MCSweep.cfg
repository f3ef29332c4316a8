\* Two appends race a collector that keeps the head only.
SPECIFICATION SweepFairSpec
CONSTANTS
    Writers = {w1, w2}
    Collectors = {c1}
    Bootstrapper = boot
    Transactions <- Appends
    MaxGeneration = 2
    Collecting = FALSE
    MaxAttempts = 2
    RetainGenerations = 1
INVARIANTS
    RetainedPayloadsPresent
PROPERTIES
    SweptIsDecided
    SweepImplementsCommit
    TransactionsEnd
