\* Two writers and a collector share one pack.  A writer may be one unit of time
\* between refresh and manifest, a cycle one unit between listing and deletes, and
\* the grace is two: with either of them longer the properties fail.
SPECIFICATION FairSpec
CONSTANTS
    Packs = {1}
    Writers = {1, 2}
    Collectors = {1}
    RetainGenerations = 1
    MaxGeneration = 1
    Grace = 2
    MaxStall = 1
    MaxCycle = 1
    MayPause = TRUE
    QuietGap = TRUE
    BreakerMin = 10
    MaxFaults = 1
INVARIANTS
    PackTypeOK
    CommittedPacksPresent
PROPERTIES
    DeletesAreSafe
    ColdPacksReclaimed
