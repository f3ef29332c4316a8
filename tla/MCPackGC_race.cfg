\* No attempt takes any time, and a refresh may land between re-HEAD and DELETE.
SPECIFICATION Spec
CONSTANTS
    Packs = {1}
    Writers = {1, 2}
    Collectors = {1}
    RetainGenerations = 1
    MaxGeneration = 1
    Grace = 2
    MaxStall = 0
    MaxCycle = 1
    MayPause = FALSE
    QuietGap = FALSE
    BreakerMin = 10
    MaxFaults = 1
INVARIANTS
    NoLossWithoutStall
