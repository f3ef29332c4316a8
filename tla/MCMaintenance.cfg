\* Two transactions and a maintenance pass over two files; the policy is replay_all,
\* so that a lost pass may be replayed as well as aborted.
SPECIFICATION Spec
CONSTANTS
    Files = {f1, f2}
    Writers = {w1, w2}
    Runners = {m1}
    ExpireAge = 1
    Delay = 2
    ReplayAll = TRUE
    MaxStage = 1
    MaxSkew = 1
    MaxTime = 6
SYMMETRY Symmetry
INVARIANTS
    MaintenanceTypeOK
    NeededFilesPresent
PROPERTIES
    DeletedLongAfterUse
