\* All payloads of up to five bits, chunks of one byte that double beyond four
\* entries, packs of three bytes, windows of one pack.
SPECIFICATION Spec
CONSTANTS
    Bytes = {0, 1}
    MaxSize = 5
    MaxGeneration = 3
    DefaultChunkSize = 1
    MaxEntries = 4
    PackTarget = 3
    Threshold = 2
    WindowPacks = 1
CHECK_DEADLOCK FALSE
INVARIANTS
    TransportTypeOK
    ReconstructIsExact
    ReadsAreExact
    DamageIsNoticed
    OneGetPerRun
PROPERTIES
    UnchangedIsFree
