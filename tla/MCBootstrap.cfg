\* Two processes bootstrap one prefix, each with a probe of two threads.
SPECIFICATION FairSpec
CONSTANTS
    Processes = {p1, p2}
    Racers = {r1, r2}
    TransportRetries = 1
    MaxAttempts = 3
    Nobody = nobody
CHECK_DEADLOCK FALSE
INVARIANTS
    BootTypeOK
    OneGenesis
    GenesisIsReadable
PROPERTIES
    GateIsSound
    BootstrapEnds
