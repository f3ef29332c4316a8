\* Three jobs, two of which share a holder_id; a lease of two seconds and a
\* clock of half seconds; one fault.
SPECIFICATION FairSpec
CONSTANTS
    alice = alice
    bob = bob
    nobody = nobody
    Nobody = nobody
    Jobs = {1, 2, 3}
    Holders = {alice, bob}
    HolderOf <- OwnName
    Ttl = 4
    Second = 2
    MaxFaults = 1
INVARIANTS
    FreshHolderOwns
PROPERTIES
    LiveLeaseKept
    MaintenanceResumes
