\* One process whose client repeats a request once, as make_s3_client sets it.
SPECIFICATION Spec
CONSTANTS
    Processes = {p1}
    Racers = {r1, r2}
    TransportRetries = 1
    MaxAttempts = 2
    Nobody = nobody
CHECK_DEADLOCK FALSE
PROPERTIES
    CertifiedOnEvidence
