\* Three blind appends where any superseded payload may be deleted.  Two rivals can
\* commit behind the back of the third, which then loses to a head further on than
\* the marker it collides with, or loses twice; and the key format runs out under
\* the last one.
SPECIFICATION Spec
CONSTANTS
    Writers = {w1, w2, w3}
    Bootstrapper = boot
    Transactions <- Appends
    MaxGeneration = 2
    Collecting = TRUE
    MaxAttempts = 3
CONSTRAINT ThirdWriterInCalm
SYMMETRY Symmetry
INVARIANTS
    TypeOK
    HeadPayloadPresent
    LagIsNotCharged
