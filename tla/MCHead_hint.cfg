\* root.py's promise about the hint, read literally.
SPECIFICATION Spec
CONSTANTS
    MaxGeneration = 3
    ProbeCap = 4
    GallopCap = 2
    GetsCounted = 10
    NoHint = NoHint
INVARIANTS
    HintNeverFailsResolution
