SPECIFICATION Spec
CONSTANTS
    r1 = r1
    r2 = r2
    Runs <- TwoRuns
    NumPieces = 2
    NumPeers = 1
    MaxRetries = 1
    EndsInZero = TRUE
    MaxStarts = 3
    MaxCrashes = 1
SYMMETRY RunSymmetry
CHECK_DEADLOCK FALSE
INVARIANTS SidecarHonest CompletedIsWritten
