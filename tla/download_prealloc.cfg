SPECIFICATION Spec
CONSTANTS
    r1 = r1
    r2 = r2
    Runs <- OneRun
    NumPieces = 2
    NumPeers = 1
    MaxRetries = 2
    EndsInZero = FALSE
    MaxStarts = 2
    MaxCrashes = 1
CHECK_DEADLOCK FALSE
INVARIANTS SidecarHonest
