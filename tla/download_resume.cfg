SPECIFICATION FairSpec
CONSTANTS
    r1 = r1
    r2 = r2
    Runs <- OneRun
    NumPieces = 2
    NumPeers = 2
    MaxRetries = 2
    EndsInZero = FALSE
    MaxStarts = 2
    MaxCrashes = 1
CHECK_DEADLOCK FALSE
INVARIANTS TypeOK SidecarWritten ProgressSound
PROPERTIES SeedsWholeFile RunEnds
