SPECIFICATION FairSpec
CONSTANTS
    Savers <- EverySaver
    Overlap = FALSE
    MaxRegistrations = 3
    MaxDeaths = 2
CHECK_DEADLOCK FALSE
INVARIANTS GoodSnapshot ShutdownKeeps
PROPERTIES NeverGoesBack SignalSaves
