SPECIFICATION Spec
CONSTANTS
    Savers <- AtShutdown
    Overlap = TRUE
    MaxRegistrations = 3
    MaxDeaths = 2
CHECK_DEADLOCK FALSE
INVARIANTS GoodSnapshot
