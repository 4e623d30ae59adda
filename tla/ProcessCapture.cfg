SPECIFICATION FairSpec
CONSTANTS
    Modes <- MCModes
    MaxChunks = 1
    MaxExceptions = 1
INVARIANTS Whole NoOrphan CleanupRan
PROPERTIES Returns
CHECK_DEADLOCK FALSE
