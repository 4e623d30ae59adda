SPECIFICATION Spec
CONSTANTS
    Modes <- MCModes
    MaxChunks = 1
    MaxExceptions = 0
INVARIANTS TimedOutNonzero
CHECK_DEADLOCK FALSE
