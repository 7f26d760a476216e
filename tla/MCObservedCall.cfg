SPECIFICATION Spec
CONSTANTS
    Attempts <- MCAttempts
    MaxValues <- MCMaxValues
INVARIANTS
    OneOrigin
    OneSourceAtATime
    NothingLeftBehind
PROPERTIES
    NoCallOnceAborted
    AbortEnds
    EndsInTime
\* An execution ends, or its stream hangs.
CHECK_DEADLOCK FALSE
