SPECIFICATION Spec
CONSTANTS
    Execs <- MCExecs
    Parent <- MCParent
    Timings <- MCTimings
    Attempts <- MCAttempts
    MaxConcurrent = 2
    MaxQueue = 1
INVARIANTS
    SlotsAreLoad
    OnlyTheLivingWait
    LateResultsAreDropped
    EachAttemptRecordedOnce
PROPERTIES
    NobodyOvertakes
    SettledStays
    SettlesInTime
\* The model stops once every execution has settled, or hangs for good.
CHECK_DEADLOCK FALSE
