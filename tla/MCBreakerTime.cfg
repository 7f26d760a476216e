SPECIFICATION Spec
CONSTANTS
    Calls <- MCCalls
    Threshold <- MCThreshold
    Scale <- MCScale
    MinimumCalls <- MCMinimumCalls
    OpenDuration <- MCOpenDuration
    HalfOpenMaxCalls <- MCHalfOpenMaxCalls
    WindowType = "time"
    WindowSize = 1
    Buckets <- MCBuckets
    Width <- MCWidth
    MaxTime <- MCMaxTime
    MaxCommands <- MCMaxCommands
PROPERTIES
    NeverRecordsPastThreshold
    ProbesAreReleased
\* Reading `state` is always possible.
CHECK_DEADLOCK TRUE
