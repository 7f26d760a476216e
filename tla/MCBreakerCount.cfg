SPECIFICATION SafetySpec
CONSTANTS
    Calls = {c1, c2, c3, c4}
    Threshold <- MCThreshold
    Scale <- MCScale
    MinimumCalls <- MCMinimumCalls
    OpenDuration <- MCOpenDuration
    HalfOpenMaxCalls <- MCHalfOpenMaxCalls
    WindowType = "count"
    WindowSize <- MCWindowSize
    Buckets = 1
    Width = 1
    MaxTime <- MCMaxTime
    MaxCommands <- MCMaxCommands
SYMMETRY Symmetry
INVARIANTS
    ProbesAccounted
    WindowHoldsThisGeneration
    ClosedBelowThreshold
PROPERTIES
    ProbesDecide
\* Reading `state` is always possible.
CHECK_DEADLOCK TRUE
