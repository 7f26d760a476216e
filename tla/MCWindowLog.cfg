SPECIFICATION Spec
CONSTANTS
    Size <- MCSize
    Buckets <- MCBuckets
    Width <- MCWidth
    MaxTime <- MCMaxTime
    MaxRecords <- MCMaxRecords
INVARIANTS
    CountsLastCalls
    CountsRecentBuckets
\* The clock and the log are bounded, and Reset keeps the model going.
CHECK_DEADLOCK TRUE
