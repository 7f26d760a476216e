SPECIFICATION Spec
CONSTANTS
    Calls = {c1, c2, c3, c4, c5}
    Limit <- MCLimit
    Interval <- MCInterval
    MaxWait <- MCMaxWait
    MaxLate <- MCMaxLate
    MaxTime <- MCMaxTime
SYMMETRY Symmetry
INVARIANTS
    TokensConserved
    QuotaKept
    SmoothUnlessAborted
\* The `available` getter can always be read.
CHECK_DEADLOCK TRUE
