\* One token a tick and timers that fire on time.
SPECIFICATION Spec
CONSTANTS
    Calls = {c1, c2, c3, c4, c5}
    Limit = 1
    Interval = 1
    MaxWait = 3
    MaxLate = 0
    MaxTime = 3
SYMMETRY Symmetry
INVARIANTS
    ServedInOrder
CHECK_DEADLOCK TRUE
