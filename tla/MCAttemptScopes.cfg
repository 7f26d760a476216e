SPECIFICATION Spec
CONSTANTS
    Signals = {g1, g2}
    MaxScopes <- MCMaxScopes
SYMMETRY Symmetry
INVARIANTS
    CurrentIsInnermost
    NoAbortedAttempt
    EndedAreLetGo
\* All scopes may have been opened and ended, all signals aborted.
CHECK_DEADLOCK FALSE
