SPECIFICATION Spec
CONSTANTS
    Handlers <- MCHandlers
    Waits <- MCWaits
INVARIANTS
    MostSpecificWins
    MisconfigurationFailsTheBoot
    WarningsAreTrue
    AnswersReachTheClient
PROPERTIES
    RepeatedOnlyIfSafe
\* The model stops with an answer, or when the start-up failed.
CHECK_DEADLOCK FALSE
