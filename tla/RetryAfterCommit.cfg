SPECIFICATION Spec
CONSTANTS
    Attempts <- MCAttempts
    MaxValues <- MCMaxValues
PROPERTIES
    NoCallOnceCommitted
CHECK_DEADLOCK FALSE
