SPECIFICATION Spec
CONSTANTS
    Calls <- MCCalls
    MaxConcurrent <- MCMaxConcurrent
    MaxQueue <- MCMaxQueue
    HasQueueTimeout = TRUE
INVARIANTS
    SlotsAccounted
    NoIdleSlot
    QueueHoldsTheWaiting
PROPERTIES
    ImplementsFairSlots
    NoStarvation
\* The model stops once every call has settled.
CHECK_DEADLOCK FALSE
