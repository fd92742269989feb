SPECIFICATION FairSpec
CONSTANTS
    MaxAttempts = 3
    MaxEvents = 3
INVARIANTS
    DeliveryConsistent
PROPERTIES
    EveryDeliveryEnds
\* Nothing is left to do once the call has returned and all events are recorded.
CHECK_DEADLOCK FALSE
