SPECIFICATION Spec
CONSTANTS
    MaxAttempts = 3
    MaxEvents = 2
INVARIANTS OutcomeIsObservable OutcomeIsKept
CHECK_DEADLOCK FALSE
