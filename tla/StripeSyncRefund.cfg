SPECIFICATION Spec
CONSTANTS
    h1 = h1
    Handler = {h1}
    MaxSub = 2
    MaxEvents = 4
    MaxOthers = 0
    MaxShared = 0
    MaxOverlaps = 1
    GracePeriod = 2
SYMMETRY Symmetry
INVARIANTS
    PaidPlanKeepsAccess
\* Nothing happens once every event is processed and no other is sent.
CHECK_DEADLOCK FALSE
