SPECIFICATION Spec
CONSTANTS
    h1 = h1
    Handler = {h1}
    MaxSub = 1
    MaxEvents = 3
    MaxOthers = 0
    MaxShared = 1
    MaxOverlaps = 1
    GracePeriod = 2
SYMMETRY Symmetry
INVARIANTS
    StatusConverges
\* Nothing happens once every event is processed and no other is sent.
CHECK_DEADLOCK FALSE
