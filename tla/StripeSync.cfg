SPECIFICATION Spec
CONSTANTS
    h1 = h1
    h2 = h2
    Handler = {h1, h2}
    MaxSub = 2
    MaxEvents = 4
    MaxOthers = 1
    MaxShared = 1
    MaxOverlaps = 1
    GracePeriod = 2
SYMMETRY Symmetry
INVARIANTS
    SyncConsistent
    RowFollowsNewestEvent
PROPERTIES
    GraceIsKept
\* Nothing happens once every event is processed and no other is sent.
CHECK_DEADLOCK FALSE
