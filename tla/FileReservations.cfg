SPECIFICATION Spec
CONSTANTS
    f1 = f1
    f2 = f2
    s1 = s1
    s2 = s2
    None = None
    File = {f1, f2}
    Slot = {s1, s2}
    ScannerEnabled = FALSE
    MaxFiles = 2
    MaxReservations = 1
    MaxScans = 1
    AttemptBound = 0
SYMMETRY Symmetry
INVARIANTS
    ReservationsBounded
