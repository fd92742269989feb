SPECIFICATION Spec
CONSTANTS
    f1 = f1
    f2 = f2
    s1 = s1
    s2 = s2
    None = None
    File = {f1, f2}
    Slot = {s1, s2}
    ScannerEnabled = TRUE
    MaxFiles = 1
    MaxReservations = 1
    MaxScans = 3
    AttemptBound = 3
SYMMETRY Symmetry
INVARIANTS OnlyCleanIsDownloadable QuotaHolds
