SPECIFICATION FairSpec
CONSTANTS
    f1 = f1
    s1 = s1
    s2 = s2
    None = None
    File = {f1}
    Slot = {s1, s2}
    ScannerEnabled = TRUE
    MaxFiles = 1
    MaxReservations = 1
    MaxScans = 2
    AttemptBound = 2
INVARIANTS
    FilesConsistent
PROPERTIES
    PurgeIsFinal
    DueFilesArePurged
    LateUploadsAreErased
