SPECIFICATION FairSpec
CONSTANTS
    Organization = {o1, o2}
    None = None
    MaxOperations = 4
    MaxInfected = 1
INVARIANTS
    UploaderConsistent
    OnlySuccessComesLate
    StoredTwiceHasCause
PROPERTIES
    UploadEnds
\* The bound on operations.
CHECK_DEADLOCK FALSE
