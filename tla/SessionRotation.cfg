SPECIFICATION FairSpec
CONSTANTS
    Session = {s1, s2, s3}
    Request = {r1, r2}
    None = None
INVARIANTS TypeOK LinearFamily OnlyNewcomersEscape
PROPERTIES RevocationIsFinal RotationIsABaton ReuseEndsSessions
