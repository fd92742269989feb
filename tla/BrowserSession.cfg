SPECIFICATION FairSpec
CONSTANTS
    Page = {p1, p2}
    Session = {s1, s2, s3}
    Request = {r1, r2}
    None = None
INVARIANTS
    SessionHeldOnce
PROPERTIES
    SignedOutStaysOut
    RestoreEnds
\* Nothing happens once every session id is used up.
CHECK_DEADLOCK FALSE
