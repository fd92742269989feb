SPECIFICATION FairSpec
CONSTANTS
    Token = {t1, t2, t3}
    Session = {s1, s2}
    Request = {r1, r2}
    None = None
INVARIANTS
    AccountConsistent
    OnlyOvertakenLoginOutlives
PROPERTIES
    PasswordNeedsLiveLink
    LinkUseEnds
\* Nothing happens once every link and session has been used up.
CHECK_DEADLOCK FALSE
