SPECIFICATION Spec
CONSTANTS
    Token = {t1, t2}
    Session = {s1, s2}
    Request = {r1, r2}
    None = None
INVARIANT OldPasswordIsUseless
CHECK_DEADLOCK FALSE
