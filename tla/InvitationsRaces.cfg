SPECIFICATION Spec
CONSTANTS
    Invitation = {i1, i2}
    User = {u1, u2}
    Request = {r1, r2}
    None = None
    MaxJoined = 2
SYMMETRY Symmetry
INVARIANTS InvitationIsSingleUse DeletedHasNoPending
\* A deleted organization may stop.
CHECK_DEADLOCK FALSE
