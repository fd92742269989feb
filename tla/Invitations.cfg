SPECIFICATION Spec
CONSTANTS
    Invitation = {i1, i2}
    User = {u1, u2}
    Request = {r1, r2, r3}
    None = None
    MaxJoined = 2
SYMMETRY Symmetry
INVARIANTS InvitationsConsistent OnlyRacesRevive
PROPERTIES AcceptanceIsSound
\* A deleted organization may stop.
CHECK_DEADLOCK FALSE
