SPECIFICATION Spec
CONSTANTS
    User = {u1, u2, u3}
    Request = {r1, r2}
    None = None
    MaxJoins = 2
SYMMETRY Symmetry
INVARIANTS OwnershipConsistent OnlyRacingTransferOrphans
\* A deleted organization may stop.
CHECK_DEADLOCK FALSE
