SPECIFICATION Spec
CONSTANTS
    Request = {r1, r2, r3}
    Challenge = {c1}
    MaxSecret = 2
    MaxCode = 2
    MaxStep = 2
SYMMETRY Symmetry
INVARIANTS
    ProofsCountOnce
    OnlyRacesWeaken
PROPERTIES
    OnlyRacingSetupOverwrites
