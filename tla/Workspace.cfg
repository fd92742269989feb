SPECIFICATION Spec
CONSTANTS
    u1 = u1
    u2 = u2
    c1 = c1
    c2 = c2
    User = {u1, u2}
    Organization = {o1, o2}
    Call = {c1, c2}
    None = None
    MaxOvertaken = 1
SYMMETRY Symmetry
CONSTRAINT FewOvertaken
INVARIANTS
    WorkspaceConsistent
    PreviousUserIsForgotten
    OpensAnOrganization
