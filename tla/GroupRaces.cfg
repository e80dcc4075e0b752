CONSTANTS
    Users = {u1, u2, u3, u4}
    Process = {p1, p2}
    MaxMembers = 3
    MaxChanges = 3
SPECIFICATION Spec
CHECK_DEADLOCK FALSE
SYMMETRY Symmetry
INVARIANTS HasAdmin WithinLimit StoryComplete
PROPERTIES ByAdminOnly
