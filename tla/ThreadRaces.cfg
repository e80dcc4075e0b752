CONSTANTS
    Users = {u1, u2}
    Process = {p1, p2}
    MaxMessages = 3
    MaxChanges = 4
SPECIFICATION Spec
CHECK_DEADLOCK FALSE
SYMMETRY Symmetry
INVARIANTS PreviewCurrent Withdrawn Forgotten RestoredAsMeant
