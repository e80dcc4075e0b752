CONSTANTS
    Convs = {c1, c2}
    Process = {p1, p2}
    MaxMessages = 2
    MaxClears = 2
    Readers = {r1, r2}
    Tweets = {1, 2, 3}
    MaxSteps = 5
    MaxKey = 4
    Limit = 2
    MaxChanges = 2
SPECIFICATION Spec
CHECK_DEADLOCK FALSE
SYMMETRY Symmetry
INVARIANTS UnreadCounted NotesCurrent TimelineAgrees EachOnce
PROPERTIES ForwardOnly
