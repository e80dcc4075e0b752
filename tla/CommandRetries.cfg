CONSTANTS
    d = d
    g = g
    x = x
    y = y
    o = o
    Convs = {d, g}
    Direct = {d}
    Others = {u}
    Texts = {x, y}
    None = None
    Requests <- MCRequests
    Process = {p1, p2}
    MaxRequests = 3
    MaxChanges = 2
SPECIFICATION Spec
CHECK_DEADLOCK FALSE
INVARIANTS EmittedOnce
PROPERTIES WritesOnce CountedForMembers
