CONSTANTS
    Items = 2
    Blockers = {"actor", "recipient"}
    Workers = {w1, w2}
    MaxAsk = 2
    MaxTime = 4
    MaxThrows = 0
SPECIFICATION BlockSpec
CHECK_DEADLOCK FALSE
SYMMETRY BlockSymmetry
INVARIANTS CleanedUp
PROPERTIES SuppressedWhileBlocked
