CONSTANTS
    Items = 1
    Blockers = {"actor", "recipient"}
    Workers = {w1}
    MaxAsk = 1
    MaxTime = 4
    MaxThrows = 1
SPECIFICATION FairBlockSpec
CHECK_DEADLOCK FALSE
PROPERTIES CleanupEnds
