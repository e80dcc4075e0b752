CONSTANTS
    Followers = 2
    MaxRelation = 3
    Worker = {w1, w2}
    Batch = 1
    Attempts = 2
    MaxChanges = 3
    MaxFaults = 2
SPECIFICATION FairSpec
CHECK_DEADLOCK FALSE
INVARIANTS OnceEach NobodySkipped
PROPERTIES OnlyWanted EveryoneTold
