CONSTANTS
    Actor = {a1, a2}
    Source = {s1, s2, s3}
    ActorOf <- MCActorOf
    Worker = {w1, w2}
    NoSource = NoSource
    MaxFails = 1
    a1 = a1
    a2 = a2
    s2 = s2
SPECIFICATION FairSpec
CHECK_DEADLOCK FALSE
INVARIANTS LikeShown UndoneNotShown
PROPERTIES ClosedFrozen Reconciled
