CONSTANTS
    u1 = u1
    u2 = u2
    i2 = i2
    a1 = a1
    a2 = a2
    s2 = s2
    k = k
    User = {u1, u2}
    Actor = {a1, a2}
    Individual = {i1, i2}
    Window = {x1, x2}
    AggKey = {k}
    Source = {s1, s2, s3}
    Recipient <- MCRecipient
    KeyOf <- MCKeyOf
    SourceActor <- MCSourceActor
    SourceKey <- MCSourceKey
    NoSource = NoSource
    NoUser = NoUser
    Txn = {t1, t2}
    MaxRuns = 4
SPECIFICATION Spec
CHECK_DEADLOCK FALSE
SYMMETRY Symmetry
INVARIANTS ActorCountExact OneOpenWindow UnreadCountExact BadgeAgrees
PROPERTIES ReadStays
