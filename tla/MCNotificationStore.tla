------------------------ MODULE MCNotificationStore ------------------------
(* A recipient u1 of every notification but i2, which is u2's; one aggregation *)
(* key k; relations s1 and s3 of a1 (a like, undone and repeated), s2 of a2.  *)
EXTENDS NotificationStore, TLC

CONSTANTS u1, u2, i2, a1, a2, s2, k

MCRecipient == [n \in Individual \cup Window |-> IF n = i2 THEN u2 ELSE u1]
MCKeyOf == [x \in Window |-> k]
MCSourceActor == [s \in Source |-> IF s = s2 THEN a2 ELSE a1]
MCSourceKey == [s \in Source |-> k]
Symmetry == Permutations(Txn)

=============================================================================
