------------------------ MODULE MCSocialAggregation ------------------------
(* Actor a1 likes, unlikes and likes again (relations s1 and s3); a2 likes once (s2). *)
EXTENDS SocialAggregation, TLC

CONSTANTS a1, a2, s2

MCActorOf == [s \in Source |-> IF s = s2 THEN a2 ELSE a1]
Symmetry == Permutations(Worker)

=============================================================================
