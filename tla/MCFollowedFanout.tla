-------------------------- MODULE MCFollowedFanout --------------------------
(* The configuration of FollowedFanout.  Symmetry of the workers would not be *)
(* sound for what must eventually happen.                                     *)
EXTENDS FollowedFanout

=============================================================================
