-------------------------- MODULE MCBlockLifecycle --------------------------
(* BlockLifecycle for its configurations, with names of its own for what    *)
(* SocialAggregation names too: LifecycleProofs is about both.              *)
EXTENDS Naturals, FiniteSets, TLC

CONSTANTS Items, Blockers, Workers, MaxAsk, MaxTime, MaxThrows

VARIABLES now, block, blocked_at, unblocked_at, ask, liking, item, agg, queue, work, throws

blockVars == <<now, block, blocked_at, unblocked_at, ask, liking, item, agg, queue, work, throws>>

B == INSTANCE BlockLifecycle WITH
        Worker <- Workers, MaxFails <- MaxThrows,
        like <- liking, pending <- queue, job <- work, fails <- throws

ASSUME BlockFits == B!BlockAssumption

BlockSpec == B!Spec
FairBlockSpec == B!FairSpec

BlockSymmetry == Permutations(Workers)

-----------------------------------------------------------------------------
\* While a block stands nothing its actor did makes a notification appear.
SuppressedWhileBlocked == B!SuppressedWhileBlocked

\* When the clean-ups are over, nothing from before a standing block is left.
CleanedUp == B!CleanedUp

\* A block is cleaned up after, unless it is lifted.
CleanupEnds == B!CleanupEnds

=============================================================================
