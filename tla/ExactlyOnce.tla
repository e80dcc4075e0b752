---------------------------- MODULE ExactlyOnce ----------------------------
(***************************************************************************)
(* What the outbox promises of an event: it is accepted, its effect takes  *)
(* place once, in the very step that completes it, and a completed event   *)
(* stays completed.  An open event may be parked (a dead letter) and       *)
(* resumed; while it is parked, nothing happens to it.                     *)
(***************************************************************************)
EXTENDS Naturals

CONSTANT Event
VARIABLES phase, effects

Init ==
    /\ phase = [e \in Event |-> "absent"]
    /\ effects = [e \in Event |-> 0]

Move(e, from, to) == phase[e] = from /\ phase' = [phase EXCEPT ![e] = to]

Accept(e) == Move(e, "absent", "open") /\ UNCHANGED effects
Complete(e) == Move(e, "open", "done") /\ effects' = [effects EXCEPT ![e] = @ + 1]
Park(e) == Move(e, "open", "parked") /\ UNCHANGED effects
Resume(e) == Move(e, "parked", "open") /\ UNCHANGED effects

Next == \E e \in Event : Accept(e) \/ Complete(e) \/ Park(e) \/ Resume(e)

Spec == Init /\ [][Next]_<<phase, effects>>

=============================================================================
