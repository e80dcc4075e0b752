------------------------------ MODULE MCSettles ------------------------------
(***************************************************************************)
(* What is handed to a queue comes to an end: the events of the outbox and *)
(* the files to be processed.  The two share no document and no queue and  *)
(* are checked side by side: every behaviour is one of a single part, and  *)
(* the other rests.                                                        *)
(***************************************************************************)
EXTENDS Naturals

CONSTANTS
    Event, FanoutEvent, Publisher, Worker, NoEvent, NoPublisher, MaxAttempts, MaxFaults,    \* Outbox
    Hand, MaxTries, MaxMishaps                                                              \* Media

VARIABLES
    part,
    status, lockedBy, expired, job, pub, wrk, applied, fanned, ghosts, faults,
    asset, doc, upload, removal, mediaJob, owner, tries, hand, scan, excused, mishaps

outboxVars == <<status, lockedBy, expired, job, pub, wrk, applied, fanned, ghosts, faults>>
mediaVars == <<asset, doc, upload, removal, mediaJob, owner, tries, hand, scan, excused, mishaps>>

O == INSTANCE Outbox
M == INSTANCE Media WITH job <- mediaJob

ASSUME ConstantsFit == M!MediaAssumption

Init == part \in {"outbox", "media"} /\ O!Init /\ M!Init

Next ==
    \/ part = "outbox" /\ O!Next /\ UNCHANGED <<part, mediaVars>>
    \/ part = "media" /\ M!Next /\ UNCHANGED <<part, outboxVars>>

\* The part that rests has nothing to do that its fairness would demand.
FairSpec == Init /\ [][Next]_<<part, outboxVars, mediaVars>> /\ O!Fairness /\ M!Fairness

-----------------------------------------------------------------------------
\* Every inserted event is processed or parked as a dead letter, and it is
\* processed when there are fewer faults than a job has attempts.
EventsSettle == part = "outbox" => O!EventuallySettled /\ O!EventuallyProcessed

\* No file stays pending.
PendingEnds == part = "media" => M!PendingEnds

=============================================================================
