---------------------------- MODULE OutboxProofs ----------------------------
(* Theorems about Outbox, for any number of events, publishers, workers,    *)
(* attempts and faults.                                                     *)
EXTENDS Outbox, TLAPS

-----------------------------------------------------------------------------
(* The inductive invariant.                                                 *)

\* Whoever is at work is at work on some event.
PAttached(p) == pub[p].pc \notin {"idle", "dead"} => pub[p].ev \in Event
WAttached(w) == (wrk[w].pc # "idle" => wrk[w].ev \in Event) /\ (wrk[w].locked => wrk[w].ev \in Event)
Attached == (\A p \in Publisher : PAttached(p)) /\ (\A w \in Worker : WAttached(w))

Typed == TypeOK /\ Attached

OpenStatus == {"pending", "published"}

\* What a worker may rely on at each point of its call: a snapshot that shows
\* an open event is still true unless the transaction is stale; a processed
\* event stays processed; a fan-out source is marked after its effect and its
\* fan-out job.
WInv(w) ==
    LET e == wrk[w].ev IN
    /\ (wrk[w].pc = "tx" /\ wrk[w].snap \in OpenStatus /\ ~wrk[w].dirty /\ e \notin FanoutEvent)
         => status[e] \in OpenStatus
    /\ (wrk[w].pc = "tx" /\ wrk[w].snap = "processed") => status[e] = "processed"
    /\ (wrk[w].pc = "after" /\ e \in FanoutEvent) => applied[e] >= 1
    /\ wrk[w].pc \in {"fanout", "mark"} => e \in FanoutEvent /\ applied[e] >= 1
    /\ wrk[w].pc = "mark" => e \in fanned

IInv ==
    /\ Typed
    /\ AtomicEffect
    /\ FanoutBeforeMark
    /\ \A w \in Worker : WInv(w)

-----------------------------------------------------------------------------
(* Type correctness.                                                        *)

\* A new job is well typed, and so is an absent one.
LEMMA JobType == NoJob \in Job /\ NewJob \in Job
BY OutboxAssumption DEF NoJob, NewJob, Job, JobState

\* The updates of a job that occur keep it well typed.
LEMMA JobUpdate ==
    ASSUME NEW r \in Job, NEW s \in JobState, NEW m \in 0..MaxAttempts, NEW n \in 0..2
    PROVE  /\ [r EXCEPT !.st = s] \in Job
           /\ [r EXCEPT !.st = s, !.made = m] \in Job
           /\ [r EXCEPT !.st = s, !.stalls = n] \in Job
BY DEF Job

LEMMA WorkerUpdate ==
    ASSUME NEW r \in WorkerState, NEW seen \in Status
    PROVE  /\ [r EXCEPT !.locked = FALSE] \in WorkerState
           /\ [r EXCEPT !.dirty = TRUE] \in WorkerState
           /\ [r EXCEPT !.pc = "after", !.own = TRUE] \in WorkerState
           /\ [r EXCEPT !.pc = "tx", !.snap = seen, !.dirty = FALSE,
                        !.result = @ \/ seen \in {"pending", "published"},
                        !.already = @ \/ seen = "processed"] \in WorkerState
BY DEF WorkerState

\* One more committed transaction, counted up to two.
LEMMA AppliedType ==
    ASSUME TypeOK, NEW e \in Event, applied' = [applied EXCEPT ![e] = IF @ < 2 THEN @ + 1 ELSE 2]
    PROVE  applied' \in [Event -> 0..2]
<1>1. (IF applied[e] < 2 THEN applied[e] + 1 ELSE 2) \in 0..2 BY DEF TypeOK
<1> QED BY <1>1 DEF TypeOK

\* A committed write keeps every worker's state well typed.
LEMMA DisturbType ==
    ASSUME NEW ws \in [Worker -> WorkerState], NEW e
    PROVE  Disturb(ws, e) \in [Worker -> WorkerState]
BY DEF Disturb, WorkerState

\* An update that releases the lease keeps the document well typed.
LEMMA WriteUnlockedType ==
    ASSUME TypeOK, NEW e \in Event, NEW s \in Status, WriteUnlocked(e, s)
    PROVE  /\ status' \in [Event -> Status]
           /\ lockedBy' \in [Event -> Publisher \cup {NoPublisher}]
           /\ expired' \in [Event -> BOOLEAN]
BY DEF TypeOK, WriteUnlocked

\* A counted fault stays within the bound.
LEMMA FaultType ==
    ASSUME TypeOK, Fault
    PROVE  faults' \in 0..MaxFaults
BY OutboxAssumption DEF TypeOK, Fault

LEMMA PubIdleType ==
    ASSUME TypeOK, NEW p \in Publisher, PubIdle(p)
    PROVE  pub' \in [Publisher -> PublisherState]
<1>1. [pub[p] EXCEPT !.pc = "idle", !.ev = NoEvent, !.view = "none"] \in PublisherState
  BY DEF TypeOK, PublisherState, JobState
<1> QED BY <1>1 DEF TypeOK, PubIdle

LEMMA PubGotoType ==
    ASSUME TypeOK, NEW p \in Publisher, NEW pc \in {"idle", "listed", "looked", "removed", "held", "queued",
                                      "erring", "replaying", "dead"}, PubGoto(p, pc)
    PROVE  pub' \in [Publisher -> PublisherState]
BY DEF TypeOK, PubGoto, PublisherState

LEMMA PubLifeType ==
    ASSUME TypeOK, NEW p \in Publisher, NEW l \in {"up", "stopping", "stopped"},
           pub' = [pub EXCEPT ![p].life = l]
    PROVE  pub' \in [Publisher -> PublisherState]
<1>1. \A r \in PublisherState : [r EXCEPT !.life = l] \in PublisherState BY DEF PublisherState
<1>2. pub \in [Publisher -> PublisherState] BY DEF TypeOK
<1> QED BY <1>1, <1>2

LEMMA WrkGotoType ==
    ASSUME TypeOK, NEW w \in Worker, NEW pc \in {"idle", "start", "tx", "after", "fanout", "mark", "failing",
                                      "done", "failed"}, WrkGoto(w, pc)
    PROVE  wrk' \in [Worker -> WorkerState]
BY DEF TypeOK, WrkGoto, WorkerState

LEMMA InitType == Init => Typed
<1>1. IdleWorker \in WorkerState BY OutboxAssumption DEF IdleWorker, WorkerState, Status
<1>2. IdlePublisher \in PublisherState BY DEF IdlePublisher, PublisherState, JobState
<1>3. SUFFICES ASSUME Init PROVE Typed OBVIOUS
<1>4. TypeOK BY <1>1, <1>2, <1>3, JobType, OutboxAssumption DEF Init, TypeOK, Status
<1>5. Attached BY <1>3 DEF Init, Attached, PAttached, WAttached, IdleWorker, IdlePublisher
<1> QED BY <1>4, <1>5 DEF Typed

LEMMA EventType ==
    ASSUME TypeOK, NEW e \in Event, EventStep(e)
    PROVE  TypeOK'
<1>1. CASE Insert(e) BY <1>1 DEF Insert, TypeOK, Status
<1>2. CASE LeaseExpires(e) BY <1>2, FaultType DEF LeaseExpires, TypeOK
<1>3. CASE StallDetect(e)
  <2>1. /\ [job[e] EXCEPT !.st = "waiting", !.stalls = 1] \in Job
        /\ [job[e] EXCEPT !.st = "failed", !.stalls = 2] \in Job
    <3>1. job[e] \in Job BY DEF TypeOK
    <3>2. "waiting" \in JobState /\ "failed" \in JobState /\ 1 \in 0..2 /\ 2 \in 0..2 BY DEF JobState
    <3>3. 0 \in 0..MaxAttempts BY OutboxAssumption
    <3> QED BY <3>1, <3>2, <3>3, JobUpdate
  <2>2. job' \in [Event -> Job] BY <1>3, <2>1 DEF StallDetect, TypeOK
  <2> QED BY <1>3, <2>2 DEF StallDetect, TypeOK, mongo
<1>4. CASE JobEvicted(e) BY <1>4, JobType DEF JobEvicted, TypeOK, mongo
<1>5. CASE RedisLoss(e)
  <2>1. wrk' \in [Worker -> WorkerState] 
    <3>1. \A w \in Worker : [wrk[w] EXCEPT !.locked = FALSE] \in WorkerState
      BY WorkerUpdate DEF TypeOK, Status
    <3> QED BY <1>5, <3>1 DEF RedisLoss, TypeOK
  <2> QED BY <1>5, <2>1, FaultType, JobType DEF RedisLoss, TypeOK, mongo
<1> QED BY <1>1, <1>2, <1>3, <1>4, <1>5 DEF EventStep

LEMMA PublisherType ==
    ASSUME Typed, NEW p \in Publisher, PublisherStep(p)
    PROVE  TypeOK'
<1> USE DEF Typed
<1>0. pub[p].pc \notin {"idle", "dead"} => pub[p].ev \in Event BY DEF Attached, PAttached
<1>1. CASE \E e \in Event : Claim(p, e)
  <2>1. PICK e \in Event : Claim(p, e) BY <1>1
  <2>2. pub' \in [Publisher -> PublisherState]
    <3>1. [pub[p] EXCEPT !.pc = "held", !.ev = e] \in PublisherState BY DEF TypeOK, PublisherState
    <3> QED BY <2>1, <3>1 DEF Claim, TypeOK
  <2> QED BY <2>1, <2>2, DisturbType DEF Claim, TypeOK
<1>2. CASE \E e \in Event : List(p, e)
  <2>1. PICK e \in Event : List(p, e) BY <1>2
  <2>2. pub' \in [Publisher -> PublisherState]
    <3>1. [pub[p] EXCEPT !.pc = "listed", !.ev = e] \in PublisherState BY DEF TypeOK, PublisherState
    <3> QED BY <2>1, <3>1 DEF List, TypeOK
  <2> QED BY <2>1, <2>2 DEF List, TypeOK, mongo
<1>3. CASE \E e \in Event : ReplayRemove(p, e)
  <2>1. PICK e \in Event : ReplayRemove(p, e) BY <1>3
  <2>2. pub' \in [Publisher -> PublisherState]
    <3>1. [pub[p] EXCEPT !.pc = "replaying", !.ev = e] \in PublisherState BY DEF TypeOK, PublisherState
    <3> QED BY <2>1, <3>1 DEF ReplayRemove, TypeOK
  <2> QED BY <2>1, <2>2, JobType DEF ReplayRemove, TypeOK, mongo
<1>4. CASE Enqueue(p) BY <1>4, PubGotoType, JobType DEF Enqueue, TypeOK, mongo
<1>5. CASE EnqueueFails(p) BY <1>5, PubGotoType, FaultType DEF EnqueueFails, TypeOK, mongo
<1>6. CASE MarkPublished(p)
  BY <1>0, <1>6, PubIdleType, DisturbType, WriteUnlockedType DEF MarkPublished, TypeOK, mongo, Status
<1>7. CASE ReleaseLease(p)
  BY <1>0, <1>7, PubIdleType, DisturbType, WriteUnlockedType DEF ReleaseLease, TypeOK, mongo, Status
<1>8. CASE Look(p)
  <2>1. CASE job[pub[p].ev].st \in {"waiting", "active"}
    BY <1>8, <2>1, PubIdleType DEF Look, TypeOK, mongo
  <2>2. CASE job[pub[p].ev].st \notin {"waiting", "active"}
    <3>1. job[pub[p].ev].st \in JobState BY <1>0, <1>8 DEF Look, TypeOK, Job
    <3>2. \A seen \in JobState : [pub[p] EXCEPT !.pc = "looked", !.view = seen] \in PublisherState
      <4>1. pub[p] \in PublisherState BY DEF TypeOK
      <4> QED BY <4>1 DEF PublisherState
    <3>3. pub' \in [Publisher -> PublisherState] BY <1>8, <2>2, <3>1, <3>2 DEF Look, TypeOK
    <3> QED BY <1>8, <3>3 DEF Look, TypeOK, mongo
  <2> QED BY <2>1, <2>2
<1>9. ASSUME NEW s \in Status, pub[p].pc # "idle", pub[p].pc # "dead", Redirect(p, s) PROVE TypeOK'
  BY <1>0, <1>9, PubIdleType, DisturbType, WriteUnlockedType DEF Redirect, TypeOK, mongo
<1>10. CASE MarkDeadLetter(p) BY <1>9, <1>10 DEF MarkDeadLetter, Status
<1>11. CASE RequeuePublished(p) BY <1>9, <1>11 DEF RequeuePublished, Status
<1>12. CASE RemoveCompleted(p)
  <2>1. pub' \in [Publisher -> PublisherState]
    BY <1>12, PubIdleType, PubGotoType DEF RemoveCompleted
  <2> QED BY <1>12, <2>1, JobType DEF RemoveCompleted, TypeOK, mongo
<1>13. CASE ReplayClaim(p)
  <2>1. pub' \in [Publisher -> PublisherState]
    BY <1>13, PubIdleType, PubGotoType DEF ReplayClaim
  <2>2. CASE status[pub[p].ev] = "dead_letter"
    <3>1. status' \in [Event -> Status] BY <1>13, <2>2 DEF ReplayClaim, TypeOK, Status
    <3>2. wrk' \in [Worker -> WorkerState] BY <1>13, <2>2, DisturbType DEF ReplayClaim, TypeOK
    <3>3. /\ lockedBy' \in [Event -> Publisher \cup {NoPublisher}]
          /\ expired' \in [Event -> BOOLEAN]
      BY <1>13, <2>2 DEF ReplayClaim, TypeOK
    <3> QED BY <1>13, <2>1, <3>1, <3>2, <3>3 DEF ReplayClaim, TypeOK
  <2>3. CASE status[pub[p].ev] # "dead_letter"
    BY <1>13, <2>1, <2>3 DEF ReplayClaim, TypeOK, mongo
  <2> QED BY <2>2, <2>3
<1>14. CASE IterationFails(p) BY <1>14, PubIdleType, FaultType DEF IterationFails, TypeOK, mongo
<1>15. CASE Stop(p)
  <2>1. pub' \in [Publisher -> PublisherState] BY <1>15, PubLifeType DEF Stop
  <2> QED BY <1>15, <2>1, FaultType DEF Stop, TypeOK, mongo
<1>16. CASE ReleaseLeases(p)
  <2>1. wrk' \in [Worker -> WorkerState]
    <3>1. \A r \in WorkerState : [r EXCEPT !.dirty = TRUE] \in WorkerState BY DEF WorkerState
    <3> QED BY <1>16, <3>1 DEF ReleaseLeases, TypeOK
  <2>2. pub' \in [Publisher -> PublisherState] BY <1>16, PubLifeType DEF ReleaseLeases
  <2> QED BY <1>16, <2>1, <2>2 DEF ReleaseLeases, TypeOK
<1>17. CASE PublisherCrash(p) BY <1>17, PubGotoType, FaultType DEF PublisherCrash, TypeOK, mongo
<1> QED BY <1>1, <1>2, <1>3, <1>4, <1>5, <1>6, <1>7, <1>8, <1>10, <1>11, <1>12, <1>13, <1>14,
           <1>15, <1>16, <1>17 DEF PublisherStep

LEMMA WorkerType ==
    ASSUME Typed, NEW w \in Worker, WorkerStep(w)
    PROVE  TypeOK'
<1> USE DEF Typed
<1>0. wrk[w].pc # "idle" => wrk[w].ev \in Event BY DEF Attached, WAttached
<1>1. CASE \E e \in Event : Take(w, e)
  <2>1. PICK e \in Event : Take(w, e) BY <1>1
  <2>2. job[e].made + 1 \in 0..MaxAttempts + 1 BY OutboxAssumption DEF TypeOK, Job
  <2>3. [IdleWorker EXCEPT !.pc = "start", !.ev = e, !.locked = TRUE,
                           !.attempt = job[e].made + 1] \in WorkerState
    BY <2>2 DEF IdleWorker, WorkerState, Status
  <2>4. job' \in [Event -> Job] BY <2>1 DEF Take, TypeOK, Job, JobState
  <2> QED BY <2>1, <2>3, <2>4 DEF Take, TypeOK, mongo
<1>2. CASE TxBegin(w)
  <2>1. status[wrk[w].ev] \in Status BY <1>0, <1>2 DEF TxBegin, TypeOK
  <2>2. wrk' \in [Worker -> WorkerState]
    <3>1. \A seen \in Status :
            [wrk[w] EXCEPT !.pc = "tx", !.snap = seen, !.dirty = FALSE,
                           !.result = @ \/ seen \in {"pending", "published"},
                           !.already = @ \/ seen = "processed"] \in WorkerState
      BY WorkerUpdate DEF TypeOK
    <3>2. wrk' = [wrk EXCEPT ![w] =
                    [wrk[w] EXCEPT !.pc = "tx", !.snap = status[wrk[w].ev], !.dirty = FALSE,
                                   !.result = @ \/ status[wrk[w].ev] \in {"pending", "published"},
                                   !.already = @ \/ status[wrk[w].ev] = "processed"]]
      BY <1>2 DEF TxBegin
    <3>3. wrk \in [Worker -> WorkerState] BY DEF TypeOK
    <3> QED BY <2>1, <3>1, <3>2, <3>3, Zenon
  <2> QED BY <1>2, <2>2 DEF TxBegin, TypeOK, mongo
<1>3. CASE TxAlreadyProcessed(w) BY <1>3, WrkGotoType DEF TxAlreadyProcessed, TypeOK, mongo
<1>4. CASE TxRefused(w) BY <1>4, WrkGotoType DEF TxRefused, TypeOK, mongo
<1>5. CASE TxConflict(w) BY <1>5, WrkGotoType, FaultType DEF TxConflict, TypeOK, mongo
<1>6. CASE TxCommit(w)
  <2>1. [wrk[w] EXCEPT !.pc = "after", !.own = TRUE] \in WorkerState BY DEF TypeOK, WorkerState
  <2>2. wrk' \in [Worker -> WorkerState] BY <1>6, <2>1, DisturbType DEF TxCommit, TypeOK
  <2>3. applied' \in [Event -> 0..2] BY <1>0, <1>6, AppliedType DEF TxCommit, Handles
  <2> QED BY <1>0, <1>6, <2>2, <2>3, WriteUnlockedType DEF TxCommit, Handles, TypeOK, Status
<1>7. CASE TxCommitFanout(w)
  <2>1. wrk' \in [Worker -> WorkerState]
    <3>1. [wrk[w] EXCEPT !.pc = "after", !.own = TRUE] \in WorkerState BY DEF TypeOK, WorkerState
    <3> QED BY <1>7, <3>1 DEF TxCommitFanout, TypeOK
  <2>2. applied' \in [Event -> 0..2] BY <1>0, <1>7, AppliedType DEF TxCommitFanout, Handles
  <2> QED BY <1>7, <2>1, <2>2 DEF TxCommitFanout, TypeOK, mongo
<1>8. CASE Throws(w) BY <1>8, WrkGotoType, FaultType DEF Throws, TypeOK, mongo
<1>9. CASE Deliver(w) BY <1>0, <1>9, WrkGotoType DEF Deliver, TypeOK, mongo
<1>10. CASE FanoutAdd(w) BY <1>0, <1>10, WrkGotoType DEF FanoutAdd, TypeOK, mongo
<1>11. CASE FanoutAddFails(w) BY <1>11, WrkGotoType, FaultType DEF FanoutAddFails, TypeOK, mongo
<1>12. ASSUME NEW s \in Status, NEW pc \in {"done", "failed"}, wrk[w].pc # "idle",
              WriteUnlocked(wrk[w].ev, s), wrk' = [Disturb(wrk, wrk[w].ev) EXCEPT ![w].pc = pc],
              UNCHANGED <<job, pub, applied, fanned, ghosts, faults>>
       PROVE  TypeOK'
  <2>1. wrk' \in [Worker -> WorkerState]
    <3> DEFINE ws == Disturb(wrk, wrk[w].ev)
    <3>1. ws \in [Worker -> WorkerState] BY DisturbType DEF TypeOK
    <3> HIDE DEF ws
    <3> QED BY <1>12, <3>1 DEF ws, WorkerState
  <2> QED BY <1>0, <1>12, <2>1, WriteUnlockedType DEF TypeOK
<1>13. CASE Mark(w)
  BY <1>12, <1>13, WrkGotoType DEF Mark, TypeOK, mongo, Status
<1>14. CASE RecordFailure(w)
  BY <1>12, <1>14, WrkGotoType DEF RecordFailure, TypeOK, mongo, Status
<1>15. CASE RecordFailureFails(w)
  BY <1>15, WrkGotoType, FaultType DEF RecordFailureFails, TypeOK, mongo
<1>16. CASE Finish(w)
  <2>1. IdleWorker \in WorkerState BY OutboxAssumption DEF IdleWorker, WorkerState, Status
  <2>2. job' \in [Event -> Job]
    <3> DEFINE e == wrk[w].ev
               made == job[e].made + 1
    <3>1. e \in Event /\ job[e] \in Job BY <1>0, <1>16 DEF Finish, TypeOK
    <3>2. MaxAttempts \in 0..MaxAttempts /\ (made < MaxAttempts => made \in 0..MaxAttempts)
      BY <3>1, OutboxAssumption DEF Job
    <3>3. \/ job' = job
          \/ job' = [job EXCEPT ![e] = [job[e] EXCEPT !.st = "completed"]]
          \/ job' = [job EXCEPT ![e] = [job[e] EXCEPT !.st = "failed", !.made = MaxAttempts]]
          \/ made < MaxAttempts /\ job' = [job EXCEPT ![e] = [job[e] EXCEPT !.st = "waiting", !.made = made]]
      <4>1. made \in Nat /\ MaxAttempts \in Nat BY <3>1, OutboxAssumption DEF Job
      <4>2. made < MaxAttempts \/ made >= MaxAttempts BY <4>1
      <4> HIDE DEF made
      <4> QED BY <1>16, <4>2 DEF Finish, made
    <3>4. {"completed", "failed", "waiting"} \subseteq JobState BY DEF JobState
    <3>5. /\ [job[e] EXCEPT !.st = "completed"] \in Job
          /\ [job[e] EXCEPT !.st = "failed", !.made = MaxAttempts] \in Job
          /\ made < MaxAttempts => [job[e] EXCEPT !.st = "waiting", !.made = made] \in Job
      <4>1. 0 \in 0..2 OBVIOUS
      <4> HIDE DEF e, made
      <4> QED BY <3>1, <3>2, <3>4, <4>1, JobUpdate
    <3> HIDE DEF e, made
    <3> QED BY <3>1, <3>3, <3>5 DEF TypeOK
  <2> QED BY <1>16, <2>1, <2>2 DEF Finish, TypeOK, mongo
<1>17. CASE LockLost(w)
  <2>1. wrk' \in [Worker -> WorkerState] 
    <3>1. [wrk[w] EXCEPT !.locked = FALSE] \in WorkerState BY DEF TypeOK, WorkerState
    <3> QED BY <1>17, <3>1 DEF LockLost, TypeOK
  <2> QED BY <1>17, <2>1, FaultType DEF LockLost, TypeOK, mongo
<1>18. CASE WorkerCrash(w)
  <2>1. IdleWorker \in WorkerState BY OutboxAssumption DEF IdleWorker, WorkerState, Status
  <2> QED BY <1>18, <2>1, FaultType DEF WorkerCrash, TypeOK, mongo
<1> QED BY <1>1, <1>2, <1>3, <1>4, <1>5, <1>6, <1>7, <1>8, <1>9, <1>10, <1>11, <1>13, <1>14,
           <1>15, <1>16, <1>17, <1>18 DEF WorkerStep

-----------------------------------------------------------------------------
(* What a step does to the document and the effect of an event.             *)

\* Another status, of a document that is not processed.
Rewrite(e) ==
    /\ status[e] # "processed"
    /\ \E s \in Status \ {"absent", "processed"} :
          /\ status[e] = "absent" => s = "pending"
          /\ status' = [status EXCEPT ![e] = s]
    /\ applied' = applied

\* Effect and mark of an ordinary event.
CompleteTogether(e) ==
    /\ e \notin FanoutEvent
    /\ status[e] \in OpenStatus
    /\ status' = [status EXCEPT ![e] = "processed"]
    /\ applied' = [applied EXCEPT ![e] = 1]

\* The effect of a fan-out source, ...
FanoutEffect(e) ==
    /\ e \in FanoutEvent
    /\ status' = status
    /\ applied' = [applied EXCEPT ![e] = IF @ < 2 THEN @ + 1 ELSE 2]

\* ... and its mark.
FanoutMark(e) ==
    /\ e \in FanoutEvent
    /\ applied[e] >= 1 /\ e \in fanned
    /\ status' = [status EXCEPT ![e] = "processed"]
    /\ applied' = applied

Quiet == status' = status /\ applied' = applied

Classified ==
    \/ Quiet
    \/ \E e \in Event : Rewrite(e) \/ CompleteTogether(e) \/ FanoutEffect(e) \/ FanoutMark(e)

LEMMA ClassifyEvent ==
    ASSUME IInv, NEW e \in Event, EventStep(e)
    PROVE  Classified /\ fanned' = fanned
<1>1. CASE Insert(e)
  <2>1. Rewrite(e) BY <1>1 DEF Insert, Rewrite, Status
  <2> QED BY <1>1, <2>1 DEF Insert, Classified
<1>2. CASE LeaseExpires(e) BY <1>2 DEF LeaseExpires, Classified, Quiet
<1>3. CASE StallDetect(e) BY <1>3 DEF StallDetect, Classified, Quiet, mongo
<1>4. CASE JobEvicted(e) BY <1>4 DEF JobEvicted, Classified, Quiet, mongo
<1>5. CASE RedisLoss(e) BY <1>5 DEF RedisLoss, Classified, Quiet, mongo
<1> QED BY <1>1, <1>2, <1>3, <1>4, <1>5 DEF EventStep

LEMMA ClassifyPublisher ==
    ASSUME IInv, NEW p \in Publisher, PublisherStep(p)
    PROVE  Classified /\ fanned' = fanned
<1> DEFINE e == pub[p].ev
<1>0. PAttached(p) BY DEF IInv, Typed, Attached
<1>a. ASSUME NEW s \in {"pending", "published", "dead_letter"}, e \in Event, WriteUnlocked(e, s),
             status[e] \notin {"absent", "processed"}, applied' = applied
      PROVE  Classified
  <2>1. Rewrite(e) BY <1>a DEF Rewrite, WriteUnlocked, Status
  <2> QED BY <1>a, <2>1 DEF Classified
<1>1. CASE \E x \in Event : Claim(p, x) \/ List(p, x) \/ ReplayRemove(p, x)
  BY <1>1 DEF Claim, List, ReplayRemove, Classified, Quiet, mongo
<1>2. CASE Enqueue(p) \/ EnqueueFails(p) \/ Look(p) \/ RemoveCompleted(p)
  BY <1>2 DEF Enqueue, EnqueueFails, Look, RemoveCompleted, Classified, Quiet, mongo
<1>3. CASE IterationFails(p) \/ Stop(p) \/ ReleaseLeases(p) \/ PublisherCrash(p)
  BY <1>3 DEF IterationFails, Stop, ReleaseLeases, PublisherCrash, Classified, Quiet, mongo
<1>4. CASE MarkPublished(p)
  BY <1>0, <1>a, <1>4 DEF MarkPublished, PAttached, Classified, Quiet, mongo
<1>5. CASE ReleaseLease(p)
  BY <1>0, <1>a, <1>5 DEF ReleaseLease, PAttached, Classified, Quiet, mongo
<1>6. CASE MarkDeadLetter(p)
  BY <1>0, <1>a, <1>6 DEF MarkDeadLetter, Redirect, PAttached, Classified, Quiet, mongo
<1>7. CASE RequeuePublished(p)
  BY <1>0, <1>a, <1>7 DEF RequeuePublished, Redirect, PAttached, Classified, Quiet, mongo
<1>8. CASE ReplayClaim(p)
  <2>1. CASE status[e] = "dead_letter"
    <3>1. Rewrite(e) BY <1>8, <2>1 DEF ReplayClaim, Rewrite, Status
    <3>2. e \in Event BY <1>0, <1>8 DEF ReplayClaim, PAttached
    <3> QED BY <1>8, <3>1, <3>2 DEF ReplayClaim, Classified
  <2>2. CASE status[e] # "dead_letter"
    BY <1>8, <2>2 DEF ReplayClaim, Classified, Quiet, mongo
  <2> QED BY <2>1, <2>2
<1>9. fanned' = fanned
  BY DEF PublisherStep, Claim, List, ReplayRemove, Enqueue, EnqueueFails, Look, RemoveCompleted,
     IterationFails, Stop, ReleaseLeases, PublisherCrash, MarkPublished, ReleaseLease,
     MarkDeadLetter, RequeuePublished, Redirect, ReplayClaim
<1> QED BY <1>1, <1>2, <1>3, <1>4, <1>5, <1>6, <1>7, <1>8, <1>9 DEF PublisherStep

LEMMA ClassifyWorker ==
    ASSUME IInv, NEW w \in Worker, WorkerStep(w)
    PROVE  Classified /\ fanned \subseteq fanned'
<1> DEFINE e == wrk[w].ev
<1>0. WAttached(w) /\ WInv(w) /\ TypeOK /\ AtomicEffect BY DEF IInv, Typed, Attached
<1>1. CASE \/ \E x \in Event : Take(w, x)
           \/ TxBegin(w) \/ TxAlreadyProcessed(w) \/ TxRefused(w) \/ TxConflict(w) \/ Throws(w)
           \/ Deliver(w) \/ FanoutAdd(w) \/ FanoutAddFails(w) \/ RecordFailureFails(w)
           \/ Finish(w) \/ LockLost(w) \/ WorkerCrash(w)
  BY <1>1 DEF Take, TxBegin, TxAlreadyProcessed, TxRefused, TxConflict, Throws, Deliver, FanoutAdd,
     FanoutAddFails, RecordFailureFails, Finish, LockLost, WorkerCrash, Classified, Quiet, mongo
<1>2. CASE TxCommit(w)
  <2>1. e \in Event /\ e \notin FanoutEvent /\ status[e] \in OpenStatus
    BY <1>0, <1>2 DEF TxCommit, Handles, WAttached, WInv, OpenStatus
  <2>2. applied[e] = 0 BY <1>0, <2>1 DEF AtomicEffect, OpenStatus, Plain
  <2>3. CompleteTogether(e) BY <1>2, <2>1, <2>2 DEF TxCommit, WriteUnlocked, CompleteTogether
  <2> QED BY <1>2, <2>1, <2>3 DEF TxCommit, Classified
<1>3. CASE TxCommitFanout(w)
  <2>1. e \in Event /\ FanoutEffect(e)
    BY <1>0, <1>3 DEF TxCommitFanout, Handles, WAttached, FanoutEffect, mongo
  <2> QED BY <1>3, <2>1 DEF TxCommitFanout, Classified
<1>4. CASE Mark(w)
  <2>1. e \in Event /\ (Quiet \/ FanoutMark(e))
    BY <1>0, <1>4 DEF Mark, WAttached, WInv, FanoutMark, WriteUnlocked, Quiet, mongo
  <2> QED BY <1>4, <2>1 DEF Mark, Classified
<1>5. CASE RecordFailure(w)
  <2>1. e \in Event BY <1>0, <1>5 DEF RecordFailure, WAttached
  <2>2. Quiet \/ Rewrite(e)
    BY <1>5 DEF RecordFailure, Rewrite, WriteUnlocked, Status, Quiet, mongo
  <2> QED BY <1>5, <2>1, <2>2 DEF RecordFailure, Classified
<1> QED BY <1>1, <1>2, <1>3, <1>4, <1>5 DEF WorkerStep

-----------------------------------------------------------------------------
(* Classified steps keep the two invariants of documents.                   *)

LEMMA ClassifiedKeeps ==
    ASSUME TypeOK, TypeOK', AtomicEffect, FanoutBeforeMark, Classified, fanned \subseteq fanned'
    PROVE  /\ AtomicEffect' /\ FanoutBeforeMark'
           /\ \A e \in Event : applied[e] >= 1 => applied'[e] >= 1
           /\ \A e \in Event : status[e] = "processed" => status'[e] = "processed"
<1>1. CASE Quiet BY <1>1 DEF Quiet, AtomicEffect, FanoutBeforeMark
<1>2. ASSUME NEW e \in Event, Rewrite(e)
      PROVE  /\ AtomicEffect' /\ FanoutBeforeMark'
             /\ \A x \in Event : applied[x] >= 1 => applied'[x] >= 1
             /\ \A x \in Event : status[x] = "processed" => status'[x] = "processed"
  BY <1>2 DEF Rewrite, TypeOK, AtomicEffect, FanoutBeforeMark
<1>3. ASSUME NEW e \in Event, CompleteTogether(e)
      PROVE  /\ AtomicEffect' /\ FanoutBeforeMark'
             /\ \A x \in Event : applied[x] >= 1 => applied'[x] >= 1
             /\ \A x \in Event : status[x] = "processed" => status'[x] = "processed"
  BY <1>3 DEF CompleteTogether, TypeOK, AtomicEffect, FanoutBeforeMark
<1>4. ASSUME NEW e \in Event, FanoutEffect(e)
      PROVE  /\ AtomicEffect' /\ FanoutBeforeMark'
             /\ \A x \in Event : applied[x] >= 1 => applied'[x] >= 1
             /\ \A x \in Event : status[x] = "processed" => status'[x] = "processed"
  <2>1. applied[e] \in 0..2 BY DEF TypeOK
  <2>2. applied'[e] >= 1 BY <1>4, <2>1 DEF FanoutEffect, TypeOK
  <2>3. \A x \in Event : x # e => applied'[x] = applied[x] BY <1>4 DEF FanoutEffect, TypeOK
  <2> QED BY <1>4, <2>2, <2>3 DEF FanoutEffect, AtomicEffect, Plain, FanoutBeforeMark
<1>5. ASSUME NEW e \in Event, FanoutMark(e)
      PROVE  /\ AtomicEffect' /\ FanoutBeforeMark'
             /\ \A x \in Event : applied[x] >= 1 => applied'[x] >= 1
             /\ \A x \in Event : status[x] = "processed" => status'[x] = "processed"
  BY <1>5 DEF FanoutMark, TypeOK, AtomicEffect, FanoutBeforeMark
<1> QED BY <1>1, <1>2, <1>3, <1>4, <1>5 DEF Classified

-----------------------------------------------------------------------------
(* Steps of others keep what a worker relies on.                            *)

\* The worker itself did not move; its transaction may have become stale.
Untouched(x) ==
    /\ wrk'[x].pc = wrk[x].pc /\ wrk'[x].ev = wrk[x].ev /\ wrk'[x].snap = wrk[x].snap
    /\ wrk[x].dirty => wrk'[x].dirty
    /\ wrk'[x].locked => wrk[x].locked

\* An open event stays open, or the transaction reading it became stale.
StaleIfClosed(x) ==
    LET e == wrk[x].ev IN
    (wrk[x].pc = "tx" /\ status[e] \in OpenStatus) => status'[e] \in OpenStatus \/ wrk'[x].dirty

LEMMA UntouchedKeeps ==
    ASSUME NEW x \in Worker, WAttached(x), WInv(x), Untouched(x), StaleIfClosed(x),
           fanned \subseteq fanned',
           \A e \in Event : applied[e] >= 1 => applied'[e] >= 1,
           \A e \in Event : status[e] = "processed" => status'[e] = "processed"
    PROVE  WAttached(x)' /\ WInv(x)'
<1>1. wrk[x].pc # "idle" => wrk[x].ev \in Event BY DEF WAttached
<1>2. WAttached(x)' BY DEF WAttached, Untouched
<1>3. WInv(x)' BY <1>1 DEF WInv, Untouched, StaleIfClosed, OpenStatus
<1> QED BY <1>2, <1>3

LEMMA DisturbFacts ==
    ASSUME NEW ws \in [Worker -> WorkerState], NEW e, NEW x \in Worker
    PROVE  LET y == Disturb(ws, e)[x] IN
           /\ y.pc = ws[x].pc /\ y.ev = ws[x].ev /\ y.snap = ws[x].snap /\ y.locked = ws[x].locked
           /\ ws[x].dirty => y.dirty
           /\ (ws[x].pc = "tx" /\ ws[x].ev = e) => y.dirty
BY DEF Disturb, WorkerState

\* A disturbed worker is untouched, and stale if its event closed.
LEMMA DisturbUntouched ==
    ASSUME Typed, NEW e, NEW x \in Worker, wrk'[x] = Disturb(wrk, e)[x],
           status' = status \/ \E s \in Status : status' = [status EXCEPT ![e] = s]
    PROVE  Untouched(x) /\ StaleIfClosed(x)
<1>1. Untouched(x) BY DisturbFacts DEF Typed, TypeOK, Untouched
<1>2. ASSUME wrk[x].pc = "tx", wrk[x].ev = e PROVE wrk'[x].dirty
  BY <1>2, DisturbFacts DEF Typed, TypeOK
<1>3. ASSUME wrk[x].pc = "tx", wrk[x].ev # e PROVE status'[wrk[x].ev] = status[wrk[x].ev]
  <2>1. wrk[x].ev \in Event BY <1>3 DEF Typed, Attached, WAttached
  <2> QED BY <1>3, <2>1 DEF Typed, TypeOK
<1> QED BY <1>1, <1>2, <1>3 DEF StaleIfClosed

LEMMA SameUntouched ==
    ASSUME NEW x \in Worker, wrk'[x] = wrk[x], status' = status
    PROVE  Untouched(x) /\ StaleIfClosed(x)
BY DEF Untouched, StaleIfClosed

LEMMA EventUntouched ==
    ASSUME IInv, NEW e \in Event, EventStep(e), NEW x \in Worker
    PROVE  Untouched(x) /\ StaleIfClosed(x)
<1>0. TypeOK BY DEF IInv, Typed
<1>1. CASE Insert(e)
  BY <1>0, <1>1 DEF Insert, Untouched, StaleIfClosed, OpenStatus, TypeOK
<1>2. CASE LeaseExpires(e) \/ StallDetect(e) \/ JobEvicted(e)
  BY <1>2, SameUntouched DEF LeaseExpires, StallDetect, JobEvicted, mongo
<1>3. CASE RedisLoss(e)
  <2>1. wrk'[x] = wrk[x] \/ wrk'[x] = [wrk[x] EXCEPT !.locked = FALSE]
    BY <1>3 DEF RedisLoss
  <2>2. wrk[x] \in WorkerState BY <1>0 DEF TypeOK
  <2>3. Untouched(x) BY <2>1, <2>2 DEF Untouched, WorkerState
  <2> QED BY <1>3, <2>3 DEF RedisLoss, mongo, StaleIfClosed
<1> QED BY <1>1, <1>2, <1>3 DEF EventStep

LEMMA PublisherUntouched ==
    ASSUME IInv, NEW p \in Publisher, PublisherStep(p), NEW x \in Worker
    PROVE  Untouched(x) /\ StaleIfClosed(x)
<1>0. TypeOK BY DEF IInv, Typed
<1>1. CASE \/ \E e \in Event : List(p, e) \/ ReplayRemove(p, e)
           \/ Enqueue(p) \/ EnqueueFails(p) \/ Look(p) \/ RemoveCompleted(p)
           \/ IterationFails(p) \/ Stop(p) \/ PublisherCrash(p)
  BY <1>1, SameUntouched DEF List, ReplayRemove, Enqueue, EnqueueFails, Look, RemoveCompleted,
     IterationFails, Stop, PublisherCrash, mongo
<1>2. CASE \E e \in Event : Claim(p, e)
  BY <1>0, <1>2, DisturbUntouched DEF Claim, IInv
<1>3. ASSUME NEW s \in Status,
             \/ UNCHANGED <<mongo, wrk>>
             \/ WriteUnlocked(pub[p].ev, s) /\ wrk' = Disturb(wrk, pub[p].ev)
      PROVE  Untouched(x) /\ StaleIfClosed(x)
  BY <1>0, <1>3, SameUntouched, DisturbUntouched DEF WriteUnlocked, mongo, IInv
<1>4. CASE MarkPublished(p) BY <1>3, <1>4 DEF MarkPublished, Status
<1>5. CASE ReleaseLease(p) BY <1>3, <1>5 DEF ReleaseLease, Status
<1>6. CASE MarkDeadLetter(p) BY <1>3, <1>6 DEF MarkDeadLetter, Redirect, Status
<1>7. CASE RequeuePublished(p) BY <1>3, <1>7 DEF RequeuePublished, Redirect, Status
<1>8. CASE ReplayClaim(p)
  BY <1>0, <1>8, SameUntouched, DisturbUntouched DEF ReplayClaim, mongo, Status, IInv
<1>9. CASE ReleaseLeases(p)
  <2>1. wrk'[x] = wrk[x] \/ wrk'[x] = [wrk[x] EXCEPT !.dirty = TRUE] BY <1>9 DEF ReleaseLeases
  <2>2. wrk[x] \in WorkerState BY <1>0 DEF TypeOK
  <2>3. Untouched(x) BY <2>1, <2>2 DEF Untouched, WorkerState
  <2> QED BY <1>9, <2>3 DEF ReleaseLeases, StaleIfClosed
<1> QED BY <1>1, <1>2, <1>4, <1>5, <1>6, <1>7, <1>8, <1>9 DEF PublisherStep

-----------------------------------------------------------------------------
(* A worker's own step, and the theorems.                                   *)

LEMMA OthersUntouched ==
    ASSUME IInv, NEW w \in Worker, WorkerStep(w), NEW x \in Worker \ {w}
    PROVE  Untouched(x) /\ StaleIfClosed(x)
<1>0. Typed /\ TypeOK BY DEF IInv, Typed
<1>1. CASE \/ \E e \in Event : Take(w, e)
           \/ TxBegin(w) \/ TxAlreadyProcessed(w) \/ TxRefused(w) \/ TxConflict(w) \/ TxCommitFanout(w)
           \/ Throws(w) \/ Deliver(w) \/ FanoutAdd(w) \/ FanoutAddFails(w) \/ RecordFailureFails(w)
           \/ Finish(w) \/ LockLost(w) \/ WorkerCrash(w)
  BY <1>0, <1>1, SameUntouched DEF Take, TxBegin, TxAlreadyProcessed, TxRefused, TxConflict,
     TxCommitFanout, Throws, Deliver, FanoutAdd, FanoutAddFails, RecordFailureFails, Finish, LockLost,
     WorkerCrash, WrkGoto, mongo, TypeOK
<1>2. CASE TxCommit(w)
  <2>1. wrk'[x] = Disturb(wrk, wrk[w].ev)[x]
    BY <1>0, <1>2, DisturbType DEF TxCommit, TypeOK
  <2> QED BY <1>0, <1>2, <2>1, DisturbUntouched DEF TxCommit, WriteUnlocked, Status
<1>3. CASE Mark(w)
  <2>1. CASE status[wrk[w].ev] # "dead_letter"
    <3>1. wrk'[x] = Disturb(wrk, wrk[w].ev)[x]
      BY <1>0, <1>3, <2>1, DisturbType DEF Mark, TypeOK
    <3> QED BY <1>0, <1>3, <2>1, <3>1, DisturbUntouched DEF Mark, WriteUnlocked, Status
  <2>2. CASE status[wrk[w].ev] = "dead_letter"
    BY <1>0, <1>3, <2>2, SameUntouched DEF Mark, WrkGoto, mongo, TypeOK
  <2> QED BY <2>1, <2>2
<1>4. CASE RecordFailure(w)
  <2>1. CASE status[wrk[w].ev] \notin {"absent", "processed"}
    <3>1. wrk'[x] = Disturb(wrk, wrk[w].ev)[x]
      BY <1>0, <1>4, <2>1, DisturbType DEF RecordFailure, TypeOK
    <3>2. \E s \in Status : status' = [status EXCEPT ![wrk[w].ev] = s]
      BY <1>4, <2>1 DEF RecordFailure, WriteUnlocked, Status
    <3> QED BY <1>0, <3>1, <3>2, DisturbUntouched
  <2>2. CASE status[wrk[w].ev] \in {"absent", "processed"}
    BY <1>0, <1>4, <2>2, SameUntouched DEF RecordFailure, WrkGoto, mongo, TypeOK
  <2> QED BY <2>1, <2>2
<1> QED BY <1>1, <1>2, <1>3, <1>4 DEF WorkerStep

LEMMA OwnStep ==
    ASSUME IInv, TypeOK', NEW w \in Worker, WorkerStep(w)
    PROVE  WAttached(w)' /\ WInv(w)'
<1> DEFINE e == wrk[w].ev
<1>0. /\ TypeOK /\ WAttached(w) /\ WInv(w) /\ FanoutBeforeMark
      /\ wrk[w] \in WorkerState
  BY DEF IInv, Typed, Attached, TypeOK
<1>1. CASE \E x \in Event : Take(w, x)
  BY <1>0, <1>1 DEF Take, WAttached, WInv, IdleWorker, WorkerState, TypeOK
<1>2. CASE TxBegin(w)
  <2>1. /\ wrk'[w].pc = "tx" /\ wrk'[w].ev = e /\ wrk'[w].snap = status[e]
        /\ wrk'[w].locked = wrk[w].locked /\ status' = status
    BY <1>0, <1>2 DEF TxBegin, TypeOK, WorkerState, mongo
  <2> QED BY <1>0, <1>2, <2>1 DEF WAttached, WInv, TxBegin
<1>3. ASSUME wrk[w].pc # "idle", NEW pc \in {"start", "failing", "done", "failed"},
             wrk'[w].pc = pc, wrk'[w].ev = e, wrk'[w].locked = wrk[w].locked
      PROVE  WAttached(w)' /\ WInv(w)'
  BY <1>0, <1>3 DEF WAttached, WInv
<1>4. CASE TxAlreadyProcessed(w)
  <2>1. wrk'[w].pc = "after" /\ wrk'[w].ev = e /\ wrk'[w].locked = wrk[w].locked
    BY <1>0, <1>4 DEF TxAlreadyProcessed, WrkGoto, TypeOK, WorkerState
  <2> QED BY <1>0, <1>4, <2>1 DEF TxAlreadyProcessed, WAttached, WInv, FanoutBeforeMark, mongo
<1>5. CASE TxRefused(w) \/ TxConflict(w) \/ Throws(w) \/ FanoutAddFails(w) \/ RecordFailureFails(w)
  BY <1>0, <1>3, <1>5 DEF TxRefused, TxConflict, Throws, FanoutAddFails, RecordFailureFails, Handles,
     WrkGoto, TypeOK, WorkerState
<1>6. CASE TxCommit(w)
  <2>1. wrk' = [Disturb(wrk, e) EXCEPT ![w] = [wrk[w] EXCEPT !.pc = "after", !.own = TRUE]]
    BY <1>6 DEF TxCommit
  <2>2. wrk'[w] = [wrk[w] EXCEPT !.pc = "after", !.own = TRUE]
    BY <1>0, <2>1, DisturbType DEF TypeOK
  <2>3. wrk'[w].pc = "after" /\ wrk'[w].ev = e /\ wrk'[w].locked = wrk[w].locked
    BY <1>0, <2>2 DEF WorkerState
  <2> QED BY <1>0, <1>6, <2>3 DEF TxCommit, Handles, WAttached, WInv
<1>7. CASE TxCommitFanout(w)
  <2>1. wrk'[w].pc = "after" /\ wrk'[w].ev = e /\ wrk'[w].locked = wrk[w].locked
    BY <1>0, <1>7 DEF TxCommitFanout, TypeOK, WorkerState
  <2>2. e \in Event BY <1>0, <1>7 DEF TxCommitFanout, Handles, WAttached
  <2>3. applied'[e] >= 1 BY <1>0, <1>7, <2>2 DEF TxCommitFanout, TypeOK
  <2> QED BY <1>0, <2>1, <2>2, <2>3 DEF WAttached, WInv
<1>8. CASE Deliver(w)
  <2>1. /\ wrk'[w].pc = (IF e \in FanoutEvent THEN "fanout" ELSE "done")
        /\ wrk'[w].ev = e /\ wrk'[w].locked = wrk[w].locked
    BY <1>0, <1>8 DEF Deliver, WrkGoto, TypeOK, WorkerState
  <2> QED BY <1>0, <1>8, <2>1 DEF Deliver, WAttached, WInv
<1>9. CASE FanoutAdd(w)
  <2>1. /\ wrk'[w].pc = (IF wrk[w].already THEN "done" ELSE "mark")
        /\ wrk'[w].ev = e /\ wrk'[w].locked = wrk[w].locked
    BY <1>0, <1>9 DEF FanoutAdd, WrkGoto, TypeOK, WorkerState
  <2> QED BY <1>0, <1>9, <2>1 DEF FanoutAdd, WAttached, WInv
<1>10. ASSUME NEW pc \in {"done", "failed"}, wrk[w].pc # "idle",
              \/ wrk' = [Disturb(wrk, e) EXCEPT ![w].pc = pc]
              \/ wrk' = [wrk EXCEPT ![w].pc = pc]
       PROVE  WAttached(w)' /\ WInv(w)'
  <2> DEFINE ws == Disturb(wrk, e)
  <2>1. /\ ws \in [Worker -> WorkerState]
        /\ ws[w].ev = e /\ ws[w].locked = wrk[w].locked
    BY <1>0, DisturbType, DisturbFacts DEF TypeOK
  <2>2. CASE wrk' = [ws EXCEPT ![w].pc = pc]
    <3> HIDE DEF ws
    <3>1. wrk'[w].pc = pc /\ wrk'[w].ev = e /\ wrk'[w].locked = wrk[w].locked
      BY <2>1, <2>2 DEF WorkerState
    <3> QED BY <1>3, <1>10, <3>1
  <2>3. CASE wrk' = [wrk EXCEPT ![w].pc = pc]
    <3>1. wrk'[w].pc = pc /\ wrk'[w].ev = e /\ wrk'[w].locked = wrk[w].locked
      BY <1>0, <2>3 DEF WorkerState, TypeOK
    <3> QED BY <1>3, <1>10, <3>1
  <2> QED BY <1>10, <2>2, <2>3
<1>11. CASE Mark(w)
  <2>1. CASE status[e] # "dead_letter" BY <1>10, <1>11, <2>1 DEF Mark
  <2>2. CASE status[e] = "dead_letter"
    BY <1>0, <1>3, <1>11, <2>2 DEF Mark, WrkGoto, WorkerState, TypeOK
  <2> QED BY <2>1, <2>2
<1>12. CASE RecordFailure(w) BY <1>10, <1>12 DEF RecordFailure, WrkGoto
<1>13. CASE Finish(w) \/ WorkerCrash(w)
  BY <1>0, <1>13 DEF Finish, WorkerCrash, IdleWorker, WAttached, WInv, TypeOK
<1>14. CASE LockLost(w)
  <2>1. /\ wrk'[w].pc = wrk[w].pc /\ wrk'[w].ev = e /\ wrk'[w].snap = wrk[w].snap
        /\ wrk'[w].dirty = wrk[w].dirty /\ ~wrk'[w].locked
    BY <1>0, <1>14 DEF LockLost, TypeOK, WorkerState
  <2> QED BY <1>0, <1>14, <2>1 DEF LockLost, WAttached, WInv, mongo
<1> QED BY <1>1, <1>2, <1>4, <1>5, <1>6, <1>7, <1>8, <1>9, <1>11, <1>12, <1>13, <1>14 DEF WorkerStep

LEMMA PublisherAttached ==
    ASSUME IInv, NEW p \in Publisher, PublisherStep(p), NEW q \in Publisher
    PROVE  PAttached(q)'
<1>0. TypeOK /\ PAttached(p) /\ PAttached(q) BY DEF IInv, Typed, Attached
<1>1. ASSUME NEW e \in Event, NEW pc,
             pub' = [pub EXCEPT ![p] = [@ EXCEPT !.pc = pc, !.ev = e]]
      PROVE  PAttached(q)'
  BY <1>0, <1>1 DEF PAttached, TypeOK, PublisherState
<1>2. ASSUME PubIdle(p) PROVE PAttached(q)'
  BY <1>0, <1>2 DEF PubIdle, PAttached, TypeOK, PublisherState
<1>3. ASSUME NEW pc, PubGoto(p, pc), pub[p].pc \notin {"idle", "dead"} \/ pc = "dead"
      PROVE  PAttached(q)'
  BY <1>0, <1>3 DEF PubGoto, PAttached, TypeOK, PublisherState
<1>4. CASE \E e \in Event : Claim(p, e) \/ List(p, e) \/ ReplayRemove(p, e)
  BY <1>1, <1>4 DEF Claim, List, ReplayRemove
<1>5. CASE Enqueue(p) \/ EnqueueFails(p) \/ PublisherCrash(p)
  BY <1>3, <1>5 DEF Enqueue, EnqueueFails, PublisherCrash
<1>6. CASE MarkPublished(p) \/ ReleaseLease(p) \/ MarkDeadLetter(p) \/ RequeuePublished(p) \/ IterationFails(p)
  BY <1>2, <1>6 DEF MarkPublished, ReleaseLease, MarkDeadLetter, RequeuePublished, Redirect, IterationFails
<1>7. CASE Look(p)
  <2>1. CASE job[pub[p].ev].st \in {"waiting", "active"} BY <1>2, <1>7, <2>1 DEF Look
  <2>2. CASE job[pub[p].ev].st \notin {"waiting", "active"}
    <3> DEFINE r == [pub[p] EXCEPT !.pc = "looked", !.view = job[pub[p].ev].st]
    <3>1. pub' = [pub EXCEPT ![p] = r] BY <1>7, <2>2 DEF Look
    <3>2. r.ev = pub[p].ev BY <1>0 DEF TypeOK, PublisherState
    <3>3. pub'[q] = pub[q] \/ (q = p /\ pub'[q] = r) BY <1>0, <3>1 DEF TypeOK
    <3> HIDE DEF r
    <3> QED BY <1>0, <1>7, <3>2, <3>3 DEF Look, PAttached
  <2> QED BY <2>1, <2>2
<1>8. CASE RemoveCompleted(p)
  BY <1>2, <1>3, <1>8 DEF RemoveCompleted
<1>9. CASE ReplayClaim(p)
  BY <1>2, <1>3, <1>9 DEF ReplayClaim
<1>10. CASE Stop(p) \/ ReleaseLeases(p)
  <2>1. PICK life \in {"stopping", "stopped"} : pub' = [pub EXCEPT ![p].life = life]
    BY <1>10 DEF Stop, ReleaseLeases
  <2>2. pub'[q].pc = pub[q].pc /\ pub'[q].ev = pub[q].ev
    BY <1>0, <2>1 DEF TypeOK, PublisherState
  <2> QED BY <1>0, <2>2 DEF PAttached
<1> QED BY <1>4, <1>5, <1>6, <1>7, <1>8, <1>9, <1>10 DEF PublisherStep

\* Workers and the queue do not move a publisher.
LEMMA PublishersStay ==
    ASSUME (\E e \in Event : EventStep(e)) \/ (\E w \in Worker : WorkerStep(w))
    PROVE  pub' = pub
BY DEF EventStep, Insert, LeaseExpires, StallDetect, JobEvicted, RedisLoss, WorkerStep, Take, TxBegin,
   TxAlreadyProcessed, TxRefused, TxConflict, TxCommit, TxCommitFanout, Throws, Deliver, FanoutAdd,
   FanoutAddFails, Mark, RecordFailure, RecordFailureFails, Finish, LockLost, WorkerCrash

LEMMA NextClassified ==
    ASSUME IInv, Next
    PROVE  Classified /\ fanned \subseteq fanned'
BY ClassifyEvent, ClassifyPublisher, ClassifyWorker DEF Next

LEMMA InitIInv == Init => IInv
<1> SUFFICES ASSUME Init PROVE IInv OBVIOUS
<1>1. AtomicEffect /\ FanoutBeforeMark
  BY OutboxAssumption DEF Init, AtomicEffect, FanoutBeforeMark, Plain
<1>2. \A w \in Worker : WInv(w) BY DEF Init, WInv, IdleWorker
<1> QED BY <1>1, <1>2, InitType DEF IInv

LEMMA StepIInv == IInv /\ [Next]_vars => IInv'
<1> SUFFICES ASSUME IInv, [Next]_vars PROVE IInv' OBVIOUS
<1>1. CASE UNCHANGED vars
  BY <1>1 DEF vars, IInv, Typed, TypeOK, Attached, PAttached, WAttached, WInv, AtomicEffect,
     FanoutBeforeMark
<1>2. CASE Next
  <2>1. TypeOK' BY <1>2, EventType, PublisherType, WorkerType DEF Next, IInv, Typed
  <2>2. /\ AtomicEffect' /\ FanoutBeforeMark' /\ fanned \subseteq fanned'
        /\ \A e \in Event : applied[e] >= 1 => applied'[e] >= 1
        /\ \A e \in Event : status[e] = "processed" => status'[e] = "processed"
    BY <1>2, <2>1, NextClassified, ClassifiedKeeps DEF IInv, Typed
  <2>3. ASSUME NEW x \in Worker, Untouched(x), StaleIfClosed(x) PROVE WAttached(x)' /\ WInv(x)'
    BY <2>2, <2>3, UntouchedKeeps DEF IInv, Typed, Attached
  <2>4. ASSUME NEW q \in Publisher PROVE PAttached(q)'
    <3>1. CASE \E p \in Publisher : PublisherStep(p) BY <3>1, PublisherAttached
    <3>2. CASE pub' = pub BY <3>2 DEF IInv, Typed, Attached, PAttached
    <3> QED BY <1>2, <3>1, <3>2, PublishersStay DEF Next
  <2>5. ASSUME NEW x \in Worker PROVE WAttached(x)' /\ WInv(x)'
    <3>1. CASE \E e \in Event : EventStep(e) BY <2>3, <3>1, EventUntouched
    <3>2. CASE \E p \in Publisher : PublisherStep(p) BY <2>3, <3>2, PublisherUntouched
    <3>3. CASE \E w \in Worker : WorkerStep(w)
      <4>1. PICK w \in Worker : WorkerStep(w) BY <3>3
      <4>2. CASE x = w BY <2>1, <4>1, <4>2, OwnStep
      <4>3. CASE x # w BY <2>3, <4>1, <4>3, OthersUntouched
      <4> QED BY <4>2, <4>3
    <3> QED BY <1>2, <3>1, <3>2, <3>3 DEF Next
  <2> QED BY <2>1, <2>2, <2>4, <2>5 DEF IInv, Typed, Attached
<1> QED BY <1>1, <1>2

LEMMA InvariantIInv == Spec => []IInv
BY InitIInv, StepIInv, PTL DEF Spec

\* Every variable keeps its type, whatever the numbers of parties and faults.
THEOREM TypeCorrect == Spec => []TypeOK
BY InvariantIInv, PTL DEF IInv, Typed

\* The effect of an ordinary event has committed, once, exactly when its
\* document says processed.
THEOREM EffectIsAtomic == Spec => []AtomicEffect
BY InvariantIInv, PTL DEF IInv

\* A processed fan-out source has its own effect and its fan-out job behind it.
THEOREM FanoutPrecedesMark == Spec => []FanoutBeforeMark
BY InvariantIInv, PTL DEF IInv

\* No step of anybody takes an event out of the state processed.
THEOREM ProcessedIsFinal == Spec => ProcessedFinal
<1>1. IInv /\ IInv' /\ [Next]_vars => [\A e \in Event : status[e] = "processed" => status'[e] = "processed"]_vars
  <2> SUFFICES ASSUME IInv, IInv', Next
               PROVE  \A e \in Event : status[e] = "processed" => status'[e] = "processed"
    OBVIOUS
  <2> QED BY NextClassified, ClassifiedKeeps DEF IInv, Typed
<1> QED BY <1>1, InvariantIInv, PTL DEF Spec, ProcessedFinal

-----------------------------------------------------------------------------
(* Refinement: each step is a step of the promise or a stutter.             *)

LEMMA RewriteRefines ==
    ASSUME TypeOK, NEW e \in Event, Rewrite(e)
    PROVE  \/ UNCHANGED <<phaseBar, effectsBar>>
           \/ \E x \in Plain : Promise!Accept(x) \/ Promise!Park(x) \/ Promise!Resume(x)
<1>1. PICK s \in {"pending", "published", "dead_letter"} :
         /\ status[e] = "absent" => s = "pending"
         /\ status' = [status EXCEPT ![e] = s]
  BY DEF Rewrite, Status
<1>2. effectsBar' = effectsBar BY DEF Rewrite, effectsBar
<1>3. status[e] \in {"absent", "pending", "published", "dead_letter"} BY DEF TypeOK, Status, Rewrite
<1>4. CASE e \notin Plain
  BY <1>1, <1>2, <1>4 DEF phaseBar, Plain, TypeOK
<1>5. CASE e \in Plain
  <2>1. phaseBar' = [phaseBar EXCEPT ![e] = PhaseOf(s)]
    BY <1>1, <1>5 DEF phaseBar, Plain, TypeOK
  <2>2. phaseBar[e] = PhaseOf(status[e]) BY <1>5 DEF phaseBar
  <2>3. CASE PhaseOf(s) = PhaseOf(status[e])
    <3>1. phaseBar' = phaseBar BY <2>1, <2>2, <2>3 DEF phaseBar
    <3> QED BY <1>2, <3>1
  <2>4. CASE PhaseOf(s) # PhaseOf(status[e])
    <3>1. \/ PhaseOf(status[e]) = "absent" /\ PhaseOf(s) = "open"
          \/ PhaseOf(status[e]) = "open" /\ PhaseOf(s) = "parked"
          \/ PhaseOf(status[e]) = "parked" /\ PhaseOf(s) = "open"
      BY <1>1, <1>3, <2>4 DEF PhaseOf
    <3>2. Promise!Accept(e) \/ Promise!Park(e) \/ Promise!Resume(e)
      BY <1>2, <2>1, <2>2, <3>1
      DEF Promise!Accept, Promise!Park, Promise!Resume, Promise!Move, phaseBar, effectsBar, Plain, PhaseOf
    <3> QED BY <1>5, <3>2
  <2> QED BY <2>3, <2>4
<1> QED BY <1>4, <1>5

LEMMA CompleteRefines ==
    ASSUME TypeOK, AtomicEffect, NEW e \in Event, CompleteTogether(e)
    PROVE  \E x \in Plain : Promise!Complete(x)
<1>1. e \in Plain BY DEF CompleteTogether, Plain
<1>2. phaseBar' = [phaseBar EXCEPT ![e] = "done"] /\ phaseBar[e] = "open"
  BY <1>1 DEF CompleteTogether, phaseBar, PhaseOf, OpenStatus, Plain, TypeOK
<1>3. applied[e] = 0 BY DEF AtomicEffect, CompleteTogether, OpenStatus, Plain
<1>4. effectsBar' = [effectsBar EXCEPT ![e] = @ + 1]
  <2>1. effectsBar[e] + 1 = 1 BY <1>1, <1>3 DEF effectsBar
  <2>2. effectsBar' = [effectsBar EXCEPT ![e] = 1]
    BY <1>1 DEF CompleteTogether, effectsBar, Plain, TypeOK
  <2> QED BY <2>1, <2>2
<1>5. Promise!Complete(e)
  BY <1>2, <1>4 DEF Promise!Complete, Promise!Move, phaseBar, effectsBar, PhaseOf, Plain
<1> QED BY <1>1, <1>5

\* However often deliveries are repeated or lost, ordinary events are
\* processed as the promise says: once, together with their effect.
THEOREM OutboxImplementsExactlyOnce == Spec => ExactlyOnceEffect
<1>1. Init => Promise!Init
  BY DEF Init, Promise!Init, phaseBar, effectsBar, PhaseOf, Plain
<1>2. IInv /\ [Next]_vars => [Promise!Next]_(<<phaseBar, effectsBar>>)
  <2> SUFFICES ASSUME IInv, [Next]_vars PROVE [Promise!Next]_(<<phaseBar, effectsBar>>) OBVIOUS
  <2>0. TypeOK /\ AtomicEffect BY DEF IInv, Typed
  <2>1. CASE UNCHANGED vars BY <2>1 DEF vars, phaseBar, effectsBar, PhaseOf
  <2>2. CASE Quiet BY <2>2 DEF Quiet, phaseBar, effectsBar, PhaseOf
  <2>3. ASSUME NEW e \in Event, Rewrite(e) \/ CompleteTogether(e)
        PROVE  [Promise!Next]_(<<phaseBar, effectsBar>>)
    BY <2>0, <2>3, RewriteRefines, CompleteRefines DEF Promise!Next, Plain
  <2>4. ASSUME NEW e \in Event, FanoutEffect(e) \/ FanoutMark(e)
        PROVE  UNCHANGED <<phaseBar, effectsBar>>
    BY <2>0, <2>4 DEF FanoutEffect, FanoutMark, phaseBar, effectsBar, Plain, TypeOK
  <2> QED BY <2>1, <2>2, <2>3, <2>4, NextClassified DEF Classified
<1> QED BY <1>1, <1>2, InvariantIInv, PTL DEF Spec, ExactlyOnceEffect, Promise!Spec

=============================================================================
