------------------------------- MODULE Outbox -------------------------------
(***************************************************************************)
(* The transactional outbox of the notification pipeline: the documents of *)
(* collection outbox_events (outbox.repository.ts), the publishers that    *)
(* move them to BullMQ (outbox.publisher.ts) and the notification workers  *)
(* that process them (notification.worker.ts).                             *)
(*                                                                         *)
(* MongoDB gives each single-document update atomicity and each            *)
(* transaction a snapshot: a transaction that writes a document which      *)
(* somebody else wrote after the snapshot aborts, and withTransaction runs *)
(* its callback again.  BullMQ keeps at most one job per job id, hands it  *)
(* to one worker under a lock, and gives the job away again when the lock  *)
(* is lost; the worker that lost it is not told and runs on.               *)
(*                                                                         *)
(* Time is abstract: a lease, a backoff or a staleness threshold may have  *)
(* elapsed in any state in which it is running.                            *)
(***************************************************************************)
EXTENDS Naturals

CONSTANTS
    Event,        \* event ids
    FanoutEvent,  \* those that are TweetCreated of a public original tweet
    Publisher,    \* OutboxQueuePublisher instances, each its own lockedBy
    Worker,       \* concurrent calls of NotificationWorker.process
    NoEvent, NoPublisher,
    MaxAttempts,  \* NOTIFICATION_JOB_ATTEMPTS
    MaxFaults     \* bound on crashes, lost locks, thrown errors, Redis losses

ASSUME OutboxAssumption ==
    /\ FanoutEvent \subseteq Event
    /\ NoEvent \notin Event
    /\ NoPublisher \notin Publisher
    /\ MaxAttempts \in Nat \ {0}
    /\ MaxFaults \in Nat

VARIABLES
    status,   \* status of the outbox document, "absent" before its insert
    lockedBy, \* locked_by
    expired,  \* locked_at is older than the lease
    job,      \* the BullMQ job of the event
    pub,      \* the publishers
    wrk,      \* the workers
    applied,  \* committed handler transactions per event, 2 = two or more
    fanned,   \* events whose first fan-out job was added
    ghosts,   \* events for which a result was emitted that never committed
    faults

mongo == <<status, lockedBy, expired>>
vars == <<status, lockedBy, expired, job, pub, wrk, applied, fanned, ghosts, faults>>

Status == {"absent", "pending", "published", "processed", "dead_letter"}
Settled == {"processed", "dead_letter"}
JobState == {"none", "waiting", "active", "completed", "failed"}

Job == [st: JobState, made: 0..MaxAttempts, stalls: 0..2]
NoJob == [st |-> "none", made |-> 0, stalls |-> 0]
NewJob == [st |-> "waiting", made |-> 0, stalls |-> 0]

PublisherState ==
    [pc: {"idle", "listed", "looked", "removed", "held", "queued", "erring", "replaying", "dead"},
     ev: Event \cup {NoEvent}, view: JobState, life: {"up", "stopping", "stopped"}]
IdlePublisher == [pc |-> "idle", ev |-> NoEvent, view |-> "none", life |-> "up"]

WorkerState ==
    [pc: {"idle", "start", "tx", "after", "fanout", "mark", "failing", "done", "failed"},
     ev: Event \cup {NoEvent}, attempt: 0..MaxAttempts + 1, locked: BOOLEAN,
     snap: Status, dirty: BOOLEAN, result: BOOLEAN, own: BOOLEAN, already: BOOLEAN]
IdleWorker ==
    [pc |-> "idle", ev |-> NoEvent, attempt |-> 0, locked |-> FALSE, snap |-> "absent",
     dirty |-> FALSE, result |-> FALSE, own |-> FALSE, already |-> FALSE]

TypeOK ==
    /\ status \in [Event -> Status]
    /\ lockedBy \in [Event -> Publisher \cup {NoPublisher}]
    /\ expired \in [Event -> BOOLEAN]
    /\ job \in [Event -> Job]
    /\ pub \in [Publisher -> PublisherState]
    /\ wrk \in [Worker -> WorkerState]
    /\ applied \in [Event -> 0..2]
    /\ fanned \subseteq Event
    /\ ghosts \subseteq Event
    /\ faults \in 0..MaxFaults

Init ==
    /\ status = [e \in Event |-> "absent"]
    /\ lockedBy = [e \in Event |-> NoPublisher]
    /\ expired = [e \in Event |-> FALSE]
    /\ job = [e \in Event |-> NoJob]
    /\ pub = [p \in Publisher |-> IdlePublisher]
    /\ wrk = [w \in Worker |-> IdleWorker]
    /\ applied = [e \in Event |-> 0]
    /\ fanned = {}
    /\ ghosts = {}
    /\ faults = 0

-----------------------------------------------------------------------------
(* Effects shared by the actions.                                          *)

Fault == faults < MaxFaults /\ faults' = faults + 1

\* A committed write of document e makes every open transaction on e stale.
Disturb(ws, e) ==
    [x \in Worker |-> IF ws[x].pc = "tx" /\ ws[x].ev = e
                      THEN [ws[x] EXCEPT !.dirty = TRUE] ELSE ws[x]]

\* An update of document e to status s that also releases the lease.
WriteUnlocked(e, s) ==
    /\ status' = [status EXCEPT ![e] = s]
    /\ lockedBy' = [lockedBy EXCEPT ![e] = NoPublisher]
    /\ expired' = [expired EXCEPT ![e] = FALSE]

PubGoto(p, pc) == pub' = [pub EXCEPT ![p].pc = pc]
PubIdle(p) ==
    pub' = [pub EXCEPT ![p] = [@ EXCEPT !.pc = "idle", !.ev = NoEvent, !.view = "none"]]

Up(p) == pub[p].pc # "dead" /\ pub[p].life = "up"
Running(p) == pub[p].pc = "idle" /\ Up(p)

\* Some worker holds the BullMQ lock of the job of e.
JobLocked(e) == \E w \in Worker : wrk[w].ev = e /\ wrk[w].locked

-----------------------------------------------------------------------------
(* Publishing: the business transaction, the lease, the queue.             *)

\* OutboxRepository.insert, committed with the business data.
Insert(e) ==
    /\ status[e] = "absent"
    /\ status' = [status EXCEPT ![e] = "pending"]
    /\ UNCHANGED <<lockedBy, expired, job, pub, wrk, applied, fanned, ghosts, faults>>

\* The publisher that holds the lease of e is still at work on it.
HolderWorks(e) ==
    \E p \in Publisher :
        lockedBy[e] = p /\ pub[p].ev = e /\ pub[p].pc \in {"held", "queued", "erring"}

\* An enqueue is far shorter than a lease: one that outlasts it is a fault.
LeaseExpires(e) ==
    /\ lockedBy[e] # NoPublisher /\ ~expired[e]
    /\ expired' = [expired EXCEPT ![e] = TRUE]
    /\ \/ ~HolderWorks(e) /\ UNCHANGED faults
       \/ Fault
    /\ UNCHANGED <<status, lockedBy, job, pub, wrk, applied, fanned, ghosts>>

\* claimNext: a pending document nobody holds, or whose lease ran out.
Claim(p, e) ==
    /\ Running(p)
    /\ status[e] = "pending"
    /\ lockedBy[e] = NoPublisher \/ expired[e]
    /\ lockedBy' = [lockedBy EXCEPT ![e] = p]
    /\ expired' = [expired EXCEPT ![e] = FALSE]
    /\ pub' = [pub EXCEPT ![p] = [@ EXCEPT !.pc = "held", !.ev = e]]
    /\ wrk' = Disturb(wrk, e)
    /\ UNCHANGED <<status, job, applied, fanned, ghosts, faults>>

\* enqueueClaimed up to queue.add: a job that exists in any state is kept.
Enqueue(p) ==
    LET e == pub[p].ev IN
    /\ pub[p].pc = "held"
    /\ job' = IF job[e].st = "none" THEN [job EXCEPT ![e] = NewJob] ELSE job
    /\ PubGoto(p, "queued")
    /\ UNCHANGED <<mongo, wrk, applied, fanned, ghosts, faults>>

\* The queue or the database throws inside enqueueClaimed.
EnqueueFails(p) ==
    /\ pub[p].pc \in {"held", "queued"}
    /\ Fault
    /\ PubGoto(p, "erring")
    /\ UNCHANGED <<mongo, job, wrk, applied, fanned, ghosts>>

\* markPublished only touches a pending document this publisher still holds.
MarkPublished(p) ==
    LET e == pub[p].ev IN
    /\ pub[p].pc = "queued"
    /\ IF status[e] = "pending" /\ lockedBy[e] = p
       THEN WriteUnlocked(e, "published") /\ wrk' = Disturb(wrk, e)
       ELSE UNCHANGED <<mongo, wrk>>
    /\ PubIdle(p)
    /\ UNCHANGED <<job, applied, fanned, ghosts, faults>>

\* releaseLease, from the catch clause of enqueueClaimed.
ReleaseLease(p) ==
    LET e == pub[p].ev IN
    /\ pub[p].pc = "erring"
    /\ IF status[e] = "pending" /\ lockedBy[e] = p
       THEN WriteUnlocked(e, "pending") /\ wrk' = Disturb(wrk, e)
       ELSE UNCHANGED <<mongo, wrk>>
    /\ PubIdle(p)
    /\ UNCHANGED <<job, applied, fanned, ghosts, faults>>

-----------------------------------------------------------------------------
(* Reconciliation of published documents with the queue.                   *)

\* findPublishedBefore lists e; it may have changed when its turn comes.
List(p, e) ==
    /\ Running(p)
    /\ status[e] = "published"
    /\ pub' = [pub EXCEPT ![p] = [@ EXCEPT !.pc = "listed", !.ev = e]]
    /\ UNCHANGED <<mongo, job, wrk, applied, fanned, ghosts, faults>>

\* Mutant: a published document whose job is gone is left alone.
LookIgnoresMissing(p) ==
    LET seen == job[pub[p].ev].st IN
    /\ pub[p].pc = "listed"
    /\ IF seen \in {"waiting", "active", "none"}
       THEN PubIdle(p)
       ELSE pub' = [pub EXCEPT ![p] = [@ EXCEPT !.pc = "looked", !.view = seen]]
    /\ UNCHANGED <<mongo, job, wrk, applied, fanned, ghosts, faults>>

\* getEventJob and job.getState; a live job leaves nothing to do.
Look(p) ==
    LET seen == job[pub[p].ev].st IN
    /\ pub[p].pc = "listed"
    /\ IF seen \in {"waiting", "active"}
       THEN PubIdle(p)
       ELSE pub' = [pub EXCEPT ![p] = [@ EXCEPT !.pc = "looked", !.view = seen]]
    /\ UNCHANGED <<mongo, job, wrk, applied, fanned, ghosts, faults>>

\* Mutant: the reconciler updates by event_id alone.
RedirectAnyStatus(p, s) ==
    LET e == pub[p].ev IN
    /\ WriteUnlocked(e, s) /\ wrk' = Disturb(wrk, e)
    /\ PubIdle(p)
    /\ UNCHANGED <<job, applied, fanned, ghosts, faults>>

\* The reconciler's conditional update of a document it saw published.
Redirect(p, s) ==
    LET e == pub[p].ev IN
    /\ IF status[e] = "published"
       THEN WriteUnlocked(e, s) /\ wrk' = Disturb(wrk, e)
       ELSE UNCHANGED <<mongo, wrk>>
    /\ PubIdle(p)
    /\ UNCHANGED <<job, applied, fanned, ghosts, faults>>

\* markDeadLetterFromQueue: the queue gave the job up.
MarkDeadLetter(p) ==
    /\ pub[p].pc = "looked" /\ pub[p].view = "failed"
    /\ Redirect(p, "dead_letter")

\* requeuePublished: the job is missing, or was completed and is removed now.
RequeuePublished(p) ==
    /\ \/ pub[p].pc = "looked" /\ pub[p].view = "none"
       \/ pub[p].pc = "removed"
    /\ Redirect(p, "pending")

\* job.remove() of a job seen completed; a locked job makes it throw.
RemoveCompleted(p) ==
    LET e == pub[p].ev IN
    /\ pub[p].pc = "looked" /\ pub[p].view = "completed"
    /\ IF JobLocked(e)
       THEN PubIdle(p) /\ UNCHANGED job
       ELSE PubGoto(p, "removed") /\ job' = [job EXCEPT ![e] = NoJob]
    /\ UNCHANGED <<mongo, wrk, applied, fanned, ghosts, faults>>

-----------------------------------------------------------------------------
(* Manual replay, shutdown and crash of a publisher.                       *)

\* replay, first half: refuse a live job, remove a finished one.
ReplayRemove(p, e) ==
    /\ Running(p)
    /\ job[e].st \notin {"waiting", "active"}
    /\ status[e] = "dead_letter" \* replaying anything else changes no document
    /\ job' = [job EXCEPT ![e] = NoJob]
    /\ pub' = [pub EXCEPT ![p] = [@ EXCEPT !.pc = "replaying", !.ev = e]]
    /\ UNCHANGED <<mongo, wrk, applied, fanned, ghosts, faults>>

\* claimDeadLetterForReplay, then enqueueClaimed.
ReplayClaim(p) ==
    LET e == pub[p].ev IN
    /\ pub[p].pc = "replaying"
    /\ IF status[e] = "dead_letter"
       THEN /\ status' = [status EXCEPT ![e] = "pending"]
            /\ lockedBy' = [lockedBy EXCEPT ![e] = p]
            /\ expired' = [expired EXCEPT ![e] = FALSE]
            /\ wrk' = Disturb(wrk, e)
            /\ PubGoto(p, "held")
       ELSE UNCHANGED <<mongo, wrk>> /\ PubIdle(p)
    /\ UNCHANGED <<job, applied, fanned, ghosts, faults>>

\* The database throws anywhere else in an iteration: schedule logs it and
\* starts the next one; a lease that was held runs out by itself.
IterationFails(p) ==
    /\ pub[p].pc \in {"listed", "looked", "removed", "erring", "replaying"}
    /\ Fault
    /\ PubIdle(p)
    /\ UNCHANGED <<mongo, job, wrk, applied, fanned, ghosts>>

\* Some other publisher, a restarted process included, carries on.
AnotherUp(p) == \E q \in Publisher \ {p} : Up(q)

\* stop: no further claim ...
Stop(p) ==
    /\ Up(p) /\ AnotherUp(p)
    /\ Fault
    /\ pub' = [pub EXCEPT ![p].life = "stopping"]
    /\ UNCHANGED <<mongo, job, wrk, applied, fanned, ghosts>>

\* ... and releaseLeases, once the iteration in flight ended or timed out.
ReleaseLeases(p) ==
    LET mine == {e \in Event : status[e] = "pending" /\ lockedBy[e] = p} IN
    /\ pub[p].life = "stopping" /\ pub[p].pc # "dead"
    /\ pub' = [pub EXCEPT ![p].life = "stopped"]
    /\ lockedBy' = [e \in Event |-> IF e \in mine THEN NoPublisher ELSE lockedBy[e]]
    /\ expired' = [e \in Event |-> IF e \in mine THEN FALSE ELSE expired[e]]
    /\ wrk' = [x \in Worker |-> IF wrk[x].pc = "tx" /\ wrk[x].ev \in mine
                                THEN [wrk[x] EXCEPT !.dirty = TRUE] ELSE wrk[x]]
    /\ UNCHANGED <<status, job, applied, fanned, ghosts, faults>>

PublisherCrash(p) ==
    /\ pub[p].pc # "dead" /\ AnotherUp(p)
    /\ Fault
    /\ PubGoto(p, "dead")
    /\ UNCHANGED <<mongo, job, wrk, applied, fanned, ghosts>>

-----------------------------------------------------------------------------
(* The notification worker: one call of process per taken job.             *)

WrkGoto(w, pc) == wrk' = [wrk EXCEPT ![w].pc = pc]

\* BullMQ hands the job over; attempt is attemptsMade + 1.
Take(w, e) ==
    /\ wrk[w].pc = "idle" /\ job[e].st = "waiting"
    /\ job' = [job EXCEPT ![e].st = "active"]
    /\ wrk' = [wrk EXCEPT ![w] = [IdleWorker EXCEPT !.pc = "start", !.ev = e, !.locked = TRUE,
                                                    !.attempt = job[e].made + 1]]
    /\ UNCHANGED <<mongo, pub, applied, fanned, ghosts, faults>>

\* A run of the callback of withTransaction: the snapshot decides the branch,
\* and handlerResult, declared outside, is assigned when the handler runs.
TxBegin(w) ==
    LET seen == status[wrk[w].ev] IN
    /\ wrk[w].pc = "start"
    /\ wrk' = [wrk EXCEPT ![w] =
                 [wrk[w] EXCEPT !.pc = "tx", !.snap = seen, !.dirty = FALSE,
                                !.result = @ \/ seen \in {"pending", "published"},
                                !.already = @ \/ seen = "processed"]]
    /\ UNCHANGED <<mongo, job, pub, applied, fanned, ghosts, faults>>

\* The event was processed before: nothing to write, the transaction commits.
TxAlreadyProcessed(w) ==
    /\ wrk[w].pc = "tx" /\ wrk[w].snap = "processed"
    /\ WrkGoto(w, "after")
    /\ UNCHANGED <<mongo, job, pub, applied, fanned, ghosts, faults>>

\* No document, or a dead letter: the callback throws.
TxRefused(w) ==
    /\ wrk[w].pc = "tx" /\ wrk[w].snap \in {"absent", "dead_letter"}
    /\ WrkGoto(w, "failing")
    /\ UNCHANGED <<mongo, job, pub, applied, fanned, ghosts, faults>>

Handles(w) == wrk[w].pc = "tx" /\ wrk[w].snap \in {"pending", "published"}

\* The transaction aborts and runs again: the outbox document it writes was
\* written since the snapshot, or some document of the handler was.
TxConflict(w) ==
    /\ Handles(w)
    /\ \/ /\ wrk[w].ev \notin FanoutEvent /\ wrk[w].dirty
          /\ UNCHANGED faults
       \/ Fault
    /\ WrkGoto(w, "start")
    /\ UNCHANGED <<mongo, job, pub, applied, fanned, ghosts>>

\* Mutant: markProcessed is called without the session, so nothing conflicts.
TxCommitNoConflict(w) ==
    LET e == wrk[w].ev IN
    /\ Handles(w) /\ e \notin FanoutEvent
    /\ WriteUnlocked(e, "processed")
    /\ applied' = [applied EXCEPT ![e] = IF @ < 2 THEN @ + 1 ELSE 2]
    /\ wrk' = [Disturb(wrk, e) EXCEPT ![w] = [wrk[w] EXCEPT !.pc = "after", !.own = TRUE]]
    /\ UNCHANGED <<job, pub, fanned, ghosts, faults>>

\* The handler's effect and markProcessed commit together.
TxCommit(w) ==
    LET e == wrk[w].ev IN
    /\ Handles(w) /\ e \notin FanoutEvent /\ ~wrk[w].dirty
    /\ WriteUnlocked(e, "processed")
    /\ applied' = [applied EXCEPT ![e] = IF @ < 2 THEN @ + 1 ELSE 2]
    /\ wrk' = [Disturb(wrk, e) EXCEPT ![w] = [wrk[w] EXCEPT !.pc = "after", !.own = TRUE]]
    /\ UNCHANGED <<job, pub, fanned, ghosts, faults>>

\* A fan-out source commits the effect alone; its mark comes later.
TxCommitFanout(w) ==
    LET e == wrk[w].ev IN
    /\ Handles(w) /\ e \in FanoutEvent
    /\ applied' = [applied EXCEPT ![e] = IF @ < 2 THEN @ + 1 ELSE 2]
    /\ wrk' = [wrk EXCEPT ![w] = [@ EXCEPT !.pc = "after", !.own = TRUE]]
    /\ UNCHANGED <<mongo, job, pub, fanned, ghosts, faults>>

\* The handler or the database throws; in "after" it is a commit that was
\* made but whose answer never came.
Throws(w) ==
    /\ wrk[w].pc \in {"start", "tx", "after"}
    /\ Fault
    /\ WrkGoto(w, "failing")
    /\ UNCHANGED <<mongo, job, pub, applied, fanned, ghosts>>

\* deliverAfterCommit emits whatever handlerResult holds by now.
Deliver(w) ==
    LET e == wrk[w].ev IN
    /\ wrk[w].pc = "after"
    /\ ghosts' = IF wrk[w].result /\ ~wrk[w].own THEN ghosts \cup {e} ELSE ghosts
    /\ WrkGoto(w, IF e \in FanoutEvent THEN "fanout" ELSE "done")
    /\ UNCHANGED <<mongo, job, pub, applied, fanned, faults>>

\* notificationFanoutQueue.add: the first fan-out job, once per job id.
FanoutAdd(w) ==
    /\ wrk[w].pc = "fanout"
    /\ fanned' = fanned \cup {wrk[w].ev}
    /\ WrkGoto(w, IF wrk[w].already THEN "done" ELSE "mark")
    /\ UNCHANGED <<mongo, job, pub, applied, ghosts, faults>>

FanoutAddFails(w) ==
    /\ wrk[w].pc \in {"fanout", "mark"}
    /\ Fault
    /\ WrkGoto(w, "failing")
    /\ UNCHANGED <<mongo, job, pub, applied, fanned, ghosts>>

\* markProcessed outside the transaction: any document but a dead letter.
Mark(w) ==
    LET e == wrk[w].ev IN
    /\ wrk[w].pc = "mark"
    /\ IF status[e] # "dead_letter"
       THEN /\ WriteUnlocked(e, "processed")
            /\ wrk' = [Disturb(wrk, e) EXCEPT ![w].pc = "done"]
       ELSE UNCHANGED mongo /\ WrkGoto(w, "failing")
    /\ UNCHANGED <<job, pub, applied, fanned, ghosts, faults>>

\* Mutant: recordProcessingFailure without its filter on processed.
RecordFailureAlways(w) ==
    LET e == wrk[w].ev
        s == IF wrk[w].attempt >= MaxAttempts THEN "dead_letter" ELSE "published" IN
    /\ wrk[w].pc = "failing"
    /\ IF status[e] \notin {"absent"}
       THEN /\ WriteUnlocked(e, s)
            /\ wrk' = [Disturb(wrk, e) EXCEPT ![w].pc = "failed"]
       ELSE UNCHANGED mongo /\ WrkGoto(w, "failed")
    /\ UNCHANGED <<job, pub, applied, fanned, ghosts, faults>>

\* recordProcessingFailure: any document but a processed one, a dead letter
\* included, becomes published, or a dead letter after the last attempt.
RecordFailure(w) ==
    LET e == wrk[w].ev
        s == IF wrk[w].attempt >= MaxAttempts THEN "dead_letter" ELSE "published" IN
    /\ wrk[w].pc = "failing"
    /\ IF status[e] \notin {"absent", "processed"}
       THEN /\ WriteUnlocked(e, s)
            /\ wrk' = [Disturb(wrk, e) EXCEPT ![w].pc = "failed"]
       ELSE UNCHANGED mongo /\ WrkGoto(w, "failed")
    /\ UNCHANGED <<job, pub, applied, fanned, ghosts, faults>>

RecordFailureFails(w) ==
    /\ wrk[w].pc = "failing"
    /\ Fault
    /\ WrkGoto(w, "failed")
    /\ UNCHANGED <<mongo, job, pub, applied, fanned, ghosts>>

-----------------------------------------------------------------------------
(* BullMQ: outcome of a call, locks, stalled jobs, retention.              *)

\* The outcome of the call reaches the job only under its lock.
Finish(w) ==
    LET e == wrk[w].ev
        made == job[e].made + 1
        ended == IF wrk[w].pc = "done" THEN [job[e] EXCEPT !.st = "completed"]
                 ELSE IF made >= MaxAttempts
                      THEN [job[e] EXCEPT !.st = "failed", !.made = MaxAttempts]
                      ELSE [job[e] EXCEPT !.st = "waiting", !.made = made] IN
    /\ wrk[w].pc \in {"done", "failed"}
    /\ job' = IF wrk[w].locked THEN [job EXCEPT ![e] = ended] ELSE job
    /\ wrk' = [wrk EXCEPT ![w] = IdleWorker]
    /\ UNCHANGED <<mongo, pub, applied, fanned, ghosts, faults>>

\* The lock was not renewed in time (a blocked event loop, a slow Redis).
LockLost(w) ==
    /\ wrk[w].locked
    /\ Fault
    /\ wrk' = [wrk EXCEPT ![w].locked = FALSE]
    /\ UNCHANGED <<mongo, job, pub, applied, fanned, ghosts>>

WorkerCrash(w) ==
    /\ wrk[w].pc # "idle"
    /\ Fault
    /\ wrk' = [wrk EXCEPT ![w] = IdleWorker]
    /\ UNCHANGED <<mongo, job, pub, applied, fanned, ghosts>>

\* An active job without a lock: given away once more, then failed.
StallDetect(e) ==
    /\ job[e].st = "active" /\ ~JobLocked(e)
    /\ job' = IF job[e].stalls = 0
              THEN [job EXCEPT ![e] = [@ EXCEPT !.st = "waiting", !.stalls = 1]]
              ELSE [job EXCEPT ![e] = [@ EXCEPT !.st = "failed", !.stalls = 2]]
    /\ UNCHANGED <<mongo, pub, wrk, applied, fanned, ghosts, faults>>

\* removeOnComplete and removeOnFail.
JobEvicted(e) ==
    /\ job[e].st \in {"completed", "failed"}
    /\ job' = [job EXCEPT ![e] = NoJob]
    /\ UNCHANGED <<mongo, pub, wrk, applied, fanned, ghosts, faults>>

\* Redis comes back without the job, and without its lock.
RedisLoss(e) ==
    /\ job[e].st # "none"
    /\ Fault
    /\ job' = [job EXCEPT ![e] = NoJob]
    /\ wrk' = [w \in Worker |-> IF wrk[w].ev = e THEN [wrk[w] EXCEPT !.locked = FALSE] ELSE wrk[w]]
    /\ UNCHANGED <<mongo, pub, applied, fanned, ghosts>>

-----------------------------------------------------------------------------
EventStep(e) == Insert(e) \/ LeaseExpires(e) \/ StallDetect(e) \/ JobEvicted(e) \/ RedisLoss(e)

PublisherStep(p) ==
    \/ \E e \in Event : Claim(p, e) \/ List(p, e) \/ ReplayRemove(p, e)
    \/ Enqueue(p) \/ EnqueueFails(p) \/ MarkPublished(p) \/ ReleaseLease(p)
    \/ Look(p) \/ MarkDeadLetter(p) \/ RequeuePublished(p) \/ RemoveCompleted(p)
    \/ ReplayClaim(p) \/ IterationFails(p)
    \/ Stop(p) \/ ReleaseLeases(p) \/ PublisherCrash(p)

WorkerStep(w) ==
    \/ \E e \in Event : Take(w, e)
    \/ TxBegin(w) \/ TxAlreadyProcessed(w) \/ TxRefused(w) \/ TxConflict(w)
    \/ TxCommit(w) \/ TxCommitFanout(w) \/ Throws(w)
    \/ Deliver(w) \/ FanoutAdd(w) \/ FanoutAddFails(w) \/ Mark(w)
    \/ RecordFailure(w) \/ RecordFailureFails(w)
    \/ Finish(w) \/ LockLost(w) \/ WorkerCrash(w)

Next ==
    \/ \E e \in Event : EventStep(e)
    \/ \E p \in Publisher : PublisherStep(p)
    \/ \E w \in Worker : WorkerStep(w)

Spec == Init /\ [][Next]_vars

\* A started iteration or call goes on; leases and stalls are noticed; every
\* iteration of a publisher both lists published documents and claims pending
\* ones, and BullMQ serves waiting jobs in turn, so neither starves an event.
Fairness ==
    /\ \A p \in Publisher :
         /\ WF_vars(Enqueue(p) \/ MarkPublished(p) \/ ReleaseLease(p))
         /\ WF_vars(Look(p) \/ MarkDeadLetter(p) \/ RequeuePublished(p) \/ RemoveCompleted(p))
         /\ WF_vars(ReplayClaim(p))
         /\ \A e \in Event : SF_vars(Claim(p, e)) /\ SF_vars(List(p, e))
    /\ \A w \in Worker :
         /\ WF_vars(TxBegin(w) \/ TxAlreadyProcessed(w) \/ TxRefused(w) \/ TxCommit(w) \/ TxCommitFanout(w)
                    \/ (TxConflict(w) /\ faults' = faults))
         /\ WF_vars(Deliver(w) \/ FanoutAdd(w) \/ Mark(w) \/ RecordFailure(w) \/ Finish(w))
    /\ \A e \in Event :
         /\ WF_vars(LeaseExpires(e) /\ faults' = faults) /\ WF_vars(StallDetect(e))
         /\ SF_vars(\E w \in Worker : Take(w, e))

FairSpec == Spec /\ Fairness

-----------------------------------------------------------------------------
(* Properties.                                                             *)

\* What is promised of an event whose effect and mark share a transaction.
Plain == Event \ FanoutEvent
PhaseOf(s) ==
    CASE s \in {"pending", "published"} -> "open"
      [] s = "processed" -> "done"
      [] s = "dead_letter" -> "parked"
      [] OTHER -> "absent"
phaseBar == [e \in Plain |-> PhaseOf(status[e])]
effectsBar == [e \in Plain |-> applied[e]]

Promise == INSTANCE ExactlyOnce WITH Event <- Plain, phase <- phaseBar, effects <- effectsBar

\* However often the queue, the publishers and the workers repeat or lose a
\* delivery, the effect of an ordinary event commits exactly when the event
\* becomes processed, once, and never afterwards or from a dead letter.
ExactlyOnceEffect == Promise!Spec

\* The invariant behind it: effect and mark of an ordinary event go together.
AtomicEffect ==
    \A e \in Plain : applied[e] = (IF status[e] = "processed" THEN 1 ELSE 0)

\* A fan-out source is marked processed only after its own effect committed
\* and its first fan-out job was added: the fan-out worker refuses the job of
\* a source that is not processed, and nobody adds the job of one that is.
FanoutBeforeMark ==
    \A e \in FanoutEvent : status[e] = "processed" => applied[e] >= 1 /\ e \in fanned

\* Processed is final, for fan-out sources too: neither a late publisher nor
\* a late failing worker turns a processed event into anything else.
ProcessedFinal ==
    [][\A e \in Event : status[e] = "processed" => status'[e] = "processed"]_vars

\* Nothing is forgotten: after any bounded number of crashes, lost locks,
\* thrown errors and Redis losses every inserted event is processed or parked
\* as a dead letter.
EventuallySettled == \A e \in Event : status[e] = "pending" ~> status[e] \in Settled

\* With fewer faults than a job has attempts it is processed.
EventuallyProcessed ==
    \A e \in Event : status[e] = "pending" ~> (status[e] = "processed" \/ faults >= MaxAttempts)

\* Stated by the code and the design, and not so (see the README): a dead
\* letter is left only by a replay, ...
DeadLetterStays ==
    [][\A e \in Event : status[e] = "dead_letter" => status'[e] \in {"dead_letter", "pending"}]_vars

\* ... the effect of every event, TweetCreated included, commits in the same
\* transaction as its mark, ...
EffectWithProcessed == \A e \in Event : applied[e] = (IF status[e] = "processed" THEN 1 ELSE 0)

\* ... and what is emitted was committed first.
EmittedWasCommitted == ghosts = {}

=============================================================================
