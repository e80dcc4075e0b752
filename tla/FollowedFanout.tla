---------------------------- MODULE FollowedFanout ----------------------------
(***************************************************************************)
(* The fan-out of one tweet to the followers who asked to be told of new   *)
(* tweets (NotificationFanoutWorker).  A job of the queue reads one page   *)
(* of the follow relations behind its cursor, stores the notifications of  *)
(* the page in one transaction and then adds the job of the next page.     *)
(* The worker of domain events adds the first job and then marks the event *)
(* processed (module Outbox); meanwhile users follow, unfollow, opt in and *)
(* out and block, and the tweet is deleted.                                *)
(*                                                                         *)
(* A job of the queue is its cursor: the queue drops the addition of a job *)
(* it still keeps under the same id, whatever became of that job.          *)
(***************************************************************************)
EXTENDS Naturals, FiniteSets, FiniteSetsExt

CONSTANTS
    Followers,     \* number of users other than the author
    MaxRelation,   \* bound on follow relations
    Worker,        \* jobs under way at the same time
    Batch,         \* NOTIFICATION_FANOUT_BATCH_SIZE
    Attempts,      \* NOTIFICATION_FANOUT_JOB_ATTEMPTS
    MaxChanges,    \* bound on changes of relations and preferences
    MaxFaults      \* bound on failures of a step, crashes and evictions

ASSUME FanoutAssumption ==
    /\ Followers \in Nat /\ MaxRelation \in Nat /\ Followers <= MaxRelation
    /\ Batch \in Nat \ {0} /\ Attempts \in Nat \ {0}
    /\ MaxChanges \in Nat /\ MaxFaults \in Nat

User == 1..Followers
Relation == 1..MaxRelation     \* ids, in the order of their insertion
Cursor == 0..MaxRelation       \* after_relation_id, 0 for the first page

VARIABLES
    rel,        \* the follow relation of each user, 0 for none
    lastRel,    \* the last relation inserted
    optedIn,    \* relations with post_notifications_enabled
    blocked,    \* users in a block with the author since the tweet
    tweeted,    \* the tweet is there, and has been all the time
    processed,  \* the outbox event is processed
    jobs,       \* the job of each cursor
    run,        \* what each worker is doing
    made,       \* notifications created for each user
    steady,     \* users opted in since the tweet without a break
    gaveUp,     \* a job has failed for good
    changes, faults

env == <<rel, lastRel, optedIn, blocked, tweeted, steady, changes>>
vars == <<env, processed, jobs, run, made, gaveUp, faults>>

Job == [state: {"absent", "waiting", "active", "completed", "failed"},
        tries: 0..Attempts, stalls: 0..2]
\* new: the recipients of the page who get a notification, next: the cursor of
\* the next page or 0.
Run == [at: {"idle", "begin", "open", "committed", "added"},
        cursor: Cursor, new: SUBSET User, next: Cursor]

Absent == [state |-> "absent", tries |-> 0, stalls |-> 0]
Idle == [at |-> "idle", cursor |-> 0, new |-> {}, next |-> 0]

TypeOK ==
    /\ rel \in [User -> Cursor] /\ lastRel \in Cursor /\ optedIn \subseteq Relation
    /\ blocked \subseteq User /\ tweeted \in BOOLEAN /\ processed \in BOOLEAN
    /\ jobs \in [Cursor -> Job] /\ run \in [Worker -> Run]
    /\ made \in [User -> Nat] /\ steady \subseteq User /\ gaveUp \in BOOLEAN
    /\ changes \in 0..MaxChanges /\ faults \in 0..MaxFaults

Init ==
    /\ rel = [u \in User |-> u] /\ lastRel = Followers /\ optedIn \in SUBSET User
    /\ steady = {u \in User : u \in optedIn}
    /\ blocked = {} /\ tweeted = TRUE /\ processed = FALSE
    /\ jobs = [c \in Cursor |-> Absent] /\ run = [w \in Worker |-> Idle]
    /\ made = [u \in User |-> 0] /\ gaveUp = FALSE
    /\ changes = 0 /\ faults = 0

\* notificationFanoutQueue.add: a known id is not added again.
WithJob(js, c) ==
    IF js[c].state = "absent" THEN [js EXCEPT ![c].state = "waiting"] ELSE js

\* The job of run w goes back to the queue or, without a further attempt, fails
\* for good.
EndsIn(w, state, tries, stalls) ==
    /\ jobs' = [jobs EXCEPT ![run[w].cursor] =
                    [state |-> state, tries |-> tries, stalls |-> stalls]]
    /\ run' = [run EXCEPT ![w] = Idle]
    /\ gaveUp' = (gaveUp \/ state = "failed")

Throws(w) ==
    LET j == jobs[run[w].cursor] IN
    EndsIn(w, IF j.tries + 1 < Attempts THEN "waiting" ELSE "failed", j.tries + 1, j.stalls)

\* The workers of ws share a document with what commits: if open, they start over.
Conflict(ws) ==
    [w \in Worker |-> IF run[w].at = "open" /\ w \in ws
                      THEN [run[w] EXCEPT !.at = "begin"] ELSE run[w]]

-----------------------------------------------------------------------------
(* What users do meanwhile.                                                *)

\* followUser: the preference of a new relation is off.
Follow(u) ==
    /\ rel[u] = 0 /\ u \notin blocked /\ changes < MaxChanges /\ lastRel < MaxRelation
    /\ lastRel' = lastRel + 1
    /\ rel' = [rel EXCEPT ![u] = lastRel + 1]
    /\ changes' = changes + 1
    /\ UNCHANGED <<optedIn, blocked, tweeted, steady, processed, jobs, run, made, gaveUp, faults>>

\* unfollowUser.
Unfollow(u) ==
    /\ rel[u] # 0 /\ changes < MaxChanges
    /\ rel' = [rel EXCEPT ![u] = 0]
    /\ optedIn' = optedIn \ {rel[u]} /\ steady' = steady \ {u}
    /\ changes' = changes + 1
    /\ UNCHANGED <<lastRel, blocked, tweeted, processed, jobs, run, made, gaveUp, faults>>

\* updateFollowNotificationPreference.  The page that holds the relation does not
\* start over: its guard sets the preference to the value it has, which writes
\* nothing.
Prefer(u) ==
    /\ rel[u] # 0 /\ changes < MaxChanges
    /\ optedIn' = IF rel[u] \in optedIn THEN optedIn \ {rel[u]} ELSE optedIn \cup {rel[u]}
    /\ steady' = steady \ {u}
    /\ changes' = changes + 1
    /\ UNCHANGED <<lastRel, rel, blocked, tweeted, processed, jobs, run, made, gaveUp, faults>>

\* blockUser, by either of the two: the follow goes with it.  The guard of the
\* pair is written here and by the page, and remembers the block after it ends.
Block(u) ==
    /\ u \notin blocked /\ changes < MaxChanges
    /\ blocked' = blocked \cup {u}
    /\ rel' = [rel EXCEPT ![u] = 0]
    /\ optedIn' = optedIn \ {rel[u]} /\ steady' = steady \ {u}
    /\ run' = Conflict({w \in Worker : u \in run[w].new})
    /\ changes' = changes + 1
    /\ UNCHANGED <<lastRel, tweeted, processed, jobs, made, gaveUp, faults>>

\* Mutant: the deletion does not write the guard of the tweet.
DeleteUnguarded ==
    /\ tweeted /\ changes < MaxChanges
    /\ tweeted' = FALSE
    /\ changes' = changes + 1
    /\ UNCHANGED <<lastRel, rel, optedIn, blocked, steady, processed, jobs, run, made, gaveUp, faults>>

\* deleteTweet, with the guard of the tweet; a tweet restored later is hidden
\* from this event for good.
DeleteTweet ==
    /\ tweeted /\ changes < MaxChanges
    /\ tweeted' = FALSE
    /\ run' = Conflict(Worker)
    /\ changes' = changes + 1
    /\ UNCHANGED <<lastRel, rel, optedIn, blocked, steady, processed, jobs, made, gaveUp, faults>>

-----------------------------------------------------------------------------
(* The worker of domain events.                                            *)

\* Also again, when its own job is tried again.
AddFirst ==
    /\ jobs' = WithJob(jobs, 0)
    /\ UNCHANGED <<env, processed, run, made, gaveUp, faults>>

Mark ==
    /\ jobs[0].state # "absent"
    /\ processed' = TRUE
    /\ UNCHANGED <<env, jobs, run, made, gaveUp, faults>>

-----------------------------------------------------------------------------
(* NotificationFanoutWorker.process.                                       *)

Take(w, c) ==
    /\ run[w] = Idle /\ jobs[c].state = "waiting"
    /\ jobs' = [jobs EXCEPT ![c].state = "active"]
    /\ run' = [run EXCEPT ![w] = [Idle EXCEPT !.at = "begin", !.cursor = c]]
    /\ UNCHANGED <<env, processed, made, gaveUp, faults>>

\* Mutant: a job that comes too early returns with nothing done.
TooEarlyReturns(w) ==
    /\ run[w].at = "begin" /\ ~processed
    /\ EndsIn(w, "completed", jobs[run[w].cursor].tries, jobs[run[w].cursor].stalls)
    /\ UNCHANGED <<env, processed, made, faults>>

\* "Fanout source event is not processed yet".
TooEarly(w) ==
    /\ run[w].at = "begin" /\ ~processed
    /\ Throws(w)
    /\ UNCHANGED <<env, processed, made, faults>>

Behind(c) == {u \in User : rel[u] > c /\ rel[u] \in optedIn}
Page(c) == {u \in Behind(c) : Cardinality({v \in Behind(c) : rel[v] < rel[u]}) < Batch}
LastOf(S) == Max({rel[u] : u \in S})

\* loadEligibleRecipientIds and resolveFollowedUserTweetPlan, less those whose
\* deduplication key is there already.
ToNotify(S) == {u \in S : tweeted /\ u \notin blocked /\ made[u] = 0}

\* Mutant: the next page starts one relation further.
PageBeyond(w) ==
    LET page == Page(run[w].cursor) IN
    /\ run[w].at = "begin" /\ processed
    /\ run' = [run EXCEPT ![w].at = "open", ![w].new = ToNotify(page),
                          ![w].next = IF page = Behind(run[w].cursor) THEN 0
                                      ELSE LastOf(Behind(run[w].cursor))]
    /\ UNCHANGED <<env, processed, jobs, made, gaveUp, faults>>

ReadPage(w) ==
    LET page == Page(run[w].cursor) IN
    /\ run[w].at = "begin" /\ processed
    /\ run' = [run EXCEPT ![w].at = "open", ![w].new = ToNotify(page),
                          ![w].next = IF page = Behind(run[w].cursor) THEN 0 ELSE LastOf(page)]
    /\ UNCHANGED <<env, processed, jobs, made, gaveUp, faults>>

\* Mutant: two pages of the tweet do not get in each other's way.
CommitAlone(w) ==
    /\ run[w].at = "open"
    /\ made' = [u \in User |-> made[u] + (IF u \in run[w].new THEN 1 ELSE 0)]
    /\ run' = [run EXCEPT ![w].at = "committed"]
    /\ UNCHANGED <<env, processed, jobs, gaveUp, faults>>

\* createIndividualNotificationsBatch.  Every page writes the guard of the tweet.
Commit(w) ==
    /\ run[w].at = "open"
    /\ made' = [u \in User |-> made[u] + (IF u \in run[w].new THEN 1 ELSE 0)]
    /\ run' = [Conflict(Worker \ {w}) EXCEPT ![w].at = "committed"]
    /\ UNCHANGED <<env, processed, jobs, gaveUp, faults>>

\* The continuation, outside the transaction.
AddNext(w) ==
    /\ run[w].at = "committed"
    /\ jobs' = IF run[w].next = 0 THEN jobs ELSE WithJob(jobs, run[w].next)
    /\ run' = [run EXCEPT ![w].at = "added"]
    /\ UNCHANGED <<env, processed, made, gaveUp, faults>>

Finish(w) ==
    /\ run[w].at = "added"
    /\ EndsIn(w, "completed", jobs[run[w].cursor].tries, jobs[run[w].cursor].stalls)
    /\ UNCHANGED <<env, processed, made, faults>>

\* The database or, once committed, the queue answers with an error.
Fails(w) ==
    /\ run[w].at \in {"begin", "open", "committed"} /\ faults < MaxFaults
    /\ faults' = faults + 1
    /\ Throws(w)
    /\ UNCHANGED <<env, processed, made>>

\* The process stops: a job found stalled waits again, but only once.
Crash(w) ==
    LET j == jobs[run[w].cursor] IN
    /\ run[w].at # "idle" /\ faults < MaxFaults
    /\ faults' = faults + 1
    /\ EndsIn(w, IF j.stalls = 0 THEN "waiting" ELSE "failed", j.tries, j.stalls + 1)
    /\ UNCHANGED <<env, processed, made>>

\* removeOnComplete and removeOnFail: the id is free again.
Evict(c) ==
    /\ jobs[c].state \in {"completed", "failed"} /\ faults < MaxFaults
    /\ faults' = faults + 1
    /\ jobs' = [jobs EXCEPT ![c] = Absent]
    /\ UNCHANGED <<env, processed, run, made, gaveUp>>

-----------------------------------------------------------------------------
Step(w) ==
    \/ \E c \in Cursor : Take(w, c)
    \/ TooEarly(w) \/ ReadPage(w) \/ Commit(w) \/ AddNext(w) \/ Finish(w)

Next ==
    \/ \E u \in User : \/ Follow(u) \/ Unfollow(u) \/ Prefer(u) \/ Block(u)
    \/ DeleteTweet \/ AddFirst \/ Mark
    \/ \E w \in Worker : Step(w) \/ Fails(w) \/ Crash(w)
    \/ \E c \in Cursor : Evict(c)

Spec == Init /\ [][Next]_vars

\* The event is tried again until its job is added and it is marked (module
\* Outbox), and the workers of the queue keep running.
Fairness ==
    /\ WF_vars(AddFirst) /\ WF_vars(Mark)
    /\ \A w \in Worker : WF_vars(Step(w))

FairSpec == Spec /\ Fairness

-----------------------------------------------------------------------------
(* Properties.                                                             *)

\* Each recipient gets one notification of the tweet, when pages are read again
\* after a crash, when relations move between pages and when two chains of
\* pages are under way.
OnceEach == \A u \in User : made[u] <= 1

\* Who could still be told has a job before them: no page boundary, retry or
\* addition that the queue dropped leaves out a steady follower.
Ahead(u) == \E c \in Cursor : c < rel[u] /\ jobs[c].state \in {"waiting", "active"}

NobodySkipped ==
    \A u \in steady : processed /\ tweeted /\ ~gaveUp => made[u] = 1 \/ Ahead(u)

\* Nobody is told of a tweet that is gone, or of one by a user in a block.
OnlyWanted ==
    [][\A u \in User : made'[u] # made[u] => tweeted /\ u \notin blocked]_vars

\* Unless a job fails for good, all who stay opted in are told in the end.
EveryoneTold ==
    <>[](gaveUp \/ ~tweeted \/ \A u \in steady : made[u] = 1)

=============================================================================
