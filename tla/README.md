# Verification of the Clone-X backend

This directory holds TLA+ models of the backend in `src/`, the TLC
configurations that check them on small instances, and proofs that TLAPS checks
for every value of the constants. Run `tlc -config X.cfg MCM.tla` for the run `X`
of module `M`, and `tlapm M.tla` for the proofs in `M`. `PROJECT.json` lists the
components, runs, hazards and theorems and maps every definition to the lines it
models. Paths below are relative to `src/src/` unless they begin with `src/`.

## 1. The system

One Node process runs an HTTP API (Express), a Socket.IO server and BullMQ
workers. MongoDB is the source of truth, Redis holds the queues and caches,
Cloudinary holds the media. Several processes may run side by side, and two
scripts (`scripts/replay-notification-outbox.ts`,
`scripts/reconcile-conversation-read-state.ts`) may run next to them. There are no
tests in the repository; what the program promises is written in
`src/phase-noti.md`, `src/frontend-notification-contract.md`,
`src/phase-release.md` and the README of the repository.

### Components

| Component | State it keeps | Operations | What makes it correct |
|---|---|---|---|
| Outbox (`modules/events/outbox.repository.ts`, `outbox.publisher.ts`) | `outbox_events`: status, lease | insert, claim, enqueue, mark published, release, reconcile, replay, stop | an accepted event is processed once or parked, and never forgotten |
| Notification worker (`modules/notification/notification.worker.ts`) | the job it runs, the result of its transaction | one transaction per event, emission after it, fan-out job, mark, record failure | effect and mark go together, whatever is delivered twice |
| Notification store (`notification.repository.ts`, `notification-unread.service.ts`, `notification.service.ts`, `notification-delivery.service.ts`) | `notifications`, `user_notification_states` | create, reactivate, batch, read one, read all, invalidate; adjust and emit the counter | the badge is the number of unread notifications |
| Aggregation (`notification-aggregation.service.ts`) | windows and `notification_actors` | add an actor, remove an actor, close on read | one open window per key, its actors counted right, none undone |
| Policy and eligibility (`notification-policy.service.ts`, `notification-eligibility.ts`) | none; reads tweets, likes, follows, blocks, mutes | whom an event concerns now | nothing for a blocked pair, a removed mention, a hidden tweet |
| Lifecycle and guards (`notification-lifecycle.service.ts`, `notification-lifecycle-guard.service.ts`) | `notification_lifecycle_guards` | paged clean-ups after a block, a deletion, a hiding; guards that make handlers collide with them | when a clean-up is over nothing from before it is left |
| Directed reads (`directed-notification-read.service.ts`) | none | drop what is read already, invalidate what a read covers | a read message has no notification |
| Followed-tweet fan-out (`notification-fanout.worker.ts`) | the page of a job, the continuation jobs | a page per transaction, then the next page | every follower once, no follower forgotten |
| Conversation read state (`conversation-read.service.ts`) | `conversation_read_states`, `user_message_states` | count a message, read to one or to the latest, membership, clearing, reconcile | the summary is the sum of the read states |
| Message commands (`conversation-message-command.service.ts`) | `messages` | send with `client_message_id`, forward | one message per client id, counted with its insertion |
| Conversations (`conversation.service.ts`) | `conversations`, reactions, pins, mutes | create, members and roles, delete for me, revoke, react, pin, clear history | one direct conversation per pair, an admin in every group, member limit |
| Tweets (`modules/tweet/tweet.service.ts`) | `tweets`, likes, bookmarks, mentions | create, reply, quote, retweet, edit, hide, delete, like, unlike | counters agree with relations, events match what committed |
| Users (`modules/user/user.service.ts`) | `users`, `followers`, `user_blocks` | follow, unfollow, block, unblock, profile | a block ends the relations of the pair |
| Authentication (`modules/auth`) | `refresh_tokens` | register, log in, refresh, log out | the caller of a request is who he says |
| Media (`modules/media`) | `medias`, Cloudinary assets, jobs | upload, process, reconcile, delete | pending ends in ready or failed; no record without an asset |
| Sockets and presence (`socket/`) | rooms, the set of who is online | connect, join, send, disconnect | best effort by its documentation |
| Start and stop (`app.ts`) | which parts run | start in order, stop in order | nothing accepted is lost by a stop |

Queries, routes, validators, DTOs, schemas, cursors and utilities keep no state.

### How they interact

A request runs a MongoDB transaction that changes the documents and inserts an
event into the outbox. A publisher claims the event under a lease, adds a BullMQ
job whose id is the event's id, and marks the document published. A notification
worker (`NOTIFICATION_WORKER_CONCURRENCY = 5`) runs the event's handler and marks
the document processed in one transaction, then emits the result to Socket.IO
rooms. A handler asks the policy what the event means *now* and writes to the
store. Transactions see a snapshot; two that write the same document collide and
one of them runs again (`withTransaction`), two that only read what the other
writes do not. That is why the code has lifecycle guards: documents that are
touched only to collide.

### What is hard

- **At least once everywhere.** Leases expire, BullMQ gives a stalled job to a
  second worker while the first runs on, a reconciler adds jobs again, callbacks of
  `withTransaction` run again.
- **No order.** Five jobs at once, retries with backoff and clean-ups in pages:
  the event of an unlike may be handled before that of its like, the removal of a
  mention after its second addition.
- **Snapshots.** A decision made from documents that are read and not written may
  be out of date when it commits.
- **Clocks.** Read-all, blocks and edits read the clock before their transaction
  and go by it afterwards.
- **Derived counts.** Unread counts, summaries and actor counts are kept by
  increments in a dozen places, with a clamp at zero that hides mistakes.
- **Crashes** between any two of: commit, emission, `queue.add`, mark.

## 2. The modules

| Module | What it models | Checked by |
|---|---|---|
| `ExactlyOnce` | the promise of the outbox: an event is open, done or parked, and its effect happens with *done* | `ExactlyOnceEffect`, a refinement |
| `Outbox` | documents, publishers, the queue, workers, with faults | `OutboxSafety`, `Settles` |
| `OutboxProofs` | theorems on `Outbox` | TLAPS |
| `NotificationStore` | notifications, windows, edges, counters, badges; concurrent transactions | `StoreConcurrent` |
| `NotificationStoreProofs` | theorems on `NotificationStore` | TLAPS |
| `SocialAggregation` | likes and unlikes of a tweet and the handling of their events in any order | `Likes` |
| `BlockLifecycle` | block, unblock and clean-up against mentions and likes of the pair | `BlockSafety`, `BlockSettles` |
| `TweetMentions` | mentions and a reply of a tweet that is edited, hidden, restored, deleted | `MentionRaces` |
| `LifecycleProofs` | theorems on `SocialAggregation`, `BlockLifecycle`, `TweetMentions` and `Media` | TLAPS |
| `FollowedFanout` | the pages in which the followers of an author are told of a tweet | `FanoutChain` |
| `FollowedFanoutProofs` | theorems on `FollowedFanout` | TLAPS |
| `ConversationInbox` | read states, summary and message notifications of one user | `Lists` |
| `IdempotentWrites` | the promise of a client key: a request is written once and whole, and who repeats it is told of that | `WritesOnce`, a refinement |
| `MessageCommands` | sends and forwards under client keys, repeated, overlapping, with crashes | `CommandRetries` |
| `MessageCommandsProofs` | theorems on `MessageCommands` and its refinement | TLAPS |
| `Threads` | the messages of a group, the preview of the last one, what members do for themselves | `ThreadRaces` |
| `ThreadsProofs` | theorems on `Threads` | TLAPS |
| `Groups` | who is in a group and who administers it | `GroupRaces` |
| `GroupsProofs` | theorems on `Groups` | TLAPS |
| `Timeline` | tweets, likes, bookmarks, follows, their counters and the home timelines | `Lists` |
| `Pages` | a client that walks through a list with a cursor | `Lists` |
| `ListsProofs` | theorems on `ConversationInbox`, `Timeline` and `Pages`, side by side in `MCLists` | TLAPS |
| `Media` | one uploaded file: asset, document, job, worker, reconciler, removal | `Settles`, `MentionRaces` |

`MC...` modules hold the values the configurations need. `MCLists`, `MCSettles` and
`MCLifecycles` (`TweetMentions` and `Media`) put modules side by side that share no
document: a behaviour is one of a single part while the others rest in their initial
state, so that a run of theirs is the union of the runs of the parts, and a property of
theirs says the same as that of the part. `MCBlockLifecycle` is `BlockLifecycle` under
names that do not meet those of `SocialAggregation`, so that one module can hold the
proofs of both. Definitions named as "Mutant" are the mistakes the properties are shown to
catch; no specification uses them.

**How they fit together.** `Outbox` says nothing of what a handler does: it shows
that an event is handled in a transaction that commits at most once with the mark.
`SocialAggregation`, `BlockLifecycle`, `TweetMentions` and `ConversationInbox` start
from that: an event is *pending* until the commit of a handler removes it, is
handled in any order by several workers, and a handler that fails leaves the event
to be taken again. `NotificationStore` starts from the other side: it takes any
sequence of the store's operations, whether or not a policy would call them, and
shows the counts to be right for all of them, so that the modules of the policies
need no counters. `AtomicEffect` is what the first step assumes, `UnreadCountExact`
and `ActorCountExact` are what the second leaves out. `FollowedFanout` takes over
where `FanoutBeforeMark` ends: the first job is there before the event is marked, and
the worker of the fan-out refuses it until it is. `MessageCommands` decides whether a
message is written and for whom it is counted; `ConversationInbox` starts from a
message that is written and counts it for one user; `Threads` does so for the
preview.

**Transactions.** A transaction is modelled by the writes it will commit (`draft`,
`job`, `tx`, `req`, `run`, or the `tx` state of a worker in `Outbox`), computed from
the state in which it begins. The commit of a transaction that writes one of the same
documents drops it or makes it begin again; a document that is only read, or set to
the value it has, does not. Transactions that write all the documents they depend on
take one step. Checks that the code makes before its transaction are steps of their
own (`Ask` in `Groups`, `Check` in `MessageCommands`, `Access` in `Threads`).

### Outbox

`status`, `lockedBy` and `expired` are the document; `job` the BullMQ job
with its attempts and stalls; `pub` and `wrk` the program counters of
`OutboxQueuePublisher` and `NotificationWorker.process`, each with the values it has
read (`view` is the job's state as the reconciler saw it, `result` the variable
declared outside the transaction). Every update keeps the filter of its
`updateOne`. Faults are crashes, lost locks, errors thrown in a handler, failed
calls, write conflicts with others, evicted jobs and a loss of Redis, at most
`MaxFaults` of them. `FanoutEvent` are the events of public original tweets, whose
mark follows the fan-out job outside the transaction.

`OutboxSafety` has two publishers, two workers, two attempts, two faults, and one
event at a time inserted (ordinary or with a fan-out; the constraint `OneInserted`):
the code has no state shared between events, and two attempts are the least for which
"the last attempt" and "not the last" differ. In `Settles` one of two publishers may
stop or crash at any point and the worker may crash or lose its lock, with as many
faults as attempts, so that the case in which an event may end as a dead letter
occurs.

### NotificationStore

`note` are the notifications (individual ones and windows in one set), `edge` the
actors, `state` the counters with their version, `seen` what a client has shown,
`draft`/`wrote`/`pc` the transactions. Creation, reactivation, batch creation,
mark-one, read-all (with the time of the request, `ask.had`), page invalidation,
window creation, joining, removal of an actor from one window or many are actions;
emission may come in any order or not at all. `StoreConcurrent`: two users, two
individual notifications, two windows of one key, three relations (one actor likes,
unlikes, likes again), two transactions at once, four overall; every pair of
operations overlaps, on top of two that went before.

### SocialAggregation

`like` is what the users do, `pending`/`done` the events, `window` and `edge` the
notifications of one aggregation key, `job` the open transactions. Likes stand for
reposts, which run the same three operations; follows do not (`evaluateUserFollowed`
decides about an individual notification, whose creation is in `NotificationStore`).
When an actor likes again before his edge was removed, `TakeOver` gives the edge to the
new like. `refreshWindow` then writes only values it derives; when a later like was
handled first, or the clock of another process is behind, they are those the window has
already, and an update that changes nothing conflicts with nothing: `TakeOver` leaves
open whether the window is written. `Likes`: two likes by one actor and one by another,
two workers, one failure.

### BlockLifecycle

`item` are individual notifications between an actor and a recipient, `agg` a
window with the actor's edge, `block`/`blocked_at`/`unblocked_at` the relation and
its guard, `ask` requests that have read the clock, `now` the clock. The clean-up
is the chain of events `individual`, `aggregate_blocker`, `aggregate_blocked` with
a cursor and pages of one. `BlockSafety`: two notifications (two pages), both
blockers, two workers, two requests at once, four ticks, which suffice for a
notification, a block, an unblock, and a second block. `BlockSettles`: one
notification, one worker, one failed handler.

### TweetMentions

`tweet` is the tweet with the time of each mention, `restored_at` and `hidden_at`
the guard, `note` the notifications, `pending` the events with what they carry.
`MentionRaces`: one user who may be mentioned and one reply (two pages of clean-up),
two workers, two overlapping requests of the author, five ticks.

### FollowedFanout

`rel` and `optedIn` are the follow relations with their ids and preferences, `jobs`
the queue by cursor (a cursor is the id of the job, so that an addition of a known id
is dropped), `run` what each worker is doing between the page it reads, its commit and
the next job. Followers leave, come back under a new relation, change the preference
or are in a block, the tweet is deleted, jobs fail, stall, are lost with a crash and
are evicted. `steady` are those who stay opted in from the tweet on, `gaveUp` says
that a job failed for good. `FanoutChain`: two followers with pages of one, so that
there is a page boundary and a last page, two workers, so that two chains of one tweet
overlap, three changes, two faults and two attempts. Workers are not taken as
symmetric, as the run has a liveness property.

### ConversationInbox

`sent` are messages by id, `member`, `cutoff` and `joined` the user's membership,
`read` and `summary` the two documents of counts, `note` the notifications, `tx` the
open transactions of reads and handlers. Sending, deleting, clearing, leaving and
joining take one step. `Lists` has two conversations, two messages, two transactions
at once and two clearings or departures.

### MessageCommands

`req` is a request from `send` or `forward` through the check for its key, the
transaction, the answer to a duplicate key, the emission and the acknowledgement;
`docs` the conversations and index entries its transaction writes. The hash of a
payload is modelled by what it is computed from, since the code compares what it
stored with what it computes anew, with and without the origin. Members, the sender's
own membership, blocks and the forwarded message change meanwhile; a crash may come
at any point. `CommandRetries`: two sends that use one key for different messages and
two forwards that share a key and differ in their targets, three requests by two
processes, two changes.

### Threads

`msg` are the messages, `preview` the copy in the conversation, `own` the overrides,
`restore` the marker that makes the next message bring the conversation back,
`tx` the open revocations and deletions. `Join` is `addGroupMembers` with all the users
asked for: those who are members already find the conversation again too, and with
nobody new there is no system message. `Mute` leaves alone a conversation that is
hidden, as the filter of its update does. Five variables are not in the code and appear
in the properties only, to name exactly where the code falls short of its documents
(section 5): `edited` (revoked messages that were edited), `raced` (messages revoked by
a transaction that does not write the conversation while another is about to show them),
`stale` (members whose own deletion looked at the cut-off before they cleared the
history), `hid` (who has hidden the conversation himself, rather than by clearing it)
and `back` (those with the marker who were gone or were added since). `ThreadRaces`:
two members, three messages, two open transactions, four other operations.

### Groups

`role` are members and roles, `req` the requests that passed their checks and wait
for their transaction, with the guard made from the role as read (`guarded`), `log`
the system messages. `GroupRaces`: four users, at most three members, two requests,
three changes: the least for which a transfer, a grant and a departure come in
between, and for which two additions compete for the last place.

### Timeline

The transactions of `TweetService` and `UserService` write the tweet or user they
count on and take one step; a bookmark and its count are two writes (`owed` is the
count to come) between which the process may die (`lost`). `Lists` has two users,
three tweets and five operations, enough for a tweet, two ways to retweet or reply to
it, a like of it and a deletion.

### Pages

`list` says how a list is read: with one row more than the limit (`exact`), with a
full page as a sign of another (`full`), with rows sorted out after the limit (`late`,
`likes`), from a cache (`cached`), around a message (`context`). `rows` and `hidden`
change meanwhile, `kept` are the rows that were there for the reader all along.
`Lists` has four keys, pages of two and two changes: a full page, one more row and a
row in the cursor's place.

### Media

`asset`, `doc` and `job` are the file in the storage, its document and its job;
`upload`, `hand`, `scan` and `removal` how far the request, the slots of the worker,
the reconciler and the removal are. An upload is processed in the request
(`InsertReady`, the inline mode) or through the queue. `Settles` (that it ends) and
`MentionRaces` (that the end is final) have two slots, two attempts and four mishaps: a
crash of the upload, a stalled worker, a failed attempt and a failed mark in one
history.

## 3. Properties

Each property has its statement in the module. The ones that carry the most:

- **`ExactlyOnceEffect`, `AtomicEffect`, `ProcessedFinal`** (`OutboxSafety`):
  whatever is lost or repeated between MongoDB, Redis and two processes, the effect of
  an event happens with the mark, and a processed event stays processed.
- **`EventsSettle`, `PendingEnds`** (`Settles`): every inserted event is processed or
  parked, and processed if the faults are fewer than the attempts; an uploaded file is
  ready or failed in the end.
- **`UnreadCountExact`, `BadgeAgrees`, `ReadStays`, `ActorCountExact`,
  `OneOpenWindow`** (`StoreConcurrent`).
- **`LikeShown`, `UndoneNotShown`, `ClosedFrozen`, `Reconciled`** (`Likes`): a like
  that lasts is shown, one that was undone is not unless its two events were handled
  at the same time, and in the end the windows agree with the likes, with that
  exception. A window that was read stays closed and gains or loses nobody, whatever is
  being handled as it is read; of an actor it shows, a take-over may still change for
  which like it does.
- **`SuppressedWhileBlocked`, `CleanedUp`** (`BlockSafety`), **`CleanupEnds`**
  (`BlockSettles`).
- **`OnlyCurrentMentions`, `MentionsConverge`, `OutcomeFinal`** (`MentionRaces`):
  nobody comes to be notified of a mention that is gone or not public, and when the
  events of a tweet are processed its notifications agree with it; a file is ready or
  failed for good, and with its asset while it is ready.
- **`OnceEach`, `NobodySkipped`, `OnlyWanted`, `EveryoneTold`** (`FanoutChain`): who
  stays opted in is told once, and has a job before him until he is; nobody is told of
  what is gone or of one in a block; in the end all are told, unless a job failed for
  good.
- **`WritesOnce`, `EmittedOnce`, `CountedForMembers`** (`CommandRetries`): a request
  is written once and in all its conversations in one step, a repeat is told of what
  was written, a message is emitted at most once and counted for exactly those who are
  members as it commits. (The repeat of a forward is told nothing: section 5.)
- **`PreviewCurrent`, `Withdrawn`, `Forgotten`, `RestoredAsMeant`** (`ThreadRaces`):
  through every overlap of revocations, deletions, clearings and sends, nobody is shown
  an outdated preview, the content of a revoked message (but for those in `raced`) or
  what he has deleted or cleared (but for `stale`, and after a later revocation); the
  next message brings back what a clearing has hidden, and nothing that was hidden or
  muted on purpose (but for `back`).
- **`HasAdmin`, `WithinLimit`, `StoryComplete`, `ByAdminOnly`** (`GroupRaces`).
- **`UnreadCounted`, `NotesCurrent`, `ForwardOnly`, `TimelineAgrees`, `EachOnce`**
  (`Lists`).

Deadlock is not checked: every instance stops when its bounded requests are used up.
Each module has a type invariant, `TypeOK`, of which each inductive invariant contains
what its proof needs; that of `Media` is only stated.

### Fairness

- `Outbox`: a publisher's loop reschedules itself after every iteration
  (`outbox.publisher.ts:167-183`) and every iteration both reconciles and claims,
  oldest first, so that a claim or a listing that is possible again and again
  happens (`SF`); a started iteration goes on (`WF`). BullMQ serves waiting jobs
  in turn (`SF` on `Take`) and notices stalled ones. A lease ends by the clock.
  No fairness on requests, faults, crashes, the replay script or a second
  delivery. `EventuallySettled` is stated from *pending*: the fault budget
  includes every crash, one publisher (a restarted process included) is always
  running, and a crashed worker is one that takes jobs again.
- `SocialAggregation`, `BlockLifecycle`: the worker takes waiting jobs and an open
  handler ends. Nothing is assumed of users.
- `FollowedFanout`: `WF` on the steps of each worker, and on the addition of the first
  job and the mark, which `Outbox` shows to happen for an event that is not parked.
  Nothing is assumed of users.
- `Media`: `WF` on the steps of the slots and on those of the reconciler, which scans
  every 30 seconds while the process runs (`media-processing.reconciler.ts:7`). No
  fairness on uploads, removals, or anything that goes wrong; an upload may stop for
  good after any step.

In `MCSettles` the fairness is that of both parts; the part that rests has no step its
fairness would demand, since its actions are those of the part, not of `Next`, and
the initial state of an outbox without events and of a file that is not stored enables
none of them.

## 4. Proofs

`OutboxProofs` (events, publishers, workers, attempts and faults arbitrary):
`TypeCorrect`, `EffectIsAtomic`, `FanoutPrecedesMark`, `ProcessedIsFinal` and
`OutboxImplementsExactlyOnce`. The invariants of the runs are not inductive: that a
commit makes `applied` one depends on what the transaction's snapshot saw. `IInv`
adds to the type invariant that a worker's open transaction whose snapshot is not
`processed` is either on a document that still is not, or is `dirty` and cannot
commit; and, for a fan-out source, that a worker which goes on to the mark has
committed the effect and added the job. Its proof first types every action
(`EventType`, `PublisherType`, `WorkerType`), then sorts the actions by what they do
to documents and effects (`ClassifyEvent`, `ClassifyPublisher`, `ClassifyWorker`):
an insertion, a rewrite of an unprocessed document, a commit of an effect, a mark,
or nothing. Each class keeps `AtomicEffect` and `FanoutBeforeMark`
(`ClassifiedKeeps`) and what the other workers rely on (`UntouchedKeeps`); the
worker that acts is treated by `OwnStep`. The five theorems follow, the refinement
by mapping each class to a step of `ExactlyOnce` or to a stutter.

`NotificationStoreProofs` (users, notifications, keys, relations and transactions
arbitrary, finite where they are counted): `TypeCorrect`, `UnreadCountsExact`,
`ActorCountsExact`, `WindowsSingle`, `BadgesAgree`, `ReadForGood`. The inductive
invariant adds that the draft of an open transaction, laid over the documents as
they are now, keeps the counts exact: its counters are the current ones adjusted by
exactly the notifications it turns unread or read. It holds when a draft is
made, with one lemma per operation (`PersistKeeps` to `RemoveActorKeeps`), and lasts
because any commit that would break it conflicts with the draft (`Survivor`).
Cardinalities go through a lemma on what one commit adds to and takes from the
unread notifications of a recipient.

`GroupsProofs` (users, requests, limit and changes arbitrary, the users finite):
`Inductive`, `AdminThere`, `LimitKept`, `AdminsDecide`. `HasAdmin` is not inductive:
a removal takes the last admin if he may remove himself, and a revocation if it may
name several. `Checked` adds that a request under way that is not an addition names
one user and that no removal names its caller, which only the checks before the
transaction see to. Each change of the group then goes through one lemma
(`ChangeStep`) on what the new group must be: within the limit, and with an admin,
shown for each operation by naming one: those who stay, another admin, the caller, the
successor. `AdminsDecide` proves the action property `ByAdminOnly` by the filter of
each transaction (`FilterAuthorised`), the departure by its caller, the addition by
the members it leaves alone. `EachChangeTold` says that every change of the group comes
with one system message from which the change can be told (`ToldStep`): the step of an
induction whose conclusion is `StoryComplete`, the theorem `StoryIsComplete`. What the
messages tell is a fold, which unfolds to a function that `CHOOSE` picks; that there is
one (`StoryExists`), what it gives for one message after another (`StoryRule`) and for
one more at the end (`StoryAppend`) is shown by a least counterexample, which the
provers follow where they could not use an induction theorem.

`LifecycleProofs` has the theorems of four modules. Of `SocialAggregation` (actors,
likes, workers and failures arbitrary, the likes
finite): `TypeCorrect`, `LikesAreShown`, `UndoneLikesAreNot`, `ReadStaysFrozen`.
Neither of the two invariants is inductive, since a handler writes later what it has
decided on a snapshot. `Ready` says what an open transaction may be (it ignores an
undone like, shows a like, passes over an unlike or removes an edge) and which part of
its snapshot still holds: a like about to be shown has no later like of the actor shown
before it, an unlike that found nothing has found nothing since, a window about to go
has no second actor. These stay true because whoever falsifies one writes the edge, the
window or the guard of the tweet, which the transaction writes too; where no document
is shared, the relation is in `raced`, the exception of `UndoneNotShown`. For
`ReadStaysFrozen` the invariant has that an open transaction which writes an edge
anew or removes one also writes the window, found open; one that takes an edge over need
not, and for it the edge it finds is the actor's. `Logged` and
`Edges` tie events and edges together, and `Room` (no more windows made than likes
processed) shows that `createWindow` always finds a window.

Of `BlockLifecycle` (notifications, workers, requests, times and failures arbitrary):
`BlocksTyped`, `BlocksAreCleanedUp`, `BlocksSuppress`. That nothing from before a block
is left *when its clean-up is over* says nothing of the clean-up under way. `Ahead`
does: what is left from before a block that stands lies ahead of an event of the
clean-up of that very block, beyond its cursor or in a stage to come. `BlockReady` has
the open page carry this over: it takes each such notification along or leaves it to
the next event. Nothing comes back behind the cursor, because a handler that makes the
actor appear has touched the guard of the pair, and the block that writes it aborts the
handler. `AsksDated` gives every request a time of its own, without which the events of
an earlier clean-up could pass for those of the latest.

Of `TweetMentions` (users, workers, requests and times arbitrary): `MentionsAreTyped`,
`MentionsSettle`, `MentionsStayCurrent`. `Told` says of a tweet that was always public
that every mention without a notification has the event that adds it still to come, and
every notification without a mention the one that removes it; `Swept` says of a hidden
or deleted one what `Ahead` says of a block. `MentionsReady` has open handlers rely on
the tweet as it is, because every edit writes the guard they touch.

Of `Media` (slots, attempts and mishaps arbitrary): `OutcomesAreFinal`. The invariant
says at which point of the upload there can be no document yet, no removal, or no
missing asset.

`FollowedFanoutProofs` (followers, pages, workers, attempts, changes and faults
arbitrary): `TypeCorrect`, `EachToldOnce`, `ChainUnbroken`, `WantedOnly`. That nobody
is skipped is not inductive: a page may be committed and its continuation not added
yet. `Chain` follows a steady follower through all stages of the job before them: it
waits or runs; its page is open and has them in it or will be continued before them; it
is committed and will be; it has added the next; and behind every completed job there
is a live one or they are told, which is why the queue may drop the addition of an id
it still keeps. `Early` has nothing but the first job before the event is marked,
`Wanted` has an open page hold only those who are not told and may be, because every
page, deletion and block writes a guard the page also writes.

`MessageCommandsProofs` (requests, keys, conversations, processes, crashes arbitrary, a
request with finitely many conversations): `EmittedAtMostOnce`, `CountedWhenCommitted`
and `KeysKeepTheirPromise`, the refinement of `IdempotentWrites`. The invariant says
that no two stored messages share a key (the unique index) and of an open transaction
that it holds exactly what its request lacks, for the members of now and with the sender
among them: who stores under the key or changes the members writes a document it writes
as well and spoils it. A request that is to emit or acknowledge finds everything it
asked for stored, and no two of them are to emit the same message (`Unsent`). The
refinement then maps a commit to a write, an acknowledgement to an answer and all else
to a stutter.

`ThreadsProofs` (members, processes, messages and changes arbitrary): `TypeCorrect`,
`PreviewIsCurrent`, `RevokedIsWithdrawn`, `DeletedIsForgotten`, `OnlyClearedRestored`.
The previews an open revocation or deletion is going to write have to be as good as
those stored, for the time after it: `Covers` (nothing later is to be seen) and
`Truthful` (what has a content is sent, and neither deleted nor cleared) are stated of a
pair of copies and of what the transaction is about to take away, and the invariant has
them of the stored copies and of every prepared ones. A send, a clearing or another
deletion writes the conversation and makes the transaction begin again. What it does
not see is a revocation that leaves the conversation alone. Of such a one `Unshown` says
that no stored copy has the content of its message; so when another transaction has
prepared one and both commit, the message is in `raced` after the first of the two
commits, and `Truthful` excepts it. `Misled` says the same of a deletion with an outdated
cut-off and `stale`. `Marks` is the invariant of `OnlyClearedRestored`: what is hidden,
and not by its member himself, has its marker.

`ListsProofs` proves the five properties of `MCLists` whose parts are `Pages`,
`Timeline` and `ConversationInbox` (all sizes arbitrary; users, tweets and conversations
finite, as they are counted or summed up): a step moves one part, so that the invariant
of the composition, `ListsInv`, is the conjunction of `PInv`, `TInv`, `NInv` and `UInv`,
and `Moves` has one case per part.

- `PagesGiveEachOnce` (`NoneTwice`, `NoneSkipped`). What was given lies at or behind
  the cursor, and every row that was there all along and was not given lies before it,
  or below a row that was held back (`Behind`, `Walked`). It rests on what `Newest` and
  `Oldest` return: a page without gaps, full unless it is the rest.
- `CountersAgree` (`CountsAgree`, `MarksOwed`, `NothingLeft`). Every counter is the size
  of a set, a step adds or takes one element of it or leaves it, and a tweet to come has
  nothing yet (`Untouched`). The clamp of `unretweet` at zero is never needed, because
  the retweet it takes away is itself counted.
- `NoStaleNotes` (`ReadNotNotified`, `DeletedGone`). An open read knows every
  notification it has to withdraw, an open handler creates one only for a message that
  is neither read nor deleted, because a read and a deletion write the read state or the
  guard of the message, which the handler touches; or the user joined after it. A
  notification whose message is deleted has its event pending (`Withdrawing`).
- `UnreadIsCounted` (`SummaryExact`, `UnreadCovers`). Every read state counts what is
  unread beyond its position, no less than what is shown of it, and exactly that as long
  as nothing is deleted (`Covers`). So does the one an open read is going to write, which
  may only lower the count of now (`Acknowledged`): a message that is sent meanwhile
  writes the same read state and spoils the read. The summary is a sum over the
  conversations with something unread. That the sum exists and can be taken apart at any
  conversation (`SumsExist`, `TotalWithout`) is shown by a smallest counterexample among
  finite sets; a step changes it for one conversation (`SumShifts`), up by one
  (`CountedUp`) or down by what was read (`CountedDown`), where the clamp at zero has
  nothing to hide.
- `ReadsGoForward` (`ForwardOnly`): an open read is not behind the position it is about
  to move, as any other that moves it spoils it.

Every safety invariant and every action property that a run checks is stated by a
theorem. Only model-checked are the five liveness properties, `EventsSettle`,
`PendingEnds`, `Reconciled`, `CleanupEnds` and `EveryoneTold`: TLAPS does not prove what
depends on fairness, which speaks of `ENABLED`.

The assumptions of the proofs are the named `ASSUME`s of the modules: sets are disjoint
or finite, bounds are natural numbers, every like has an actor, a request has
conversations; what is counted or summed up (users, likes, tweets, conversations) is
finite. TLC evaluates each of them in a run.

## 5. Where the code and its documents part

Each is a property of a module that fails in a small instance, or the exception that
a property makes. To see one of the first kind, put it as the only property in a
configuration with the constants of the run named.

| Property | Instance | What happens |
|---|---|---|
| `EmittedWasCommitted` (`Outbox`) | `OutboxSafety` | The result of an aborted attempt survives in `handlerResult` (`notification.worker.ts:102,156`); the next attempt finds the event processed by another worker, and the result is emitted. The documents want an emission after its commit only (`src/phase-noti.md:331`). |
| `DeadLetterStays` (`Outbox`) | one event, one publisher, two workers, 2 attempts, 3 faults | `recordProcessingFailure` (`outbox.repository.ts:135`) spares only processed events: a late failure of a worker that lost its lock takes a dead letter back to published, against `src/phase-noti.md:828`. Harmless in that the reconciler finds the event again. |
| `EffectWithProcessed` (`Outbox`) | a fan-out event, 2 faults | The effect of a public tweet commits before its mark (`notification.worker.ts:150,163`), against `src/phase-noti.md:331`; after a crash the handler runs twice, which its deduplication keys absorb. |
| `ReadAllSparesLater` (`NotificationStore`) | one user | Read-all goes by `unread_since`, taken when the creating transaction builds the document (`notification.repository.ts:72,266`): a notification committed after the request is marked read, against `src/phase-noti.md:1061`. |
| exception of `UndoneNotShown` (`SocialAggregation`) | `Likes` | The handler of an unlike finds no edge and writes nothing while the like's handler is open (`notification-aggregation.service.ts:83`); the like commits, and the undone like is shown for good, against `src/phase-noti.md:1097`. |
| `NoneLeft` (`BlockLifecycle`) | one notification, one worker, three ticks | `blockUser` reads the clock before its transaction (`user.service.ts:151`): a mention handled in between is younger than the block and is not cleaned up, against `src/phase-noti.md:1726`. |
| `AddedShown` (`TweetMentions`) | one user, one worker, one request at a time | For an event from before a restore the policy answers with no mentions (`notification-policy.service.ts:211`), and the handler takes that for a removal: the event of a removal, handled after a later addition, takes the new mention away, against `src/phase-noti.md:979`. |
| `DeletedGone` (`TweetMentions`) | one user, two workers | The handler of a reply only reads the parent (`notification-policy.service.ts:229`): the parent is deleted and cleaned up, then the handler commits, against `src/phase-noti.md:1727`. |
| `ReadLatestClears` (`ConversationInbox`) | one conversation, two messages | With one unread message deleted and a later one read by its id a count of one is left (`conversation.service.ts:1291`), which a read up to the latest does not clear, against `src/phase-noti.md:1314`. |
| `ReadPositionNotified` (`ConversationInbox`) | one conversation, two messages, one clearing | Clearing and joining move the read position without invalidating what is behind it (`conversation-read.service.ts:264,333`), against `src/frontend-notification-contract.md:402`. |
| `ForwardRepeatAnswered` (`MessageCommands`) | `CommandRetries` | The hash of a forwarded message includes its origin, and the check of a repeat (`conversation-message-command.service.ts:713`) computes it without: the repeat of a forward that was done ends in a conflict, against `src/endpoint.md:101`. Nothing is written twice. |
| `PreviewWithoutRevoked` (`Threads`) | `ThreadRaces` | A deletion chooses a message for its caller's override while that message is being revoked; the revocation writes the message and, having seen no override, not the conversation (`conversation.service.ts:466,513`). The override keeps the content, against `src/swagger.yaml:1694`. `Withdrawn` leaves out exactly the messages revoked so (`raced`). |
| exceptions of `Forgotten` (`Threads`) | `ThreadRaces` | A later message is revoked: the shared preview goes back to an earlier one, which a member had deleted or cleared and is shown again (`conversation.service.ts:541`), against `src/endpoint.md:96`. And `deleteMessage` takes the cut-off of its caller from before its transaction (`:1294`), against `src/endpoint.md:78` (`stale`). |
| exception of `Withdrawn` (`Threads`) | `ThreadRaces` | `editMessage` looks at the author only (`conversation.service.ts:2487`), so that a revoked message has a content again, against `src/endpoint.md:95`. |
| `HiddenStaysHidden` (`Threads`) | `ThreadRaces` | `addGroupMembers` takes everybody it was asked for out of `hidden_by`, members among them, and commits that although nobody is new (`conversation.service.ts:1840,1864`); `restore_on_next_message` stays. A member clears the history, is "added" (or leaves and comes back), and hides or mutes the conversation he has in view again: the next message brings it back and lifts the mute, against `src/endpoint.md:77`. `RestoredAsMeant` has this exception (`back`). |
| `NeverWithoutAdmin` (`Groups`) | `GroupRaces` | The guard of a departure is put together from the role as read before the transaction (`conversation.service.ts:2047`): the only admin hands over to someone who has asked to leave as a plain member, and leaves; then that one leaves too, and the group has no admin, against `src/swagger.yaml:1385`. `HasAdmin` and its theorem have this exception (`surprised`). |
| exception of `NoneSkipped` (`Pages`) | `Lists` | The home timeline, bookmarks and the likes of a tweet sort out rows after the limit and take a page that is not full for the last (`tweet.service.ts:547,589,865`): one hidden row ends the walk, against `src/endpoint.md:51`. |
| exception of `ReadyStored` (`Media`) | `MentionRaces` | `insertOne` throws although the document was inserted: the asset is removed (`media.service.ts:113`) and the document becomes, or is, ready without it, against `src/endpoint.md:158`. |

`ClosedFrozen` (`Likes`) has an exception that no document speaks against: a take-over
that leaves the window unwritten commits beside a concurrent read, and the window that
is read shows its actor for his new like. Who it shows, and how many, stays the same.

A conversation that a clearing has hidden and that is hidden again comes back with the
next message: `deleteConversation` finds it hidden and changes nothing.

`src/swagger.yaml:1302` says that a group has at most one admin; `grantGroupAdmin`
makes further ones.

Two more were met outside the models: `reconcileSummary`
(`conversation-read.service.ts:357-386`) adds up and then writes with no transaction,
so that a message in between breaks what `SummaryExact` states
(`src/phase-noti.md:2066`); and `editMessage` emits to a room named by the
conversation, which sockets do not join, and leaves the cache of messages as it was.

## 6. Not modelled

- **Authentication.** Passwords, signatures and single documents of tokens; no other
  part reads them, and the models take the caller of a request as given.
- **The reconciliation script.** It writes what it read before; no property of the
  read state holds with it while messages arrive.
- **Creation of a direct conversation** (`conversation.service.ts:667-717`): a search
  and an insertion with no unique index, so that two first messages at once may make
  two conversations. Nothing in the code or its documents puts that right afterwards.
- **Pins** (`conversation.service.ts:1441-1488`): the limit of five is counted before
  an update in no transaction; two requests at once may exceed it. Names, avatars and
  profiles are updates of one document.
- **The cache of messages** (`CONVERSATION_MESSAGE_CACHE_MODE=full`): off by default.
- **Presence, typing, rooms**: best effort by their documentation.
- **Hashtag counts and views**: they only grow, outside transactions, and nothing
  depends on them.
- **The branches of the policy for group management and reactions**, and the clean-up
  after a revocation: they read and page as those for directed messages and deleted
  tweets do, with the same operations of the store.
- Payloads, texts, hydration, ranking, logging, rate limits, validation of requests.
- MongoDB's and BullMQ's internals: a transaction commits or does not (an
  unknown commit result is a commit whose caller does not hear of it), a job has one
  lock.
- Feature flags are taken as switched on, the outbox included.
- Message ids are taken to be in the order of the commits; one process with one
  ObjectId counter gives them in the order of `prepareNewMessage`.
- Time is a counter in `BlockLifecycle` and `TweetMentions`: two readings of the
  clock differ. In the other modules any delay may have elapsed.

Hazards that no property covers, each with its note in `PROJECT.json`: the block whose
time is read too early, the reconciliation script, a fan-out job that failed for good
and keeps its id, and a direct message that commits together with a block.

## 7. What could come next

Models of what section 6 leaves out for its size alone: the branches of the policy for
group management and reactions, and the clean-up after a revocation, whose events go
the way of those of `TweetMentions`. Properties for the four hazards without one would
need a statement the code keeps: for the reconciliation script that it repairs what
nothing touches meanwhile, for a fan-out job that failed for good that a later page
does not depend on it. And the leads-to properties could be brought within reach of a
proof by a measure that every fair step lowers, as a safety property: the events and
pages to come in `BlockLifecycle`, the attempts left in `Outbox` and `Media`.
