------------------------- MODULE NotificationStore -------------------------
(***************************************************************************)
(* The notification documents of MongoDB and the transactions that change  *)
(* them: individual notifications (notification.repository.ts), windows    *)
(* that aggregate the actors of a like or repost                           *)
(* (notification-aggregation.service.ts) and the unread counter of each    *)
(* recipient (notification-unread.service.ts).                             *)
(*                                                                         *)
(* A transaction reads one snapshot and its writes wait until it commits.  *)
(* When another one commits a write to one of the same documents first, it *)
(* aborts, and withTransaction runs it again on a new snapshot: any action *)
(* of this module may be such a second run.                                *)
(*                                                                         *)
(* Which notification a document describes (its recipient, its key) never  *)
(* changes and is a constant.  Contexts, previews and creation times are   *)
(* left out, and with them the choice a page of a clean-up makes.          *)
(***************************************************************************)
EXTENDS Naturals, FiniteSets

CONSTANTS
    User,        \* recipients
    Actor,       \* users who like or repost
    Individual,  \* individual notifications, one document per deduplication key
    Window,      \* aggregate notifications, a document each
    AggKey,      \* aggregation keys
    Recipient,   \* the recipient of each notification
    KeyOf,       \* the aggregation key of each window
    Source,      \* like and repost relations
    SourceActor, SourceKey, \* who liked, and under which key that is notified
    NoSource, NoUser,
    Txn,         \* callers of withTransaction: requests and worker calls
    MaxRuns      \* bound on the runs of transactions

Note == Individual \cup Window
Edge == Window \X Actor

ASSUME StoreAssumption ==
    /\ IsFiniteSet(Note) /\ IsFiniteSet(Actor)
    /\ Individual \cap Window = {}
    /\ Recipient \in [Note -> User]
    /\ KeyOf \in [Window -> AggKey]
    /\ \A x, y \in Window : KeyOf[x] = KeyOf[y] => Recipient[x] = Recipient[y]
    /\ SourceActor \in [Source -> Actor] /\ SourceKey \in [Source -> AggKey]
    /\ NoSource \notin Source /\ NoUser \notin User
    /\ MaxRuns \in Nat

VARIABLES
    note,   \* the notification documents
    edge,   \* the notification_actors: through which relation an actor is in a window
    state,  \* the notification_states: unread count and version of each recipient
    pc,     \* where each transaction is
    draft,  \* what it has written and not committed, and what it will emit
    ask,    \* the read-all request it serves
    seen,   \* the badge the client of each recipient shows
    now     \* a clock that ticks with every run

vars == <<note, edge, state, pc, draft, ask, seen, now>>

NoteDoc == [st: {"absent", "valid", "invalid"}, is_read: BOOLEAN, active: BOOLEAN,
            actor_count: Nat, unread_since: Nat]
NoNote == [st |-> "absent", is_read |-> FALSE, active |-> FALSE, actor_count |-> 0, unread_since |-> 0]
Counter == [unread_count: Nat, version: Nat]
ZeroCounter == [unread_count |-> 0, version |-> 0]

\* New values from T for some documents of S.
WritesTo(f, S, T) == DOMAIN f \subseteq S /\ f \in [DOMAIN f -> T]
Nothing == [d \in {} |-> 0]

IsDraft(d) ==
    /\ WritesTo(d.note, Note, NoteDoc)
    /\ WritesTo(d.edge, Edge, Source \cup {NoSource})
    /\ WritesTo(d.state, User, Counter)
    /\ d.keys \subseteq AggKey
    /\ WritesTo(d.reply, User, Counter)
NoDraft == [note |-> Nothing, edge |-> Nothing, state |-> Nothing, keys |-> {}, reply |-> Nothing]
Ask == [who: User \cup {NoUser}, at: Nat, had: SUBSET Note]
NoAsk == [who |-> NoUser, at |-> 0, had |-> {}]

TypeOK ==
    /\ note \in [Note -> NoteDoc]
    /\ edge \in [Edge -> Source \cup {NoSource}]
    /\ state \in [User -> Counter]
    /\ pc \in [Txn -> {"idle", "asked", "open", "committed"}]
    /\ DOMAIN draft = Txn /\ \A t \in Txn : IsDraft(draft[t])
    /\ ask \in [Txn -> Ask]
    /\ seen \in [User -> Counter]
    /\ now \in 0..MaxRuns

Init ==
    /\ note = [n \in Note |-> NoNote]
    /\ edge = [p \in Edge |-> NoSource]
    /\ state = [r \in User |-> ZeroCounter]
    /\ pc = [t \in Txn |-> "idle"]
    /\ draft = [t \in Txn |-> NoDraft]
    /\ ask = [t \in Txn |-> NoAsk]
    /\ seen = [r \in User |-> ZeroCounter]
    /\ now = 0

-----------------------------------------------------------------------------
(* Documents, and the transaction around every operation.                  *)

Unread(n) == note[n].st = "valid" /\ ~note[n].is_read
Open(x) == note[x].st = "valid" /\ note[x].active
ActorsOf(x) == {a \in Actor : edge[<<x, a>>] # NoSource}

\* A new or reactivated document: unread since this run.
Fresh(window) ==
    [st |-> "valid", is_read |-> FALSE, active |-> window,
     actor_count |-> IF window THEN 1 ELSE 0, unread_since |-> now + 1]
\* Mutant: reading a window leaves it open.
ReadLeavesOpen(n) == [note[n] EXCEPT !.is_read = TRUE]

Read(n) == [note[n] EXCEPT !.is_read = TRUE, !.active = FALSE]
Invalidated(n) == [note[n] EXCEPT !.st = "invalid", !.active = FALSE]
Emptied(n) == [note[n] EXCEPT !.st = "invalid", !.active = FALSE, !.actor_count = 0]

\* A run of the callback: its writes, all from the state it read.
Run(t, notes, edges, counters, keys, reply) ==
    /\ now < MaxRuns /\ now' = now + 1
    /\ pc' = [pc EXCEPT ![t] = "open"]
    /\ draft' = [draft EXCEPT ![t] = [note |-> notes, edge |-> edges, state |-> counters,
                                      keys |-> keys, reply |-> reply]]
    /\ UNCHANGED <<note, edge, state, ask, seen>>

Overlay(f, g) == [d \in DOMAIN g |-> IF d \in DOMAIN f THEN f[d] ELSE g[d]]

Conflict(d, c) ==
    \/ DOMAIN d.note \cap DOMAIN c.note # {}
    \/ DOMAIN d.edge \cap DOMAIN c.edge # {}
    \/ DOMAIN d.state \cap DOMAIN c.state # {}
    \/ d.keys \cap c.keys # {}

\* An aborted transaction is run again, a read-all one for the same request.
Restart(t) == IF ask[t].who = NoUser THEN "idle" ELSE "asked"

\* The commit; open transactions that wrote one of its documents abort.
Commit(t) ==
    LET loser(x) == x # t /\ pc[x] = "open" /\ Conflict(draft[x], draft[t]) IN
    /\ pc[t] = "open"
    /\ note' = Overlay(draft[t].note, note)
    /\ edge' = Overlay(draft[t].edge, edge)
    /\ state' = Overlay(draft[t].state, state)
    /\ pc' = [x \in Txn |-> IF x = t THEN "committed" ELSE IF loser(x) THEN Restart(x) ELSE pc[x]]
    /\ draft' = [x \in Txn |-> IF x = t THEN [NoDraft EXCEPT !.reply = draft[t].reply]
                               ELSE IF loser(x) THEN NoDraft ELSE draft[x]]
    /\ UNCHANGED <<ask, seen, now>>

\* After the commit the counters it left are emitted; a client shows the
\* counter with the highest version it has met.
Deliver(t) ==
    LET reply == draft[t].reply IN
    /\ pc[t] = "committed"
    /\ seen' = [r \in User |-> IF r \in DOMAIN reply /\ reply[r].version > seen[r].version
                               THEN reply[r] ELSE seen[r]]
    /\ pc' = [pc EXCEPT ![t] = "idle"]
    /\ draft' = [draft EXCEPT ![t] = NoDraft]
    /\ ask' = [ask EXCEPT ![t] = NoAsk]
    /\ UNCHANGED <<note, edge, state, now>>

\* The caller crashes, its callback throws, or the emission fails.
Lost(t) ==
    /\ pc[t] # "idle"
    /\ pc' = [pc EXCEPT ![t] = "idle"]
    /\ draft' = [draft EXCEPT ![t] = NoDraft]
    /\ ask' = [ask EXCEPT ![t] = NoAsk]
    /\ UNCHANGED <<note, edge, state, seen, now>>

-----------------------------------------------------------------------------
(* The unread counter.                                                     *)

Of(r, S) == Cardinality({n \in S : Recipient[n] = r})
Recipients(S) == {Recipient[n] : n \in S}

\* The counter is clamped at zero.
Minus(i, j) == IF j > i THEN 0 ELSE i - j

\* increment by the notifications in up, decrement by those in down, one by one.
Adjusted(up, down) ==
    [r \in Recipients(up \cup down) |->
        [unread_count |-> Minus(state[r].unread_count + Of(r, up), Of(r, down)),
         version |-> state[r].version + Of(r, up) + Of(r, down)]]

\* Mutant: the update of the counter forgets the version.
AdjustedSilently(up, down) ==
    [r \in Recipients(up \cup down) |->
        [unread_count |-> Minus(state[r].unread_count + Of(r, up), Of(r, down)),
         version |-> state[r].version]]

\* One update for all, as read-all and the batch do.
AdjustedAtOnce(up, down) ==
    [r \in Recipients(up \cup down) |->
        [unread_count |-> Minus(state[r].unread_count + Of(r, up), Of(r, down)),
         version |-> state[r].version + 1]]

-----------------------------------------------------------------------------
(* Individual notifications.                                               *)

\* Mutant: the upsert sets the document instead of only inserting it.
PersistAnew(t, C, D) ==
    LET counters == Adjusted({n \in C : ~Unread(n)}, {n \in D : Unread(n)}) IN
    /\ pc[t] = "idle" /\ C \cap D = {}
    /\ \A n \in D : note[n].st = "valid"
    /\ Run(t, [n \in C \cup D |-> IF n \in C THEN Fresh(FALSE) ELSE Invalidated(n)],
           Nothing, counters, {}, counters)

\* createIndividualNotification for the keys in C that are absent (inserted)
\* or invalid (reactivated), and, as TweetMentionsChanged does in the same
\* transaction, invalidateByDeduplicationKey for the valid ones in D.  For the
\* other keys of an event the two write nothing.
Persist(t, C, D) ==
    LET counters == Adjusted(C, {n \in D : Unread(n)}) IN
    /\ pc[t] = "idle"
    /\ \A n \in C : note[n].st # "valid"
    /\ \A n \in D : note[n].st = "valid"
    /\ Run(t, [n \in C \cup D |-> IF n \in C THEN Fresh(FALSE) ELSE Invalidated(n)],
           Nothing, counters, {}, counters)

\* createIndividualNotificationsBatch: only absent keys are created.
PersistBatch(t, C) ==
    LET counters == AdjustedAtOnce(C, {}) IN
    /\ pc[t] = "idle"
    /\ \A n \in C : note[n].st = "absent"
    /\ Run(t, [n \in C |-> Fresh(FALSE)], Nothing, counters, {}, counters)

\* invalidateMatchingPage, and removeEdgesForInvalidated.
InvalidatePage(t, S) ==
    LET counters == Adjusted({}, {n \in S : Unread(n)}) IN
    /\ pc[t] = "idle"
    /\ \A n \in S : note[n].st = "valid"
    /\ Run(t, [n \in S |-> Invalidated(n)],
           [p \in {q \in Edge : q[1] \in S /\ edge[q] # NoSource} |-> NoSource],
           counters, {}, counters)

\* markAsRead; a notification that is read already is answered with the counter as it is.
MarkAsRead(t, n) ==
    LET hit == {m \in {n} : Unread(m)}
        counters == Adjusted({}, hit) IN
    /\ pc[t] = "idle" /\ note[n].st # "absent"
    /\ Run(t, [m \in hit |-> Read(m)], Nothing, counters, {},
           IF hit # {} THEN counters ELSE [r \in {Recipient[n]} |-> state[r]])

\* NotificationService.markAllAsRead fixes the cut-off before its transaction.
RequestReadAll(t, r) ==
    /\ pc[t] = "idle"
    /\ now < MaxRuns /\ now' = now + 1
    /\ pc' = [pc EXCEPT ![t] = "asked"]
    /\ ask' = [ask EXCEPT ![t] = [who |-> r, at |-> now + 1,
                                  had |-> {n \in Note : Recipient[n] = r /\ Unread(n)}]]
    /\ UNCHANGED <<note, edge, state, draft, seen>>

MarkAllAsRead(t) ==
    LET r == ask[t].who
        hit == {n \in Note : Recipient[n] = r /\ Unread(n) /\ note[n].unread_since <= ask[t].at}
        counters == AdjustedAtOnce({}, hit) IN
    /\ pc[t] = "asked"
    /\ Run(t, [n \in hit |-> Read(n)], Nothing, counters, {},
           IF hit # {} THEN counters ELSE [u \in {r} |-> state[u]])

-----------------------------------------------------------------------------
(* Aggregates.                                                             *)

\* addActor without an open window: createWindow, which claims the key in the
\* unique index of open windows.
CreateWindow(t, s, x) ==
    LET counters == Adjusted({x}, {}) IN
    /\ pc[t] = "idle"
    /\ KeyOf[x] = SourceKey[s] /\ note[x].st = "absent"
    /\ \A y \in Window : KeyOf[y] = KeyOf[x] => ~Open(y)
    /\ Run(t, [n \in {x} |-> Fresh(TRUE)], [p \in {<<x, SourceActor[s]>>} |-> s],
           counters, {KeyOf[x]}, counters)

\* Mutant: the count is incremented instead of recounted.
JoinWindowIncrements(t, s, x) ==
    LET a == SourceActor[s] IN
    /\ pc[t] = "idle"
    /\ KeyOf[x] = SourceKey[s] /\ Open(x)
    /\ Run(t, [n \in {x} |-> [note[x] EXCEPT !.actor_count = @ + 1]],
           [p \in {<<x, a>>} |-> s], Nothing, {}, Nothing)

\* addActor with an open window: the edge is written, again for a later event of
\* the same relation, and the window refreshed.
JoinWindow(t, s, x) ==
    LET a == SourceActor[s] IN
    /\ pc[t] = "idle"
    /\ KeyOf[x] = SourceKey[s] /\ Open(x)
    /\ Run(t, [n \in {x} |-> [note[x] EXCEPT !.actor_count = Cardinality(ActorsOf(x) \cup {a})]],
           [p \in {<<x, a>>} |-> s], Nothing, {}, Nothing)

\* What is left of window x when the edges in P go.
Shrunk(x, P) ==
    LET left == {a \in ActorsOf(x) : <<x, a>> \notin P} IN
    IF left = {} THEN Emptied(x) ELSE [note[x] EXCEPT !.actor_count = Cardinality(left)]

\* Mutant: an emptied window counts as unread even if it was read.
RemoveEdgesBlind(t, P) ==
    LET hit == {p[1] : p \in P}
        counters == Adjusted({}, {x \in hit : ActorsOf(x) \subseteq {p[2] : p \in P}}) IN
    /\ pc[t] = "idle"
    /\ Run(t, [x \in hit |-> Shrunk(x, P)], [p \in P |-> NoSource], counters, {}, counters)

\* The edges in P go; a window that keeps none is invalidated.
RemoveEdges(t, P) ==
    LET hit == {p[1] : p \in P}
        counters == Adjusted({}, {x \in hit : ActorsOf(x) \subseteq {p[2] : p \in P} /\ Unread(x)}) IN
    /\ pc[t] = "idle"
    /\ Run(t, [x \in hit |-> Shrunk(x, P)], [p \in P |-> NoSource], counters, {}, counters)

\* removeActor: the edge of the relation, if its window is still open.
RemoveActor(t, s) ==
    \E p \in Edge : edge[p] = s /\ Open(p[1]) /\ RemoveEdges(t, {p})

\* removeActorFromNotification, for each window of a page with an edge of the
\* blocked actor a, or for each edge of a deleted repost: closed windows too.
RemoveActorFromNotifications(t, a, X) ==
    /\ \A x \in X : note[x].st = "valid" /\ edge[<<x, a>>] # NoSource
    /\ RemoveEdges(t, X \X {a})

-----------------------------------------------------------------------------
Step(t) ==
    \/ \E C, D \in SUBSET Individual : Persist(t, C, D)
    \/ \E C \in SUBSET Individual : PersistBatch(t, C)
    \/ \E S \in SUBSET Note : InvalidatePage(t, S)
    \/ \E n \in Note : MarkAsRead(t, n)
    \/ \E r \in User : RequestReadAll(t, r)
    \/ MarkAllAsRead(t)
    \/ \E s \in Source, x \in Window : CreateWindow(t, s, x) \/ JoinWindow(t, s, x)
    \/ \E s \in Source : RemoveActor(t, s)
    \/ \E a \in Actor, X \in SUBSET Window : RemoveActorFromNotifications(t, a, X)
    \/ Commit(t) \/ Deliver(t) \/ Lost(t)

Next == \E t \in Txn : Step(t)

Spec == Init /\ [][Next]_vars

-----------------------------------------------------------------------------
(* Properties.                                                             *)

\* The badge is exact: whatever creates, reads, invalidates, aggregates and
\* retries at once, the stored count is the number of unread notifications.
\* (The increments and decrements are spread over a dozen call sites, and the
\* clamp at zero would hide a missing one.)
UnreadCountExact ==
    \A r \in User : state[r].unread_count = Cardinality({n \in Note : Recipient[n] = r /\ Unread(n)})

\* A window's actor_count is the number of its edges, and an open or closed
\* window that is still shown has at least one.
ActorCountExact ==
    \A x \in Window : note[x].st = "valid" =>
        note[x].actor_count = Cardinality(ActorsOf(x)) /\ ActorsOf(x) # {}

\* Actors join at most one open window per key, and it is unread: what the
\* user has read is never changed under them by a later actor.
OneOpenWindow ==
    /\ \A x \in Window : Open(x) => Unread(x)
    /\ \A x, y \in Window : Open(x) /\ Open(y) /\ KeyOf[x] = KeyOf[y] => x = y

\* Emissions come in any order; a client that shows the current version shows
\* the current count, and never a version that was not committed.
BadgeAgrees ==
    \A r \in User : /\ seen[r].version <= state[r].version
                    /\ seen[r].version = state[r].version => seen[r].unread_count = state[r].unread_count

\* A notification becomes unread again only as a reactivation.
ReadStays ==
    [][\A n \in Note : note[n].st = "valid" /\ note[n].is_read /\ note'[n].st = "valid" => note'[n].is_read]_vars

\* Stated by the design, and not so (see the README): read-all spares what
\* arrives after the request.
ReadAllSparesLater ==
    [][\A t \in Txn : pc[t] = "open" /\ pc'[t] = "committed" /\ ask[t].who # NoUser
            => DOMAIN draft[t].note \subseteq ask[t].had]_vars

=============================================================================
