-------------------------- MODULE SocialAggregation --------------------------
(***************************************************************************)
(* The likes of one public tweet and the notification windows its author   *)
(* sees: TweetService.likeTweet and unlikeTweet change the relation and    *)
(* publish an event, and the workers handle the events in any order and    *)
(* several at once (evaluateTweetAggregation, addActor, removeActor).      *)
(* Reposts go the same way.                                                *)
(*                                                                         *)
(* A handler reads one snapshot; its writes and the mark of its event      *)
(* commit together (module Outbox), or are dropped when another            *)
(* transaction commits a write to one of its documents first.  The author  *)
(* is not an actor and nobody is blocked here.                             *)
(***************************************************************************)
EXTENDS Naturals, FiniteSets, FiniteSetsExt

CONSTANTS
    Actor, Source,  \* who likes; like relations, a new one for every like
    ActorOf,        \* the actor of each relation
    Worker,         \* jobs that the notification worker runs at once
    NoSource,
    MaxFails        \* bound on handlers that throw or crash

ASSUME SocialAssumption ==
    /\ IsFiniteSet(Source)
    /\ ActorOf \in [Source -> Actor]
    /\ NoSource \notin Source
    /\ MaxFails \in Nat

Window == 1..Cardinality(Source)   \* the notifications aggregating the likes

VARIABLES
    like,     \* the relation of each actor, if any
    pending,  \* published events not processed yet
    done,     \* processed events
    window,   \* what has become of each notification
    edge,     \* the notification_actors
    job,      \* the transaction each worker has open
    raced,    \* relations whose two events were being handled at the same time
    fails

vars == <<like, pending, done, window, edge, job, raced, fails>>

Event == Source \X {"liked", "unliked"}
Edge == Window \X Actor
Status == {"absent", "open", "closed", "removed"}

\* New values from T for some documents of S.
WritesTo(f, S, T) == DOMAIN f \subseteq S /\ f \in [DOMAIN f -> T]
Nothing == [d \in {} |-> 0]

Idle == [event |-> {}, edge |-> Nothing, window |-> Nothing, guard |-> FALSE]
IsJob(j) ==
    /\ j.event \subseteq Event /\ j.guard \in BOOLEAN
    /\ WritesTo(j.edge, Edge, Source \cup {NoSource})
    /\ WritesTo(j.window, Window, Status)

TypeOK ==
    /\ like \in [Actor -> Source \cup {NoSource}]
    /\ pending \subseteq Event /\ done \subseteq Event
    /\ window \in [Window -> Status]
    /\ edge \in [Edge -> Source \cup {NoSource}]
    /\ DOMAIN job = Worker /\ \A w \in Worker : IsJob(job[w])
    /\ raced \subseteq Source /\ fails \in 0..MaxFails

Init ==
    /\ like = [a \in Actor |-> NoSource]
    /\ pending = {} /\ done = {}
    /\ window = [x \in Window |-> "absent"]
    /\ edge = [p \in Edge |-> NoSource]
    /\ job = [w \in Worker |-> Idle]
    /\ raced = {} /\ fails = 0

-----------------------------------------------------------------------------
(* The relation and its events.                                            *)

\* likeTweet: the upsert creates a relation only if there is none.
Like(a, s) ==
    /\ ActorOf[s] = a /\ like[a] = NoSource
    /\ <<s, "liked">> \notin pending \cup done
    /\ like' = [like EXCEPT ![a] = s]
    /\ pending' = pending \cup {<<s, "liked">>}
    /\ UNCHANGED <<done, window, edge, job, raced, fails>>

\* unlikeTweet: an event only if the delete found a relation.
Unlike(a) ==
    /\ like[a] # NoSource
    /\ like' = [like EXCEPT ![a] = NoSource]
    /\ pending' = pending \cup {<<like[a], "unliked">>}
    /\ UNCHANGED <<done, window, edge, job, raced, fails>>

-----------------------------------------------------------------------------
(* The handlers.  Each runs in the transaction of its worker.              *)

\* Worker w has handled event e, with these writes not yet committed.
Handled(w, e, edges, windows, guard) ==
    /\ job[w] = Idle /\ e \in pending
    /\ job' = [job EXCEPT ![w] = [event |-> {e}, edge |-> edges, window |-> windows, guard |-> guard]]
    /\ UNCHANGED <<like, pending, done, window, edge, raced, fails>>

\* Mutant: the policy trusts the event.
SourceAssumed(s) == TRUE

\* The policy: the relation of the event is still there.
SourceExists(s) == like[ActorOf[s]] = s

\* Mutant: a like by an actor the window shows already is taken for a duplicate.
SkipLikedByKnownActor(w, s) ==
    /\ ~SourceExists(s) \/ \E x \in Window : window[x] = "open" /\ edge[<<x, ActorOf[s]>>] # NoSource
    /\ Handled(w, <<s, "liked">>, Nothing, Nothing, TRUE)

\* evaluateTweetAggregation: the guard of the tweet is touched, the relation gone.
SkipLiked(w, s) ==
    /\ ~SourceExists(s)
    /\ Handled(w, <<s, "liked">>, Nothing, Nothing, TRUE)

\* addActor without an open window: createWindow.
CreateWindow(w, s) ==
    LET x == Min({y \in Window : window[y] = "absent"}) IN
    /\ SourceExists(s) /\ \A y \in Window : window[y] # "open"
    /\ Handled(w, <<s, "liked">>, [p \in {<<x, ActorOf[s]>>} |-> s], [y \in {x} |-> "open"], TRUE)

\* Mutant: the edge is inserted without the window that counts it.
JoinUncounted(w, s, x) ==
    /\ SourceExists(s) /\ window[x] = "open" /\ edge[<<x, ActorOf[s]>>] = NoSource
    /\ Handled(w, <<s, "liked">>, [p \in {<<x, ActorOf[s]>>} |-> s], Nothing, TRUE)

\* addActor with one that does not show the actor: his edge is inserted, and
\* refreshWindow writes the new number of actors.
JoinWindow(w, s, x) ==
    /\ SourceExists(s) /\ window[x] = "open" /\ edge[<<x, ActorOf[s]>>] = NoSource
    /\ Handled(w, <<s, "liked">>, [p \in {<<x, ActorOf[s]>>} |-> s], [y \in {x} |-> "open"], TRUE)

\* addActor with one that shows the actor for an earlier like: the edge is
\* taken over.  refreshWindow moves updated_at and the preview forward, or sets
\* what they are already (a later like came first, or a clock of another
\* process), which is no write: X is what it writes, times being left out.
TakeOver(w, s, x) ==
    \E X \in {{x}, {}} :
        /\ SourceExists(s) /\ window[x] = "open" /\ edge[<<x, ActorOf[s]>>] # NoSource
        /\ Handled(w, <<s, "liked">>, [p \in {<<x, ActorOf[s]>>} |-> s], [y \in X |-> "open"], TRUE)

\* removeActor: no edge of the relation in an open window.
SkipUnliked(w, s) ==
    /\ ~\E x \in Window, a \in Actor : edge[<<x, a>>] = s /\ window[x] = "open"
    /\ Handled(w, <<s, "unliked">>, Nothing, Nothing, FALSE)

\* What becomes of window x when actor a leaves it.
Left(x, a) == IF \E b \in Actor \ {a} : edge[<<x, b>>] # NoSource THEN window[x] ELSE "removed"

\* Mutant: the edge of the actor goes, whatever relation it is for now.
RemoveActorAnySource(w, s, x) ==
    LET a == ActorOf[s] IN
    /\ edge[<<x, a>>] # NoSource /\ window[x] = "open"
    /\ Handled(w, <<s, "unliked">>, [p \in {<<x, a>>} |-> NoSource], [y \in {x} |-> Left(x, a)], FALSE)

\* removeActor: the edge goes, and the window with its last edge.
RemoveActor(w, s, x) ==
    LET a == ActorOf[s] IN
    /\ edge[<<x, a>>] = s /\ window[x] = "open"
    /\ Handled(w, <<s, "unliked">>, [p \in {<<x, a>>} |-> NoSource], [y \in {x} |-> Left(x, a)], FALSE)

Overlay(f, g) == [d \in DOMAIN g |-> IF d \in DOMAIN f THEN f[d] ELSE g[d]]

Conflict(i, j) ==
    \/ i.event \cap j.event # {}
    \/ i.guard /\ j.guard
    \/ DOMAIN i.edge \cap DOMAIN j.edge # {}
    \/ DOMAIN i.window \cap DOMAIN j.window # {}

\* Relations with an event in one and an event in the other transaction.
Common(i, j) == {e[1] : e \in i.event} \cap {e[1] : e \in j.event}

\* The commit: the event is processed, and the transactions in its way abort.
Commit(w) ==
    /\ job[w] # Idle
    /\ pending' = pending \ job[w].event
    /\ done' = done \cup job[w].event
    /\ window' = Overlay(job[w].window, window)
    /\ edge' = Overlay(job[w].edge, edge)
    /\ job' = [v \in Worker |-> IF v = w \/ Conflict(job[v], job[w]) THEN Idle ELSE job[v]]
    /\ raced' = raced \cup UNION {Common(job[v], job[w]) : v \in Worker \ {w}}
    /\ UNCHANGED <<like, fails>>

\* The handler throws or its process dies: the event stays for a retry.
Fail(w) ==
    /\ job[w] # Idle /\ fails < MaxFails
    /\ fails' = fails + 1
    /\ job' = [job EXCEPT ![w] = Idle]
    /\ UNCHANGED <<like, pending, done, window, edge, raced>>

\* The author reads the notification, which closes the window.
MarkAsRead(x) ==
    /\ window[x] = "open"
    /\ window' = [window EXCEPT ![x] = "closed"]
    /\ job' = [w \in Worker |-> IF x \in DOMAIN job[w].window THEN Idle ELSE job[w]]
    /\ UNCHANGED <<like, pending, done, edge, raced, fails>>

-----------------------------------------------------------------------------
Handle(w) ==
    \E s \in Source :
        \/ SkipLiked(w, s) \/ SkipUnliked(w, s) \/ CreateWindow(w, s)
        \/ \E x \in Window : JoinWindow(w, s, x) \/ TakeOver(w, s, x) \/ RemoveActor(w, s, x)

Next ==
    \/ \E a \in Actor : Unlike(a) \/ \E s \in Source : Like(a, s)
    \/ \E w \in Worker : Handle(w) \/ Commit(w) \/ Fail(w)
    \/ \E x \in Window : MarkAsRead(x)

Spec == Init /\ [][Next]_vars

\* A worker that is free takes a job that waits, and a handler comes to its end.
Fairness == \A w \in Worker : WF_vars(Handle(w)) /\ WF_vars(Commit(w))

FairSpec == Spec /\ Fairness

-----------------------------------------------------------------------------
(* Properties.                                                             *)

ShownIn(x, s) == edge[<<x, ActorOf[s]>>] = s

\* A like whose event was processed is in some window for as long as it
\* lasts, whatever undone likes of the same actor are handled meanwhile.
LikeShown ==
    \A s \in Source : SourceExists(s) /\ <<s, "liked">> \in done =>
        \E x \in Window : ShownIn(x, s) /\ window[x] \in {"open", "closed"}

\* A notification the author has read stays closed and keeps its actors,
\* whatever was being handled when it was read and whatever comes later.  Only
\* the like it shows of an actor may yet be replaced, by a later one of that
\* actor whose handler had found the window open (see the README).
ClosedFrozen ==
    [][\A x \in Window : window[x] = "closed" =>
        /\ window'[x] = "closed"
        /\ \A a \in Actor : edge'[<<x, a>>] # edge[<<x, a>>] =>
            /\ edge[<<x, a>>] # NoSource
            /\ \E s \in Source : ActorOf[s] = a /\ edge'[<<x, a>>] = s /\ <<s, "liked">> \in done' \ done]_vars

\* When both events of an undone like are processed no open window shows it,
\* in whatever order they were handled; but not if they were handled at the
\* same time (see the README).
UndoneNotShown ==
    \A s \in Source \ raced : {<<s, "liked">>, <<s, "unliked">>} \subseteq done =>
        \A x \in Window : window[x] = "open" => ~ShownIn(x, s)

\* In the end the windows agree with the likes, with the same exception.
Reconciled ==
    <>[](\A s \in Source :
            /\ SourceExists(s) => \E x \in Window : ShownIn(x, s)
            /\ ~SourceExists(s) /\ s \notin raced => \A x \in Window : window[x] = "open" => ~ShownIn(x, s))

=============================================================================
