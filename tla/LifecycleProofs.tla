--------------------------- MODULE LifecycleProofs ---------------------------
(***************************************************************************)
(* Proofs about notifications whose reason goes away: SocialAggregation,   *)
(* then BlockLifecycle as of MCBlockLifecycle, TweetMentions and, with it, *)
(* Media as of MCLifecycles.                                               *)
(*                                                                         *)
(* A handler decides on a snapshot and writes later; the invariant says of *)
(* every open transaction which part of the snapshot still holds.  It does *)
(* because a commit, or a reader, that would falsify it writes a document  *)
(* the transaction also writes (the edge, the window, the guard of the     *)
(* tweet or of the pair) and so makes it abort; and where none is shared,  *)
(* the relation counts as raced.                                           *)
(***************************************************************************)
EXTENDS SocialAggregation, MCBlockLifecycle, MCLifecycles, FiniteSetTheorems, WellFoundedInduction, TLAPS

\* The four transactions a handler may leave open.
Ignoring(s) == [event |-> {<<s, "liked">>}, edge |-> Nothing, window |-> Nothing, guard |-> TRUE]
Showing(s, x, X) == [event |-> {<<s, "liked">>}, edge |-> [p \in {<<x, ActorOf[s]>>} |-> s],
                     window |-> [y \in X |-> "open"], guard |-> TRUE]
Passing(s) == [event |-> {<<s, "unliked">>}, edge |-> Nothing, window |-> Nothing, guard |-> FALSE]
Removing(s, x, st) == [event |-> {<<s, "unliked">>}, edge |-> [p \in {<<x, ActorOf[s]>>} |-> NoSource],
                       window |-> [y \in {x} |-> st], guard |-> FALSE]

\* And what is true while it is open.  A like found undone stays undone.
IgnoreReady(t) ==
    \E s \in Source : t = Ignoring(s) /\ <<s, "liked">> \in pending /\ ~SourceExists(s)

\* The window written, if it is, has not been read meanwhile; one that is not
\* may have been, but shows the actor as before.
Showable(s, x, X) ==
    \/ X = {x} /\ window[x] \in {"absent", "open"}
    \/ X = {} /\ window[x] \in {"open", "closed"} /\ edge[<<x, ActorOf[s]>>] # NoSource

\* No later like of the actor has been shown, and the undoing of this one has
\* not been processed alone.
ShowReady(t) ==
    \E s \in Source, x \in Window, X \in SUBSET Window :
        /\ t = Showing(s, x, X) /\ <<s, "liked">> \in pending /\ Showable(s, x, X)
        /\ <<s, "unliked">> \in done => s \in raced
        /\ \A r \in Source : ActorOf[r] = ActorOf[s] /\ SourceExists(r) => <<r, "liked">> \notin done

\* No open window has come to show the like meanwhile.
PassReady(t) ==
    \E s \in Source :
        /\ t = Passing(s) /\ <<s, "unliked">> \in pending
        /\ s \in raced \/ \A x \in Window : window[x] = "open" => ~ShownIn(x, s)

\* The window that goes shows nobody else.
RemoveReady(t) ==
    \E s \in Source, x \in Window, st \in {"open", "removed"} :
        /\ t = Removing(s, x, st) /\ <<s, "unliked">> \in pending
        /\ window[x] = "open" /\ ShownIn(x, s)
        /\ st = "removed" => \A b \in Actor \ {ActorOf[s]} : edge[<<x, b>>] = NoSource

ReadyTx(t) == t = Idle \/ IgnoreReady(t) \/ ShowReady(t) \/ PassReady(t) \/ RemoveReady(t)

Ready == DOMAIN job = Worker /\ \A w \in Worker : ReadyTx(job[w])

\* The events of a relation: it is liked once and undone after that.
Logged ==
    /\ pending \cap done = {}
    /\ \A a \in Actor : like[a] # NoSource => ActorOf[like[a]] = a
    /\ \A s \in Source : SourceExists(s) =>
        <<s, "liked">> \in pending \cup done /\ <<s, "unliked">> \notin pending \cup done
    /\ \A s \in Source : <<s, "unliked">> \in pending \cup done => <<s, "liked">> \in pending \cup done

\* A relation is shown once, after its like was processed.
Edges ==
    /\ \A x \in Window, a \in Actor : window[x] = "absent" => edge[<<x, a>>] = NoSource
    /\ \A x \in Window, s \in Source : ShownIn(x, s) => <<s, "liked">> \in done
    /\ \A x, y \in Window, s \in Source : ShownIn(x, s) /\ ShownIn(y, s) => x = y

\* There is a window left for every like still to come.
Made == {x \in Window : window[x] # "absent"}
LikedDone == {s \in Source : <<s, "liked">> \in done}
Room == Cardinality(Made) <= Cardinality(LikedDone)

Typed ==
    /\ like \in [Actor -> Source \cup {NoSource}]
    /\ pending \subseteq Event /\ done \subseteq Event
    /\ window \in [Window -> Status] /\ edge \in [Edge -> Source \cup {NoSource}]
    /\ raced \subseteq Source /\ fails \in 0..MaxFails

IInv == Typed /\ Ready /\ Logged /\ Edges /\ Room /\ LikeShown /\ UndoneNotShown


-----------------------------------------------------------------------------
(* A window to create: every one made so far was made for a like of its    *)
(* own, so that there is one left.                                         *)

LEMMA Least ==
    ASSUME NEW S \in SUBSET Nat, S # {}
    PROVE  \E x \in S : \A y \in S : x <= y
<1> DEFINE R == OpToRel(<, Nat)
<1>1. IsWellFoundedOn(R, Nat)
    BY NatLessThanWellFounded
<1>2. R = {ss \in Nat \X Nat : ss[1] < ss[2]}
    BY DEF OpToRel
<1> HIDE DEF R
<1>3. PICK x \in S : \A y \in S : ~(<<y, x>> \in R)
    BY <1>1, WFMin
<1>4. ASSUME NEW y \in S PROVE x <= y
    <2>1. ~(<<y, x>> \in R) /\ x \in Nat /\ y \in Nat
        BY <1>3
    <2>2. y < x => <<y, x>> \in R
        BY <1>2, <2>1
    <2> QED BY <2>1, <2>2
<1> QED BY <1>4

LEMMA Sizes ==
    /\ Cardinality(Source) \in Nat /\ Window \subseteq Nat
    /\ IsFiniteSet(Window) /\ Cardinality(Window) = Cardinality(Source)
<1>1. Cardinality(Source) \in Nat
    BY SocialAssumption, FS_CardinalityType
<1>2. IsFiniteSet(Window) /\ Cardinality(Window) = Cardinality(Source)
    BY <1>1, FS_Interval DEF Window
<1> QED BY <1>1, <1>2 DEF Window

LEMMA Counted ==
    /\ IsFiniteSet(Made) /\ Cardinality(Made) \in Nat
    /\ IsFiniteSet(LikedDone) /\ Cardinality(LikedDone) \in Nat
<1>1. IsFiniteSet(Made)
    BY Sizes, FS_Subset DEF Made
<1>2. IsFiniteSet(LikedDone)
    BY SocialAssumption, FS_Subset DEF LikedDone
<1> QED BY <1>1, <1>2, FS_CardinalityType

LEMMA NextWindow ==
    ASSUME Room, Logged, NEW s \in Source, <<s, "liked">> \in pending
    PROVE  LET x == Min({y \in Window : window[y] = "absent"}) IN x \in Window /\ window[x] = "absent"
<1> DEFINE A == {y \in Window : window[y] = "absent"}
<1>1. A # {}
    <2> SUFFICES ASSUME A = {} PROVE FALSE
        OBVIOUS
    <2>1. Made = Window
        BY DEF Made
    <2>2. LikedDone \subseteq Source \ {s}
        BY DEF LikedDone, Logged
    <2>3. IsFiniteSet(Source \ {s}) /\ Cardinality(Source \ {s}) = Cardinality(Source) - 1
        BY SocialAssumption, FS_RemoveElement
    <2>4. Cardinality(LikedDone) <= Cardinality(Source \ {s})
        BY <2>2, <2>3, FS_Subset
    <2> QED BY <2>1, <2>3, <2>4, Sizes, Counted DEF Room
<1>2. PICK x \in A : \A y \in A : x <= y
    BY <1>1, Least, Sizes
<1>3. Min(A) \in A
    BY <1>2 DEF Min
<1> QED BY <1>3

-----------------------------------------------------------------------------
(* What handlers leave open.                                               *)

LEMMA JobTyped ==
    ASSUME NEW t, ReadyTx(t)
    PROVE  IsJob(t)
<1>1. CASE t = Idle
    BY <1>1 DEF Idle, IsJob, WritesTo, Nothing
<1>2. CASE IgnoreReady(t)
    BY <1>2 DEF IgnoreReady, Ignoring, IsJob, WritesTo, Nothing, Event
<1>3. CASE ShowReady(t)
    <2>1. PICK s \in Source, x \in Window, X \in SUBSET Window : t = Showing(s, x, X)
        BY <1>3 DEF ShowReady
    <2>2. <<x, ActorOf[s]>> \in Edge /\ <<s, "liked">> \in Event
        BY SocialAssumption DEF Edge, Event
    <2> QED BY <2>1, <2>2 DEF Showing, IsJob, WritesTo, Status
<1>4. CASE PassReady(t)
    BY <1>4 DEF PassReady, Passing, IsJob, WritesTo, Nothing, Event
<1>5. CASE RemoveReady(t)
    <2>1. PICK s \in Source, x \in Window, st \in {"open", "removed"} : t = Removing(s, x, st)
        BY <1>5 DEF RemoveReady
    <2>2. <<x, ActorOf[s]>> \in Edge /\ <<s, "unliked">> \in Event
        BY SocialAssumption DEF Edge, Event
    <2> QED BY <2>1, <2>2 DEF Removing, IsJob, WritesTo, Status
<1> QED BY <1>1, <1>2, <1>3, <1>4, <1>5 DEF ReadyTx

LEMMA Typing == IInv => TypeOK
<1> SUFFICES ASSUME IInv PROVE TypeOK
    OBVIOUS
<1>1. \A w \in Worker : IsJob(job[w])
    BY JobTyped DEF IInv, Ready
<1> QED BY <1>1 DEF IInv, Typed, Ready, TypeOK

\* A handler opens one of them.
LEMMA Opened ==
    ASSUME IInv, NEW w \in Worker, Handle(w)
    PROVE  /\ \E t : ReadyTx(t) /\ job' = [job EXCEPT ![w] = t]
           /\ UNCHANGED <<like, pending, done, window, edge, raced, fails>>
<1> USE DEF IInv
<1>1. PICK s \in Source :
        \/ SkipLiked(w, s)
        \/ SkipUnliked(w, s)
        \/ CreateWindow(w, s)
        \/ \E x \in Window : JoinWindow(w, s, x) \/ TakeOver(w, s, x) \/ RemoveActor(w, s, x)
    BY DEF Handle
<1>2. CASE SkipLiked(w, s)
    <2>1. IgnoreReady(Ignoring(s))
        BY <1>2 DEF SkipLiked, Handled, IgnoreReady
    <2> QED BY <1>2, <2>1 DEF SkipLiked, Handled, ReadyTx, Ignoring
<1>3. CASE SkipUnliked(w, s)
    <2>1. \A x \in Window : window[x] = "open" => ~ShownIn(x, s)
        BY <1>3, SocialAssumption DEF SkipUnliked, ShownIn
    <2>2. PassReady(Passing(s))
        BY <1>3, <2>1 DEF SkipUnliked, Handled, PassReady
    <2> QED BY <1>3, <2>2 DEF SkipUnliked, Handled, ReadyTx, Passing
<1>4. ASSUME NEW x \in Window, NEW X \in SUBSET Window, <<s, "liked">> \in pending, SourceExists(s),
             Showable(s, x, X)
      PROVE  ReadyTx(Showing(s, x, X))
    <2>1. <<s, "unliked">> \notin done
        BY <1>4 DEF Logged
    <2>2. ASSUME NEW r \in Source, ActorOf[r] = ActorOf[s], SourceExists(r) PROVE <<r, "liked">> \notin done
        BY <1>4, <2>2 DEF SourceExists, Logged
    <2> QED BY <1>4, <2>1, <2>2 DEF ShowReady, ReadyTx
<1>5. CASE CreateWindow(w, s)
    <2> DEFINE x == Min({y \in Window : window[y] = "absent"})
    <2>1. <<s, "liked">> \in pending /\ SourceExists(s)
        BY <1>5 DEF CreateWindow, Handled
    <2>2. x \in Window /\ window[x] = "absent"
        BY <2>1, NextWindow
    <2>3. ReadyTx(Showing(s, x, {x}))
        BY <1>4, <2>1, <2>2 DEF Showable
    <2> QED BY <1>5, <2>3 DEF CreateWindow, Handled, Showing
<1>6. ASSUME NEW x \in Window, JoinWindow(w, s, x)
      PROVE  /\ \E t : ReadyTx(t) /\ job' = [job EXCEPT ![w] = t]
             /\ UNCHANGED <<like, pending, done, window, edge, raced, fails>>
    <2>1. ReadyTx(Showing(s, x, {x}))
        BY <1>4, <1>6 DEF JoinWindow, Handled, Showable
    <2> QED BY <1>6, <2>1 DEF JoinWindow, Handled, Showing
<1>8. ASSUME NEW x \in Window, TakeOver(w, s, x)
      PROVE  /\ \E t : ReadyTx(t) /\ job' = [job EXCEPT ![w] = t]
             /\ UNCHANGED <<like, pending, done, window, edge, raced, fails>>
    <2>1. PICK X \in {{x}, {}} :
            /\ SourceExists(s) /\ window[x] = "open" /\ edge[<<x, ActorOf[s]>>] # NoSource
            /\ Handled(w, <<s, "liked">>, [p \in {<<x, ActorOf[s]>>} |-> s], [y \in X |-> "open"], TRUE)
        BY <1>8 DEF TakeOver
    <2>2. ReadyTx(Showing(s, x, X))
        BY <1>4, <2>1 DEF Handled, Showable
    <2> QED BY <2>1, <2>2 DEF Handled, Showing
<1>7. ASSUME NEW x \in Window, RemoveActor(w, s, x)
      PROVE  /\ \E t : ReadyTx(t) /\ job' = [job EXCEPT ![w] = t]
             /\ UNCHANGED <<like, pending, done, window, edge, raced, fails>>
    <2> DEFINE st == Left(x, ActorOf[s])
    <2>1. <<s, "unliked">> \in pending /\ ShownIn(x, s) /\ window[x] = "open"
        BY <1>7 DEF RemoveActor, Handled, ShownIn
    <2>2. st \in {"open", "removed"} /\ (st = "removed" => \A b \in Actor \ {ActorOf[s]} : edge[<<x, b>>] = NoSource)
        BY <2>1 DEF Left
    <2>3. RemoveReady(Removing(s, x, st))
        BY <2>1, <2>2 DEF RemoveReady
    <2> QED BY <1>7, <2>3 DEF RemoveActor, Handled, ReadyTx, Removing
<1> QED BY <1>1, <1>2, <1>3, <1>5, <1>6, <1>7, <1>8

-----------------------------------------------------------------------------
(* The relation changes; open transactions and what is shown stay true.    *)

LEMMA AllReady ==
    ASSUME DOMAIN job' = Worker, \A v \in Worker : \E t : job'[v] = t /\ ReadyTx(t)'
    PROVE  Ready'
<1>1. ASSUME NEW v \in Worker PROVE ReadyTx(job[v])'
    <2>1. PICK t : job'[v] = t /\ ReadyTx(t)'
        OBVIOUS
    <2>2. IgnoreReady(t)' => IgnoreReady(job[v])'
        BY <2>1, Zenon DEF IgnoreReady
    <2>3. ShowReady(t)' => ShowReady(job[v])'
        BY <2>1, Zenon DEF ShowReady
    <2>4. PassReady(t)' => PassReady(job[v])'
        BY <2>1, Zenon DEF PassReady
    <2>5. RemoveReady(t)' => RemoveReady(job[v])'
        BY <2>1, Zenon DEF RemoveReady
    <2>6. (t = Idle)' => (job[v] = Idle)'
        BY <2>1 DEF Idle
    <2> QED BY <2>1, <2>2, <2>3, <2>4, <2>5, <2>6, Zenon DEF ReadyTx
<1> QED BY <1>1 DEF Ready

\* Nothing it depends on has changed.
LEMMA Rests ==
    ASSUME NEW t, ReadyTx(t), UNCHANGED <<like, pending, done, window, edge, raced>>
    PROVE  ReadyTx(t)'
<1>1. IgnoreReady(t) => IgnoreReady(t)'
    BY DEF IgnoreReady, SourceExists
<1>2. ShowReady(t) => ShowReady(t)'
    BY DEF ShowReady, Showable, SourceExists
<1>3. PassReady(t) => PassReady(t)'
    BY DEF PassReady, ShownIn
<1>4. RemoveReady(t) => RemoveReady(t)'
    BY DEF RemoveReady, ShownIn
<1> QED BY <1>1, <1>2, <1>3, <1>4 DEF ReadyTx

LEMMA LikeReady ==
    ASSUME IInv, NEW a \in Actor, NEW s \in Source, Like(a, s), NEW t, ReadyTx(t)
    PROVE  ReadyTx(t)'
<1> USE DEF Like, SourceExists, ShownIn, IInv, Typed
<1>1. ASSUME NEW r \in Source, r # s PROVE SourceExists(r)' => SourceExists(r)
    BY <1>1, SocialAssumption
<1>2. CASE t = Idle
    BY <1>2 DEF ReadyTx
<1>3. CASE IgnoreReady(t)
    BY <1>3, <1>1 DEF ReadyTx, IgnoreReady
<1>4. CASE ShowReady(t)
    <2>1. PICK r \in Source, x \in Window, X \in SUBSET Window :
            /\ t = Showing(r, x, X) /\ <<r, "liked">> \in pending /\ Showable(r, x, X)
            /\ <<r, "unliked">> \in done => r \in raced
            /\ \A q \in Source : ActorOf[q] = ActorOf[r] /\ SourceExists(q) => <<q, "liked">> \notin done
        BY <1>4 DEF ShowReady
    <2>2. ASSUME NEW q \in Source, ActorOf[q] = ActorOf[r], SourceExists(q)' PROVE <<q, "liked">> \notin done
        BY <2>1, <2>2, <1>1
    <2> QED BY <2>1, <2>2 DEF ReadyTx, ShowReady, Showable
<1>5. CASE PassReady(t)
    BY <1>5 DEF ReadyTx, PassReady
<1>6. CASE RemoveReady(t)
    BY <1>6 DEF ReadyTx, RemoveReady
<1> QED BY <1>2, <1>3, <1>4, <1>5, <1>6 DEF ReadyTx

LEMMA UnlikeReady ==
    ASSUME IInv, NEW a \in Actor, Unlike(a), NEW t, ReadyTx(t)
    PROVE  ReadyTx(t)'
<1> USE DEF Unlike, SourceExists, ShownIn, IInv, Typed
<1>1. ASSUME NEW r \in Source PROVE SourceExists(r)' => SourceExists(r)
    BY SocialAssumption
<1>2. CASE t = Idle
    BY <1>2 DEF ReadyTx
<1>3. CASE IgnoreReady(t)
    BY <1>3, <1>1 DEF ReadyTx, IgnoreReady
<1>4. CASE ShowReady(t)
    <2>1. PICK r \in Source, x \in Window, X \in SUBSET Window :
            /\ t = Showing(r, x, X) /\ <<r, "liked">> \in pending /\ Showable(r, x, X)
            /\ <<r, "unliked">> \in done => r \in raced
            /\ \A q \in Source : ActorOf[q] = ActorOf[r] /\ SourceExists(q) => <<q, "liked">> \notin done
        BY <1>4 DEF ShowReady
    <2>2. ASSUME NEW q \in Source, ActorOf[q] = ActorOf[r], SourceExists(q)' PROVE <<q, "liked">> \notin done
        BY <2>1, <2>2, <1>1
    <2> QED BY <2>1, <2>2 DEF ReadyTx, ShowReady, Showable
<1>5. CASE PassReady(t)
    BY <1>5 DEF ReadyTx, PassReady
<1>6. CASE RemoveReady(t)
    BY <1>6 DEF ReadyTx, RemoveReady
<1> QED BY <1>2, <1>3, <1>4, <1>5, <1>6 DEF ReadyTx

LEMMA SameRoom ==
    ASSUME Room, UNCHANGED <<window, done>>
    PROVE  Room'
BY DEF Room, Made, LikedDone

\* likeTweet.
LEMMA LikeInv ==
    ASSUME IInv, NEW a \in Actor, NEW s \in Source, Like(a, s)
    PROVE  IInv'
<1> USE DEF IInv
<1>1. Typed'
    BY DEF Like, Typed, Event
<1>2. Ready'
    <2>1. \A v \in Worker : \E t : job'[v] = t /\ ReadyTx(t)'
        BY LikeReady DEF Ready, Like
    <2> QED BY <2>1, AllReady DEF Ready, Like
<1>3. ASSUME NEW r \in Source, r # s PROVE SourceExists(r)' => SourceExists(r)
    BY <1>3, SocialAssumption DEF SourceExists, Like, Typed
<1>4. Logged'
    <2>1. (pending \cap done = {})'
        BY DEF Like, Logged
    <2>2. (\A b \in Actor : like[b] # NoSource => ActorOf[like[b]] = b)'
        BY DEF Like, Logged, Typed
    <2>3. <<s, "unliked">> \notin (pending \cup done)'
        BY DEF Like, Logged
    <2>4. (\A r \in Source : SourceExists(r) =>
              <<r, "liked">> \in pending \cup done /\ <<r, "unliked">> \notin pending \cup done)'
        BY <1>3, <2>3 DEF Like, Logged
    <2>5. (\A r \in Source : <<r, "unliked">> \in pending \cup done => <<r, "liked">> \in pending \cup done)'
        BY DEF Like, Logged
    <2> QED BY <2>1, <2>2, <2>4, <2>5 DEF Logged
<1>5. Edges'
    BY DEF Like, Edges, ShownIn
<1>6. Room'
    BY SameRoom DEF Like
<1>7. LikeShown'
    <2>1. ASSUME NEW r \in Source, SourceExists(r)', <<r, "liked">> \in done
          PROVE  \E x \in Window : ShownIn(x, r) /\ window[x] \in {"open", "closed"}
        <3>1. r # s
            BY <2>1 DEF Like
        <3> QED BY <3>1, <2>1, <1>3 DEF LikeShown
    <2> QED BY <2>1 DEF LikeShown, ShownIn, Like
<1>8. UndoneNotShown'
    BY DEF Like, UndoneNotShown, ShownIn
<1> QED BY <1>1, <1>2, <1>4, <1>5, <1>6, <1>7, <1>8

\* unlikeTweet.
LEMMA UnlikeInv ==
    ASSUME IInv, NEW a \in Actor, Unlike(a)
    PROVE  IInv'
<1> USE DEF IInv
<1>1. like[a] \in Source /\ ActorOf[like[a]] = a /\ SourceExists(like[a])
    BY DEF Unlike, Typed, Logged, SourceExists
<1>2. Typed'
    BY <1>1 DEF Unlike, Typed, Event
<1>3. Ready'
    <2>1. \A v \in Worker : \E t : job'[v] = t /\ ReadyTx(t)'
        BY UnlikeReady DEF Ready, Unlike
    <2> QED BY <2>1, AllReady DEF Ready, Unlike
<1>4. ASSUME NEW r \in Source, SourceExists(r)' PROVE SourceExists(r) /\ r # like[a]
    BY <1>1, <1>4, SocialAssumption DEF SourceExists, Unlike, Typed
<1>5. Logged'
    <2>1. (pending \cap done = {})'
        BY <1>1 DEF Unlike, Logged
    <2>2. (\A b \in Actor : like[b] # NoSource => ActorOf[like[b]] = b)'
        BY DEF Unlike, Logged, Typed
    <2>3. (\A r \in Source : SourceExists(r) =>
              <<r, "liked">> \in pending \cup done /\ <<r, "unliked">> \notin pending \cup done)'
        BY <1>4 DEF Unlike, Logged
    <2>4. (\A r \in Source : <<r, "unliked">> \in pending \cup done => <<r, "liked">> \in pending \cup done)'
        BY <1>1 DEF Unlike, Logged
    <2> QED BY <2>1, <2>2, <2>3, <2>4 DEF Logged
<1>6. Edges'
    BY DEF Unlike, Edges, ShownIn
<1>7. Room'
    BY SameRoom DEF Unlike
<1>8. LikeShown'
    BY <1>4 DEF LikeShown, ShownIn, Unlike
<1>9. UndoneNotShown'
    BY DEF Unlike, UndoneNotShown, ShownIn
<1> QED BY <1>2, <1>3, <1>5, <1>6, <1>7, <1>8, <1>9

-----------------------------------------------------------------------------
(* A handler starts or fails, the author reads.                            *)

LEMMA HandleInv ==
    ASSUME IInv, NEW w \in Worker, Handle(w)
    PROVE  IInv'
<1> USE DEF IInv
<1>1. PICK t : ReadyTx(t) /\ job' = [job EXCEPT ![w] = t]
    BY Opened
<1>2. UNCHANGED <<like, pending, done, window, edge, raced, fails>>
    BY Opened
<1>3. Ready'
    <2>1. \A v \in Worker : job'[v] = t \/ job'[v] = job[v]
        BY <1>1 DEF Ready
    <2>2. \A v \in Worker : \E i : job'[v] = i /\ ReadyTx(i)'
        BY <2>1, <1>1, <1>2, Rests DEF Ready
    <2> QED BY <2>2, <1>1, AllReady DEF Ready
<1> QED BY <1>2, <1>3, SameRoom
        DEF Typed, Logged, Edges, LikeShown, UndoneNotShown, SourceExists, ShownIn

LEMMA FailInv ==
    ASSUME IInv, NEW w \in Worker, Fail(w)
    PROVE  IInv'
<1> USE DEF IInv
<1>1. Ready'
    <2>1. \A v \in Worker : job'[v] = Idle \/ job'[v] = job[v]
        BY DEF Ready, Fail
    <2>2. ReadyTx(Idle)
        BY DEF ReadyTx
    <2>3. \A v \in Worker : \E i : job'[v] = i /\ ReadyTx(i)'
        BY <2>1, <2>2, Rests DEF Ready, Fail
    <2> QED BY <2>3, AllReady DEF Ready, Fail
<1>2. fails' \in 0..MaxFails
    BY SocialAssumption DEF Fail, Typed
<1>3. UNCHANGED <<like, pending, done, window, edge, raced>>
    BY DEF Fail
<1>4. Typed'
    BY <1>2, <1>3 DEF Typed
<1>5. (Logged /\ Edges /\ LikeShown /\ UndoneNotShown)'
    BY <1>3 DEF Logged, Edges, LikeShown, UndoneNotShown, SourceExists, ShownIn
<1>6. Room'
    BY <1>3, SameRoom
<1> QED BY <1>1, <1>4, <1>5, <1>6

LEMMA ReadReady ==
    ASSUME IInv, NEW x \in Window, MarkAsRead(x), NEW t, ReadyTx(t), x \notin DOMAIN t.window
    PROVE  ReadyTx(t)'
<1> USE DEF MarkAsRead, SourceExists, ShownIn, IInv, Typed
<1>1. \A y \in Window : y # x => window'[y] = window[y]
    OBVIOUS
<1>2. CASE t = Idle
    BY <1>2 DEF ReadyTx
<1>3. CASE IgnoreReady(t)
    BY <1>3 DEF ReadyTx, IgnoreReady
<1>4. CASE ShowReady(t)
    <2>1. PICK s \in Source, y \in Window, X \in SUBSET Window :
            /\ t = Showing(s, y, X) /\ <<s, "liked">> \in pending /\ Showable(s, y, X)
            /\ <<s, "unliked">> \in done => s \in raced
            /\ \A r \in Source : ActorOf[r] = ActorOf[s] /\ SourceExists(r) => <<r, "liked">> \notin done
        BY <1>4 DEF ShowReady
    <2>2. DOMAIN t.window = X
        BY <2>1 DEF Showing
    <2>3. Showable(s, y, X)'
        BY <1>1, <2>1, <2>2 DEF Showable
    <2> QED BY <2>1, <2>3 DEF ReadyTx, ShowReady
<1>5. CASE PassReady(t)
    BY <1>5 DEF ReadyTx, PassReady
<1>6. CASE RemoveReady(t)
    <2>1. PICK s \in Source, y \in Window, st \in {"open", "removed"} :
            /\ t = Removing(s, y, st) /\ <<s, "unliked">> \in pending
            /\ window[y] = "open" /\ ShownIn(y, s)
            /\ st = "removed" => \A b \in Actor \ {ActorOf[s]} : edge[<<y, b>>] = NoSource
        BY <1>6 DEF RemoveReady
    <2>2. DOMAIN t.window = {y}
        BY <2>1 DEF Removing
    <2> QED BY <1>1, <2>1, <2>2 DEF ReadyTx, RemoveReady
<1> QED BY <1>2, <1>3, <1>4, <1>5, <1>6 DEF ReadyTx

LEMMA ReadInv ==
    ASSUME IInv, NEW x \in Window, MarkAsRead(x)
    PROVE  IInv'
<1> USE DEF IInv
<1>1. Typed'
    BY DEF MarkAsRead, Typed, Status
<1>2. Ready'
    <2>1. ReadyTx(Idle)'
        BY DEF ReadyTx
    <2>2. ASSUME NEW v \in Worker PROVE \E t : job'[v] = t /\ ReadyTx(t)'
        <3>1. CASE x \in DOMAIN job[v].window
            BY <2>1, <3>1 DEF MarkAsRead
        <3>2. CASE x \notin DOMAIN job[v].window
            BY <3>2, ReadReady DEF MarkAsRead, Ready
        <3> QED BY <3>1, <3>2
    <2> QED BY <2>2, AllReady DEF MarkAsRead
<1>3. Logged'
    BY DEF MarkAsRead, Logged, SourceExists
<1>4. \A y \in Window : window'[y] = IF y = x THEN "closed" ELSE window[y]
    BY DEF MarkAsRead, Typed
<1>5. Edges'
    BY <1>4 DEF MarkAsRead, Edges, ShownIn
<1>6. Made' = Made /\ LikedDone' = LikedDone
    BY <1>4 DEF MarkAsRead, Made, LikedDone
<1>7. Room'
    BY <1>6 DEF Room
<1>8. LikeShown'
    <2>1. ASSUME NEW r \in Source, SourceExists(r), <<r, "liked">> \in done
          PROVE  \E y \in Window : ShownIn(y, r) /\ window'[y] \in {"open", "closed"}
        BY <2>1, <1>4 DEF LikeShown
    <2> QED BY <2>1 DEF MarkAsRead, LikeShown, SourceExists, ShownIn
<1>9. UndoneNotShown'
    BY <1>4 DEF MarkAsRead, UndoneNotShown, ShownIn
<1> QED BY <1>1, <1>2, <1>3, <1>5, <1>7, <1>8, <1>9

-----------------------------------------------------------------------------
(* A transaction commits: what it does to the documents, to the events and *)
(* to the other transactions.                                              *)

\* The end of event e, which is about relation s.
Ends(w, s, e) ==
    /\ e \in pending /\ pending' = pending \ {e} /\ done' = done \cup {e}
    /\ UNCHANGED <<like, fails>>
    /\ raced \subseteq raced' /\ raced' \subseteq raced \cup {s}
    /\ DOMAIN job' = Worker
    /\ \A v \in Worker :
        /\ job'[v] = Idle \/ (v # w /\ job'[v] = job[v] /\ ~Conflict(job[v], job[w]))
        /\ job'[v] # Idle /\ <<s, "liked">> \in job[v].event => s \in raced'
        /\ job'[v] # Idle /\ <<s, "unliked">> \in job[v].event => s \in raced'

Updates(x, a, r, st) ==
    /\ \A y \in Window : window'[y] = IF y = x THEN st ELSE window[y]
    /\ \A y \in Window, b \in Actor :
        edge'[<<y, b>>] = IF y = x /\ b = a THEN r ELSE edge[<<y, b>>]

LEMMA CommitEnds ==
    ASSUME Typed, Ready, NEW w \in Worker, Commit(w), NEW s \in Source,
           NEW e \in {<<s, "liked">>, <<s, "unliked">>}, e \in pending, job[w].event = {e}
    PROVE  Ends(w, s, e)
<1>1. pending' = pending \ {e} /\ done' = done \cup {e} /\ UNCHANGED <<like, fails>>
    BY DEF Commit
<1>2. ASSUME NEW v \in Worker \ {w} PROVE Common(job[v], job[w]) \subseteq {s}
    BY DEF Common
<1>3. raced \subseteq raced' /\ raced' \subseteq raced \cup {s}
    BY <1>2 DEF Commit
<1>4. DOMAIN job' = Worker
    BY DEF Commit
<1>5. ASSUME NEW v \in Worker
      PROVE  /\ job'[v] = Idle \/ (v # w /\ job'[v] = job[v] /\ ~Conflict(job[v], job[w]))
             /\ job'[v] # Idle /\ <<s, "liked">> \in job[v].event => s \in raced'
             /\ job'[v] # Idle /\ <<s, "unliked">> \in job[v].event => s \in raced'
    <2>1. job'[v] = Idle \/ (v # w /\ job'[v] = job[v] /\ ~Conflict(job[v], job[w]))
        BY DEF Commit
    <2>2. ASSUME NEW k \in {"liked", "unliked"}, v # w, <<s, k>> \in job[v].event PROVE s \in raced'
        <3>1. s \in Common(job[v], job[w])
            BY <2>2 DEF Common
        <3> QED BY <2>2, <3>1 DEF Commit
    <2> QED BY <2>1, <2>2
<1> QED BY <1>1, <1>3, <1>4, <1>5 DEF Ends

\* A transaction that writes nothing but the event.
LEMMA CommitNothing ==
    ASSUME Typed, NEW w \in Worker, Commit(w), job[w].edge = Nothing, job[w].window = Nothing
    PROVE  UNCHANGED <<window, edge>>
BY DEF Typed, Commit, Overlay, Nothing

LEMMA CommitWrites ==
    ASSUME Typed, NEW w \in Worker, Commit(w), NEW x \in Window, NEW a \in Actor,
           NEW r \in Source \cup {NoSource}, NEW st \in Status,
           DOMAIN job[w].edge = {<<x, a>>}, job[w].edge[<<x, a>>] = r,
           DOMAIN job[w].window = {x}, job[w].window[x] = st
    PROVE  Updates(x, a, r, st) /\ window' \in [Window -> Status] /\ edge' \in [Edge -> Source \cup {NoSource}]
<1>1. window' = [y \in Window |-> IF y = x THEN st ELSE window[y]]
    BY DEF Commit, Overlay, Typed
<1>2. edge' = [p \in Edge |-> IF p = <<x, a>> THEN r ELSE edge[p]]
    BY DEF Commit, Overlay, Typed
<1>3. ASSUME NEW y \in Window, NEW b \in Actor
      PROVE  edge'[<<y, b>>] = IF y = x /\ b = a THEN r ELSE edge[<<y, b>>]
    BY <1>2 DEF Edge
<1>4. edge' \in [Edge -> Source \cup {NoSource}]
    BY <1>2 DEF Typed
<1>5. window' \in [Window -> Status]
    BY <1>1 DEF Typed
<1> QED BY <1>1, <1>3, <1>4, <1>5 DEF Updates

\* Or one that writes an edge only.
LEMMA CommitEdge ==
    ASSUME Typed, NEW w \in Worker, Commit(w), NEW x \in Window, NEW a \in Actor, NEW r \in Source,
           DOMAIN job[w].edge = {<<x, a>>}, job[w].edge[<<x, a>>] = r, DOMAIN job[w].window = {}
    PROVE  Updates(x, a, r, window[x]) /\ window' = window /\ edge' \in [Edge -> Source \cup {NoSource}]
<1>1. window' = window
    BY DEF Commit, Overlay, Typed
<1>2. edge' = [p \in Edge |-> IF p = <<x, a>> THEN r ELSE edge[p]]
    BY DEF Commit, Overlay, Typed
<1>3. ASSUME NEW y \in Window, NEW b \in Actor
      PROVE  edge'[<<y, b>>] = IF y = x /\ b = a THEN r ELSE edge[<<y, b>>]
    BY <1>2 DEF Edge
<1>4. edge' \in [Edge -> Source \cup {NoSource}]
    BY <1>2 DEF Typed
<1> QED BY <1>1, <1>3, <1>4 DEF Updates

\* The three ways a commit goes: nothing is written, a like is shown, an undone
\* like is removed.
Passes(w, s, e) ==
    /\ Ends(w, s, e) /\ UNCHANGED <<window, edge>>
    /\ e = <<s, "liked">> => ~SourceExists(s)
    /\ e = <<s, "unliked">> => s \in raced \/ \A x \in Window : window[x] = "open" => ~ShownIn(x, s)
Shows(w, s, x, X, st) ==
    /\ Ends(w, s, <<s, "liked">>) /\ Updates(x, ActorOf[s], s, st)
    /\ job[w] = Showing(s, x, X) /\ Showable(s, x, X) /\ st = IF X = {x} THEN "open" ELSE window[x]
    /\ <<s, "unliked">> \in done => s \in raced
    /\ \A r \in Source : ActorOf[r] = ActorOf[s] /\ SourceExists(r) => <<r, "liked">> \notin done
Removes(w, s, x, st) ==
    /\ Ends(w, s, <<s, "unliked">>) /\ Updates(x, ActorOf[s], NoSource, st)
    /\ job[w] = Removing(s, x, st) /\ window[x] = "open" /\ ShownIn(x, s)
    /\ st = "removed" => \A b \in Actor \ {ActorOf[s]} : edge[<<x, b>>] = NoSource

LEMMA Committed ==
    ASSUME IInv, NEW w \in Worker, Commit(w)
    PROVE  /\ window' \in [Window -> Status] /\ edge' \in [Edge -> Source \cup {NoSource}]
           /\ \/ \E s \in Source : \E e \in {<<s, "liked">>, <<s, "unliked">>} :
                    Passes(w, s, e) /\ job[w] \in {Ignoring(s), Passing(s)} /\ job[w].event = {e}
              \/ \E s \in Source, x \in Window, X \in SUBSET Window, st \in Status : Shows(w, s, x, X, st)
              \/ \E s \in Source, x \in Window, st \in {"open", "removed"} : Removes(w, s, x, st)
<1> USE DEF IInv
<1>1. ReadyTx(job[w]) /\ job[w] # Idle
    BY DEF Ready, Commit
<1>2. CASE IgnoreReady(job[w])
    <2>1. PICK s \in Source : job[w] = Ignoring(s) /\ <<s, "liked">> \in pending /\ ~SourceExists(s)
        BY <1>2 DEF IgnoreReady
    <2>2. job[w].event = {<<s, "liked">>} /\ job[w].edge = Nothing /\ job[w].window = Nothing
        BY <2>1 DEF Ignoring
    <2>3. Ends(w, s, <<s, "liked">>) /\ UNCHANGED <<window, edge>>
        BY <2>1, <2>2, CommitEnds, CommitNothing
    <2> QED BY <2>1, <2>2, <2>3 DEF Passes, Typed
<1>3. CASE ShowReady(job[w])
    <2>1. PICK s \in Source, x \in Window, X \in SUBSET Window :
            /\ job[w] = Showing(s, x, X) /\ <<s, "liked">> \in pending /\ Showable(s, x, X)
            /\ <<s, "unliked">> \in done => s \in raced
            /\ \A r \in Source : ActorOf[r] = ActorOf[s] /\ SourceExists(r) => <<r, "liked">> \notin done
        BY <1>3 DEF ShowReady
    <2>2. /\ job[w].event = {<<s, "liked">>}
          /\ DOMAIN job[w].edge = {<<x, ActorOf[s]>>} /\ job[w].edge[<<x, ActorOf[s]>>] = s
          /\ DOMAIN job[w].window = X /\ (x \in X => job[w].window[x] = "open")
        BY <2>1 DEF Showing
    <2>3. Ends(w, s, <<s, "liked">>)
        BY <2>1, <2>2, CommitEnds
    <2>4. ActorOf[s] \in Actor /\ "open" \in Status /\ window \in [Window -> Status]
        BY SocialAssumption DEF Status, Typed
    <2> DEFINE st == IF X = {x} THEN "open" ELSE window[x]
    <2>5. /\ Updates(x, ActorOf[s], s, st)
          /\ window' \in [Window -> Status] /\ edge' \in [Edge -> Source \cup {NoSource}]
        <3>1. CASE X = {x}
            BY <2>2, <2>4, <3>1, CommitWrites
        <3>2. CASE X = {}
            BY <2>2, <2>4, <3>2, CommitEdge
        <3> QED BY <2>1, <3>1, <3>2 DEF Showable
    <2>6. st \in Status
        BY <2>4
    <2> QED BY <2>1, <2>3, <2>5, <2>6 DEF Shows
<1>4. CASE PassReady(job[w])
    <2>1. PICK s \in Source :
            /\ job[w] = Passing(s) /\ <<s, "unliked">> \in pending
            /\ s \in raced \/ \A x \in Window : window[x] = "open" => ~ShownIn(x, s)
        BY <1>4 DEF PassReady
    <2>2. job[w].event = {<<s, "unliked">>} /\ job[w].edge = Nothing /\ job[w].window = Nothing
        BY <2>1 DEF Passing
    <2>3. Ends(w, s, <<s, "unliked">>) /\ UNCHANGED <<window, edge>>
        BY <2>1, <2>2, CommitEnds, CommitNothing
    <2> QED BY <2>1, <2>2, <2>3 DEF Passes, Typed
<1>5. CASE RemoveReady(job[w])
    <2>1. PICK s \in Source, x \in Window, st \in {"open", "removed"} :
            /\ job[w] = Removing(s, x, st) /\ <<s, "unliked">> \in pending
            /\ window[x] = "open" /\ ShownIn(x, s)
            /\ st = "removed" => \A b \in Actor \ {ActorOf[s]} : edge[<<x, b>>] = NoSource
        BY <1>5 DEF RemoveReady
    <2>2. /\ job[w].event = {<<s, "unliked">>}
          /\ DOMAIN job[w].edge = {<<x, ActorOf[s]>>} /\ job[w].edge[<<x, ActorOf[s]>>] = NoSource
          /\ DOMAIN job[w].window = {x} /\ job[w].window[x] = st
        BY <2>1 DEF Removing
    <2>3. Ends(w, s, <<s, "unliked">>)
        BY <2>1, <2>2, CommitEnds
    <2>4. ActorOf[s] \in Actor /\ st \in Status
        BY SocialAssumption DEF Status
    <2>5. /\ Updates(x, ActorOf[s], NoSource, st)
          /\ window' \in [Window -> Status] /\ edge' \in [Edge -> Source \cup {NoSource}]
        BY <2>2, <2>4, CommitWrites
    <2> QED BY <2>1, <2>3, <2>5 DEF Removes
<1> QED BY <1>1, <1>2, <1>3, <1>4, <1>5 DEF ReadyTx

-----------------------------------------------------------------------------
(* The invariant after each of the three.                                  *)

LEMMA EndsLogged ==
    ASSUME Typed, Logged, NEW w \in Worker, NEW s \in Source,
           NEW e \in {<<s, "liked">>, <<s, "unliked">>}, Ends(w, s, e)
    PROVE  /\ Logged'
           /\ UNCHANGED <<like, fails>> /\ pending' \subseteq Event /\ done' \subseteq Event /\ raced' \subseteq Source
           /\ \A r \in Source : SourceExists(r)' <=> SourceExists(r)
<1>1. e \in Event
    BY DEF Event
<1>2. pending' \cup done' = pending \cup done /\ pending' \cap done' = {}
    BY DEF Ends, Logged
<1>3. \A r \in Source : SourceExists(r)' <=> SourceExists(r)
    BY DEF Ends, SourceExists
<1>4. Logged'
    BY <1>2, <1>3 DEF Ends, Logged
<1> QED BY <1>1, <1>3, <1>4 DEF Ends, Typed

\* Windows made and likes processed.
LEMMA EndsRoom ==
    ASSUME Room, NEW w \in Worker, NEW s \in Source,
           NEW e \in {<<s, "liked">>, <<s, "unliked">>}, Ends(w, s, e), Made' = Made
    PROVE  Room'
<1>1. LikedDone \subseteq LikedDone'
    BY DEF LikedDone, Ends
<1>2. IsFiniteSet(LikedDone')
    BY SocialAssumption, FS_Subset DEF LikedDone
<1>3. Cardinality(LikedDone) <= Cardinality(LikedDone')
    BY <1>1, <1>2, FS_Subset
<1>4. Cardinality(LikedDone') \in Nat
    BY <1>2, FS_CardinalityType
<1> QED BY <1>3, <1>4, Counted DEF Room

LEMMA ShowsRoom ==
    ASSUME Room, Logged, NEW w \in Worker, NEW s \in Source, NEW x \in Window, NEW X, NEW st, Shows(w, s, x, X, st)
    PROVE  Room'
<1>1. LikedDone' = LikedDone \cup {s} /\ s \notin LikedDone
    BY DEF LikedDone, Shows, Ends, Logged
<1>2. Cardinality(LikedDone') = Cardinality(LikedDone) + 1
    BY <1>1, Counted, FS_AddElement
<1>3. Made' = Made \cup {x}
    BY DEF Made, Shows, Updates, Showable
<1>4. Cardinality(Made \cup {x}) = IF x \in Made THEN Cardinality(Made) ELSE Cardinality(Made) + 1
    BY Counted, FS_AddElement
<1> QED BY <1>2, <1>3, <1>4, Counted DEF Room

\* What the transactions hold.
LEMMA Fields ==
    /\ \A s : Ignoring(s).event = {<<s, "liked">>}
    /\ \A s : Passing(s).event = {<<s, "unliked">>}
    /\ \A s, x, X : /\ Showing(s, x, X).event = {<<s, "liked">>} /\ DOMAIN Showing(s, x, X).window = X
                    /\ DOMAIN Showing(s, x, X).edge = {<<x, ActorOf[s]>>}
    /\ \A s, x, st : /\ Removing(s, x, st).event = {<<s, "unliked">>} /\ DOMAIN Removing(s, x, st).window = {x}
                     /\ DOMAIN Removing(s, x, st).edge = {<<x, ActorOf[s]>>}
BY DEF Ignoring, Passing, Showing, Removing

LEMMA Guarded ==
    ASSUME NEW t, NEW s, NEW x, NEW X
    PROVE  (t = Ignoring(s) => t.guard) /\ (t = Showing(s, x, X) => t.guard)
BY DEF Ignoring, Showing

\* Another transaction, t of worker v, that the commit has not made abort.
LEMMA PassesReady ==
    ASSUME IInv, NEW w \in Worker, NEW s \in Source,
           NEW e \in {<<s, "liked">>, <<s, "unliked">>}, Passes(w, s, e), job[w].event = {e},
           job[w] \in {Ignoring(s), Passing(s)},
           NEW v \in Worker, job'[v] = job[v], job[v] # Idle, ~Conflict(job[v], job[w]),
           NEW t, t = job[v]
    PROVE  ReadyTx(t)'
<1>1. ReadyTx(t)
    BY DEF IInv, Ready
<1>2. e \notin t.event
    BY DEF Conflict
<1>0. /\ like' = like /\ window' = window /\ edge' = edge /\ raced \subseteq raced'
      /\ pending' = pending \ {e} /\ done' = done \cup {e} /\ e \in pending
      /\ e = <<s, "liked">> => ~SourceExists(s)
      /\ <<s, "liked">> \in t.event \/ <<s, "unliked">> \in t.event => s \in raced'
    BY DEF Passes, Ends
<1>9. \A q \in Source : SourceExists(q)' = SourceExists(q)
    BY <1>0 DEF SourceExists
<1>3. CASE IgnoreReady(t)
    <2>1. PICK r \in Source : t = Ignoring(r) /\ <<r, "liked">> \in pending /\ ~SourceExists(r)
        BY <1>3 DEF IgnoreReady
    <2>2. <<r, "liked">> # e
        BY <1>2, <2>1, Fields
    <2> QED BY <1>0, <1>9, <2>1, <2>2 DEF ReadyTx, IgnoreReady
<1>4. CASE ShowReady(t)
    <2>1. PICK r \in Source, x \in Window, X \in SUBSET Window :
            /\ t = Showing(r, x, X) /\ <<r, "liked">> \in pending /\ Showable(r, x, X)
            /\ <<r, "unliked">> \in done => r \in raced
            /\ \A q \in Source : ActorOf[q] = ActorOf[r] /\ SourceExists(q) => <<q, "liked">> \notin done
        BY <1>4 DEF ShowReady
    <2>2. <<r, "liked">> # e /\ <<r, "liked">> \in t.event
        BY <1>2, <2>1, Fields
    <2>3. <<r, "unliked">> \in done' => r \in raced'
        BY <1>0, <2>1, <2>2
    <2>4. ASSUME NEW q \in Source, ActorOf[q] = ActorOf[r], SourceExists(q) PROVE <<q, "liked">> \notin done'
        <3>1. e # <<q, "liked">>
            BY <1>0, <2>4
        <3> QED BY <1>0, <2>1, <2>4, <3>1
    <2>5. Showable(r, x, X)'
        BY <1>0, <2>1 DEF Showable
    <2> QED BY <1>0, <1>9, <2>1, <2>2, <2>3, <2>4, <2>5 DEF ReadyTx, ShowReady
<1>5. CASE PassReady(t)
    <2>1. PICK r \in Source :
            /\ t = Passing(r) /\ <<r, "unliked">> \in pending
            /\ r \in raced \/ \A x \in Window : window[x] = "open" => ~ShownIn(x, r)
        BY <1>5 DEF PassReady
    <2>2. <<r, "unliked">> # e
        BY <1>2, <2>1, Fields
    <2> QED BY <1>0, <2>1, <2>2 DEF ReadyTx, PassReady, ShownIn
<1>6. CASE RemoveReady(t)
    <2>1. PICK r \in Source, x \in Window, st \in {"open", "removed"} :
            /\ t = Removing(r, x, st) /\ <<r, "unliked">> \in pending
            /\ window[x] = "open" /\ ShownIn(x, r)
            /\ st = "removed" => \A b \in Actor \ {ActorOf[r]} : edge[<<x, b>>] = NoSource
        BY <1>6 DEF RemoveReady
    <2>2. <<r, "unliked">> # e
        BY <1>2, <2>1, Fields
    <2> QED BY <1>0, <2>1, <2>2 DEF ReadyTx, RemoveReady, ShownIn
<1> QED BY <1>1, <1>3, <1>4, <1>5, <1>6 DEF ReadyTx

LEMMA ShowsReady ==
    ASSUME IInv, NEW w \in Worker, NEW s \in Source, NEW x \in Window, NEW X, NEW st, Shows(w, s, x, X, st),
           NEW v \in Worker, job'[v] = job[v], job[v] # Idle, ~Conflict(job[v], job[w]),
           NEW t, t = job[v]
    PROVE  ReadyTx(t)'
<1>1. ReadyTx(t)
    BY DEF IInv, Ready
<1>2. ~t.guard /\ X \cap DOMAIN t.window = {} /\ <<x, ActorOf[s]>> \notin DOMAIN t.edge
    <2>1. job[w].guard /\ DOMAIN job[w].window = X /\ DOMAIN job[w].edge = {<<x, ActorOf[s]>>}
        <3>1. job[w] = Showing(s, x, X)
            BY DEF Shows
        <3>2. job[w].guard
            BY <3>1, Guarded, Zenon
        <3> QED BY <3>1, <3>2, Fields
    <2> QED BY <2>1 DEF Conflict
<1>3. ~IgnoreReady(t) /\ ~ShowReady(t)
    BY <1>2, Guarded, Zenon DEF IgnoreReady, ShowReady
<1>0. /\ raced \subseteq raced' /\ pending' = pending \ {<<s, "liked">>}
      /\ Updates(x, ActorOf[s], s, st) /\ Showable(s, x, X) /\ st = IF X = {x} THEN "open" ELSE window[x]
      /\ <<s, "unliked">> \in t.event => s \in raced'
    BY DEF Shows, Ends
<1>4. CASE PassReady(t)
    <2>1. PICK r \in Source :
            /\ t = Passing(r) /\ <<r, "unliked">> \in pending
            /\ r \in raced \/ \A y \in Window : window[y] = "open" => ~ShownIn(y, r)
        BY <1>4 DEF PassReady
    <2>2. r = s => r \in raced'
        BY <1>0, <2>1, Fields
    <2>3. ASSUME r \notin raced', NEW y \in Window, window'[y] = "open", edge'[<<y, ActorOf[r]>>] = r PROVE FALSE
        <3>1. r # s /\ ActorOf[r] \in Actor
            BY <1>0, <2>2, <2>3, SocialAssumption
        <3>2. edge[<<y, ActorOf[r]>>] = r
            BY <1>0, <2>3, <3>1 DEF Updates
        <3>3. window[y] # "open"
            BY <1>0, <2>1, <2>3, <3>2 DEF ShownIn
        <3>4. window[y] = "absent"
            BY <1>0, <2>3, <3>3 DEF Updates, Showable
        <3> QED BY <3>1, <3>2, <3>4, SocialAssumption DEF IInv, Edges
    <2> QED BY <1>0, <2>1, <2>3 DEF ReadyTx, PassReady, ShownIn
<1>5. CASE RemoveReady(t)
    <2>1. PICK r \in Source, y \in Window, z \in {"open", "removed"} :
            /\ t = Removing(r, y, z) /\ <<r, "unliked">> \in pending
            /\ window[y] = "open" /\ ShownIn(y, r)
            /\ z = "removed" => \A b \in Actor \ {ActorOf[r]} : edge[<<y, b>>] = NoSource
        BY <1>5 DEF RemoveReady
    <2>2. y \notin X /\ (y # x \/ ActorOf[r] # ActorOf[s])
        BY <1>2, <2>1, Fields
    <2>3. ActorOf[r] \in Actor /\ ActorOf[s] \in Actor
        BY SocialAssumption
    <2>4. edge'[<<y, ActorOf[r]>>] = r
        BY <1>0, <2>1, <2>2, <2>3 DEF ShownIn, Updates
    <2>5. window'[y] = "open"
        BY <1>0, <2>1, <2>2 DEF Updates, Showable
    <2>6. z = "removed" => \A b \in Actor \ {ActorOf[r]} : edge'[<<y, b>>] = NoSource
        <3>1. CASE y # x
            BY <1>0, <2>1, <3>1 DEF Updates
        <3>2. CASE y = x
            BY <1>0, <2>1, <2>2, <2>3, <3>2 DEF Showable
        <3> QED BY <3>1, <3>2
    <2> QED BY <1>0, <2>1, <2>4, <2>5, <2>6 DEF ReadyTx, RemoveReady, ShownIn
<1> QED BY <1>1, <1>3, <1>4, <1>5 DEF ReadyTx

LEMMA RemovesReady ==
    ASSUME IInv, NEW w \in Worker, NEW s \in Source, NEW x \in Window, NEW st \in {"open", "removed"},
           Removes(w, s, x, st),
           NEW v \in Worker, job'[v] = job[v], job[v] # Idle, ~Conflict(job[v], job[w]),
           NEW t, t = job[v]
    PROVE  ReadyTx(t)'
<1>1. ReadyTx(t)
    BY DEF IInv, Ready
<1>2. <<s, "unliked">> \notin t.event /\ x \notin DOMAIN t.window /\ <<x, ActorOf[s]>> \notin DOMAIN t.edge
    <2>1. /\ job[w].event = {<<s, "unliked">>} /\ x \in DOMAIN job[w].window
          /\ <<x, ActorOf[s]>> \in DOMAIN job[w].edge
        BY Fields DEF Removes
    <2> QED BY <2>1 DEF Conflict
<1>0. /\ like' = like /\ raced \subseteq raced' /\ Updates(x, ActorOf[s], NoSource, st)
      /\ pending' = pending \ {<<s, "unliked">>} /\ done' = done \cup {<<s, "unliked">>}
      /\ window[x] = "open"
      /\ st = "removed" => \A b \in Actor \ {ActorOf[s]} : edge[<<x, b>>] = NoSource
      /\ <<s, "liked">> \in t.event => s \in raced'
    BY DEF Removes, Ends
<1>3. CASE IgnoreReady(t)
    BY <1>0, <1>3 DEF ReadyTx, IgnoreReady, SourceExists
<1>4. CASE ShowReady(t)
    <2>1. PICK r \in Source, y \in Window, X \in SUBSET Window :
            /\ t = Showing(r, y, X) /\ <<r, "liked">> \in pending /\ Showable(r, y, X)
            /\ <<r, "unliked">> \in done => r \in raced
            /\ \A q \in Source : ActorOf[q] = ActorOf[r] /\ SourceExists(q) => <<q, "liked">> \notin done
        BY <1>4 DEF ShowReady
    <2>2. x \notin X /\ (y # x \/ ActorOf[r] # ActorOf[s]) /\ <<r, "liked">> \in t.event
        BY <1>2, <2>1, Fields
    <2>3. <<r, "unliked">> \in done' => r \in raced'
        BY <1>0, <2>1, <2>2
    <2>4. Showable(r, y, X)'
        <3>1. ActorOf[r] \in Actor
            BY SocialAssumption
        <3>2. CASE X = {y}
            BY <1>0, <2>1, <2>2, <3>2 DEF Showable, Updates
        <3>3. CASE X = {}
            <4>1. edge'[<<y, ActorOf[r]>>] = edge[<<y, ActorOf[r]>>]
                BY <1>0, <2>2, <3>1 DEF Updates
            <4>2. y = x => st = "open"
                BY <1>0, <2>1, <2>2, <3>1, <3>3 DEF Showable
            <4>3. window'[y] = window[y]
                BY <1>0, <4>2 DEF Updates
            <4> QED BY <2>1, <3>3, <4>1, <4>3 DEF Showable
        <3> QED BY <2>1, <3>2, <3>3 DEF Showable
    <2> QED BY <1>0, <2>1, <2>3, <2>4 DEF ReadyTx, ShowReady, SourceExists
<1>5. CASE PassReady(t)
    <2>1. PICK r \in Source :
            /\ t = Passing(r) /\ <<r, "unliked">> \in pending
            /\ r \in raced \/ \A y \in Window : window[y] = "open" => ~ShownIn(y, r)
        BY <1>5 DEF PassReady
    <2>2. <<r, "unliked">> \in pending'
        BY <1>0, <1>2, <2>1, Fields
    <2>3. ASSUME r \notin raced, NEW y \in Window, window'[y] = "open", edge'[<<y, ActorOf[r]>>] = r PROVE FALSE
        <3>1. ActorOf[r] \in Actor /\ r # NoSource
            BY SocialAssumption
        <3>2. edge[<<y, ActorOf[r]>>] = r
            BY <1>0, <2>3, <3>1 DEF Updates
        <3>3. window[y] = "open"
            BY <1>0, <2>3 DEF Updates
        <3> QED BY <1>0, <2>1, <2>3, <3>2, <3>3 DEF ShownIn
    <2> QED BY <1>0, <2>1, <2>2, <2>3 DEF ReadyTx, PassReady, ShownIn
<1>6. CASE RemoveReady(t)
    <2>1. PICK r \in Source, y \in Window, z \in {"open", "removed"} :
            /\ t = Removing(r, y, z) /\ <<r, "unliked">> \in pending
            /\ window[y] = "open" /\ ShownIn(y, r)
            /\ z = "removed" => \A b \in Actor \ {ActorOf[r]} : edge[<<y, b>>] = NoSource
        BY <1>6 DEF RemoveReady
    <2>2. y # x /\ <<r, "unliked">> \in pending'
        BY <1>0, <1>2, <2>1, Fields
    <2>3. window'[y] = window[y] /\ \A b \in Actor : edge'[<<y, b>>] = edge[<<y, b>>]
        BY <1>0, <2>2 DEF Updates
    <2>4. edge'[<<y, ActorOf[r]>>] = r
        BY <1>0, <2>1, <2>3, SocialAssumption DEF ShownIn
    <2> QED BY <1>0, <2>1, <2>2, <2>3, <2>4 DEF ReadyTx, RemoveReady, ShownIn
<1> QED BY <1>1, <1>3, <1>4, <1>5, <1>6 DEF ReadyTx

-----------------------------------------------------------------------------
(* What is shown after each of the three.                                  *)

LEMMA PassesShown ==
    ASSUME IInv, NEW w \in Worker, NEW s \in Source,
           NEW e \in {<<s, "liked">>, <<s, "unliked">>}, Passes(w, s, e)
    PROVE  Edges' /\ Room' /\ LikeShown' /\ UndoneNotShown'
<1>0. /\ like' = like /\ window' = window /\ edge' = edge /\ raced \subseteq raced'
      /\ done' = done \cup {e} /\ e \in pending
      /\ e = <<s, "liked">> => ~SourceExists(s)
      /\ e = <<s, "unliked">> => s \in raced \/ \A x \in Window : window[x] = "open" => ~ShownIn(x, s)
    BY DEF Passes, Ends
<1>1. (\A q \in Source : SourceExists(q)' = SourceExists(q)) /\ (\A q \in Source, x \in Window : ShownIn(x, q)' = ShownIn(x, q))
    BY <1>0 DEF SourceExists, ShownIn
<1>2. Edges'
    BY <1>0, <1>1 DEF IInv, Edges
<1>3. Room'
    <2>1. Made' = Made
        BY <1>0 DEF Made
    <2> QED BY <2>1, EndsRoom DEF IInv, Passes
<1>4. LikeShown'
    <2>1. ASSUME NEW q \in Source, SourceExists(q), <<q, "liked">> \in done'
          PROVE  \E x \in Window : ShownIn(x, q) /\ window[x] \in {"open", "closed"}
        <3>1. <<q, "liked">> \in done
            BY <1>0, <2>1
        <3> QED BY <2>1, <3>1 DEF IInv, LikeShown
    <2> QED BY <1>0, <1>1, <2>1 DEF LikeShown
<1>5. UndoneNotShown'
    <2>1. ASSUME NEW q \in Source \ raced', {<<q, "liked">>, <<q, "unliked">>} \subseteq done',
                 NEW x \in Window, window[x] = "open", ShownIn(x, q)
          PROVE  FALSE
        <3>1. <<q, "liked">> \in done /\ q \notin raced
            BY <1>0, <2>1 DEF IInv, Edges
        <3>2. <<q, "unliked">> # e
            BY <1>0, <2>1, <3>1
        <3>3. <<q, "unliked">> \in done
            BY <1>0, <2>1, <3>2
        <3> QED BY <2>1, <3>1, <3>3 DEF IInv, UndoneNotShown
    <2> QED BY <1>0, <1>1, <2>1 DEF UndoneNotShown
<1> QED BY <1>2, <1>3, <1>4, <1>5

LEMMA ShowsShown ==
    ASSUME IInv, NEW w \in Worker, NEW s \in Source, NEW x \in Window, NEW X, NEW st, Shows(w, s, x, X, st)
    PROVE  Edges' /\ Room' /\ LikeShown' /\ UndoneNotShown'
<1>0. /\ like' = like /\ raced \subseteq raced' /\ Updates(x, ActorOf[s], s, st)
      /\ done' = done \cup {<<s, "liked">>} /\ <<s, "liked">> \in pending /\ <<s, "liked">> \notin done
      /\ st \in {"open", "closed"} /\ (st = window[x] \/ window[x] = "absent")
      /\ <<s, "unliked">> \in done => s \in raced
      /\ \A r \in Source : ActorOf[r] = ActorOf[s] /\ SourceExists(r) => <<r, "liked">> \notin done
    BY DEF Shows, Showable, Ends, IInv, Logged
<1>a. ActorOf \in [Source -> Actor] /\ NoSource \notin Source
    BY SocialAssumption
<1>w. \A y \in Window : window'[y] = IF y = x THEN st ELSE window[y]
    BY <1>0 DEF Updates
<1>1. \A q \in Source : SourceExists(q)' = SourceExists(q)
    BY <1>0 DEF SourceExists
<1>2. \A q \in Source, y \in Window :
        ShownIn(y, q)' <=> IF y = x /\ ActorOf[q] = ActorOf[s] THEN q = s ELSE ShownIn(y, q)
    BY <1>0, <1>a DEF ShownIn, Updates
<1>3. \A y \in Window : ~ShownIn(y, s)
    BY <1>0 DEF IInv, Edges
<1>4. Edges'
    <2>1. \A y \in Window, a \in Actor : window'[y] = "absent" => edge'[<<y, a>>] = NoSource
        <3>1. \A y \in Window, a \in Actor : window[y] = "absent" => edge[<<y, a>>] = NoSource
            BY DEF IInv, Edges
        <3> QED BY <3>1, <1>0 DEF Updates
    <2>2. \A y \in Window, q \in Source : ShownIn(y, q)' => <<q, "liked">> \in done'
        BY <1>0, <1>2 DEF IInv, Edges
    <2>3. \A y, z \in Window, q \in Source : ShownIn(y, q)' /\ ShownIn(z, q)' => y = z
        <3>1. \A y, z \in Window, q \in Source : ShownIn(y, q) /\ ShownIn(z, q) => y = z
            BY DEF IInv, Edges
        <3>2. ASSUME NEW y \in Window, ShownIn(y, s)' PROVE y = x
            BY <1>2, <1>3, <3>2
        <3>3. ASSUME NEW y \in Window, NEW q \in Source, q # s, ShownIn(y, q)' PROVE ShownIn(y, q)
            BY <1>2, <3>3
        <3> QED BY <3>1, <3>2, <3>3
    <2> QED BY <2>1, <2>2, <2>3 DEF Edges
<1>5. Room'
    BY ShowsRoom DEF IInv
<1>6. LikeShown'
    <2>1. ASSUME NEW q \in Source, SourceExists(q), <<q, "liked">> \in done'
          PROVE  \E y \in Window : ShownIn(y, q)' /\ window'[y] \in {"open", "closed"}
        <3>1. CASE q = s
            BY <3>1, <1>0, <1>2, <1>w
        <3>2. CASE q # s
            <4>1. <<q, "liked">> \in done
                BY <1>0, <2>1, <3>2
            <4>2. ActorOf[q] # ActorOf[s]
                BY <1>0, <2>1, <4>1
            <4>3. PICK y \in Window : ShownIn(y, q) /\ window[y] \in {"open", "closed"}
                BY <2>1, <4>1 DEF IInv, LikeShown
            <4>4. ShownIn(y, q)'
                BY <1>2, <4>2, <4>3
            <4>5. window'[y] \in {"open", "closed"}
                BY <1>0, <1>w, <4>3
            <4> QED BY <4>4, <4>5
        <3> QED BY <3>1, <3>2
    <2> QED BY <1>1, <2>1 DEF LikeShown
<1>7. UndoneNotShown'
    <2>1. ASSUME NEW q \in Source \ raced', {<<q, "liked">>, <<q, "unliked">>} \subseteq done',
                 NEW y \in Window, window'[y] = "open", ShownIn(y, q)'
          PROVE  FALSE
        <3>1. q \notin raced /\ <<q, "unliked">> \in done
            BY <1>0, <2>1
        <3>2. q # s
            BY <1>0, <3>1
        <3>3. <<q, "liked">> \in done /\ ShownIn(y, q)
            BY <1>0, <1>2, <2>1, <3>2
        <3>4. window[y] # "open"
            BY <3>1, <3>3 DEF IInv, UndoneNotShown
        <3>5. window[y] = "absent"
            BY <1>0, <1>w, <2>1, <3>4
        <3> QED BY <1>a, <3>3, <3>5 DEF IInv, Edges, ShownIn
    <2> QED BY <2>1 DEF UndoneNotShown
<1> QED BY <1>4, <1>5, <1>6, <1>7

LEMMA RemovesShown ==
    ASSUME IInv, NEW w \in Worker, NEW s \in Source, NEW x \in Window, NEW st \in {"open", "removed"},
           Removes(w, s, x, st)
    PROVE  Edges' /\ Room' /\ LikeShown' /\ UndoneNotShown'
<1>0. /\ like' = like /\ raced \subseteq raced' /\ Updates(x, ActorOf[s], NoSource, st)
      /\ done' = done \cup {<<s, "unliked">>} /\ <<s, "unliked">> \in pending
      /\ window[x] = "open" /\ ShownIn(x, s)
      /\ st = "removed" => \A b \in Actor \ {ActorOf[s]} : edge[<<x, b>>] = NoSource
    BY DEF Removes, Ends
<1>a. ActorOf \in [Source -> Actor] /\ NoSource \notin Source
    BY SocialAssumption
<1>w. \A y \in Window : window'[y] = IF y = x THEN st ELSE window[y]
    BY <1>0 DEF Updates
<1>1. \A q \in Source : SourceExists(q)' = SourceExists(q)
    BY <1>0 DEF SourceExists
<1>2. \A q \in Source, y \in Window :
        ShownIn(y, q)' <=> ~(y = x /\ ActorOf[q] = ActorOf[s]) /\ ShownIn(y, q)
    BY <1>0, <1>a DEF ShownIn, Updates
<1>3. ~SourceExists(s)
    BY <1>0 DEF IInv, Logged
<1>4. Edges'
    <2>1. \A y \in Window, a \in Actor : window'[y] = "absent" => edge'[<<y, a>>] = NoSource
        <3>1. \A y \in Window, a \in Actor : window[y] = "absent" => edge[<<y, a>>] = NoSource
            BY DEF IInv, Edges
        <3> QED BY <3>1, <1>0 DEF Updates
    <2>2. \A y \in Window, q \in Source : ShownIn(y, q)' => <<q, "liked">> \in done'
        BY <1>0, <1>2 DEF IInv, Edges
    <2>3. \A y, z \in Window, q \in Source : ShownIn(y, q)' /\ ShownIn(z, q)' => y = z
        BY <1>2 DEF IInv, Edges
    <2> QED BY <2>1, <2>2, <2>3 DEF Edges
<1>5. Room'
    <2>1. Made' = Made
        BY <1>0, <1>w DEF Made
    <2> QED BY <2>1, EndsRoom DEF IInv, Removes
<1>6. LikeShown'
    <2>1. ASSUME NEW q \in Source, SourceExists(q), <<q, "liked">> \in done'
          PROVE  \E y \in Window : ShownIn(y, q)' /\ window'[y] \in {"open", "closed"}
        <3>1. <<q, "liked">> \in done /\ q # s
            BY <1>0, <1>3, <2>1
        <3>2. PICK y \in Window : ShownIn(y, q) /\ window[y] \in {"open", "closed"}
            BY <2>1, <3>1 DEF IInv, LikeShown
        <3>3. ~(y = x /\ ActorOf[q] = ActorOf[s])
            BY <1>0, <3>1, <3>2 DEF ShownIn
        <3>4. ShownIn(y, q)'
            BY <1>2, <3>2, <3>3
        <3>5. y = x => st = "open"
            BY <1>0, <1>a, <3>2, <3>3 DEF ShownIn
        <3>6. window'[y] \in {"open", "closed"}
            BY <1>w, <3>2, <3>5
        <3> QED BY <3>4, <3>6
    <2> QED BY <1>1, <2>1 DEF LikeShown
<1>7. UndoneNotShown'
    <2>1. ASSUME NEW q \in Source \ raced', {<<q, "liked">>, <<q, "unliked">>} \subseteq done',
                 NEW y \in Window, window'[y] = "open", ShownIn(y, q)'
          PROVE  FALSE
        <3>1. q \notin raced /\ <<q, "liked">> \in done
            BY <1>0, <2>1
        <3>2. ShownIn(y, q) /\ ~(y = x /\ ActorOf[q] = ActorOf[s])
            BY <1>2, <2>1
        <3>3. q # s
            BY <1>0, <3>2 DEF IInv, Edges
        <3>4. window[y] = "open"
            BY <1>0, <1>w, <2>1
        <3>5. <<q, "unliked">> \in done
            BY <1>0, <2>1, <3>3
        <3> QED BY <3>1, <3>2, <3>4, <3>5 DEF IInv, UndoneNotShown
    <2> QED BY <2>1 DEF UndoneNotShown
<1> QED BY <1>4, <1>5, <1>6, <1>7

-----------------------------------------------------------------------------
(* A commit, and every step.                                               *)

LEMMA CommitInv ==
    ASSUME IInv, NEW w \in Worker, Commit(w)
    PROVE  IInv'
<1> DEFINE Documents == Edges' /\ Room' /\ LikeShown' /\ UndoneNotShown'
           Events == \E s \in Source : \E e \in {<<s, "liked">>, <<s, "unliked">>} : Ends(w, s, e)
           Others == \A v \in Worker :
                        \/ job'[v] = Idle
                        \/ \E t : job'[v] = t /\ ReadyTx(t)'
<1>1. Documents /\ Events /\ Others
    <2>1. ASSUME NEW s \in Source, NEW e \in {<<s, "liked">>, <<s, "unliked">>}, Passes(w, s, e),
                 job[w] \in {Ignoring(s), Passing(s)}, job[w].event = {e}
          PROVE  Documents /\ Events /\ Others
        <3>1. Documents
            BY <2>1, PassesShown
        <3>2. Ends(w, s, e)
            BY <2>1 DEF Passes
        <3>3. ASSUME NEW v \in Worker, job'[v] # Idle PROVE \E t : job'[v] = t /\ ReadyTx(t)'
            <4>1. job'[v] = job[v] /\ ~Conflict(job[v], job[w])
                BY <3>2, <3>3 DEF Ends
            <4>2. PICK t : t = job[v]
                OBVIOUS
            <4>3. ReadyTx(t)'
                BY <2>1, <3>3, <4>1, <4>2, PassesReady
            <4> QED BY <4>1, <4>2, <4>3
        <3> QED BY <3>1, <3>2, <3>3
    <2>2. ASSUME NEW s \in Source, NEW x \in Window, NEW X \in SUBSET Window, NEW st \in Status, Shows(w, s, x, X, st)
          PROVE  Documents /\ Events /\ Others
        <3>1. Documents
            BY <2>2, ShowsShown
        <3>2. Ends(w, s, <<s, "liked">>)
            BY <2>2 DEF Shows
        <3>3. ASSUME NEW v \in Worker, job'[v] # Idle PROVE \E t : job'[v] = t /\ ReadyTx(t)'
            <4>1. job'[v] = job[v] /\ ~Conflict(job[v], job[w])
                BY <3>2, <3>3 DEF Ends
            <4>2. PICK t : t = job[v]
                OBVIOUS
            <4>3. ReadyTx(t)'
                BY <2>2, <3>3, <4>1, <4>2, ShowsReady
            <4> QED BY <4>1, <4>2, <4>3
        <3> QED BY <3>1, <3>2, <3>3
    <2>3. ASSUME NEW s \in Source, NEW x \in Window, NEW st \in {"open", "removed"}, Removes(w, s, x, st)
          PROVE  Documents /\ Events /\ Others
        <3>1. Documents
            BY <2>3, RemovesShown
        <3>2. Ends(w, s, <<s, "unliked">>)
            BY <2>3 DEF Removes
        <3>3. ASSUME NEW v \in Worker, job'[v] # Idle PROVE \E t : job'[v] = t /\ ReadyTx(t)'
            <4>1. job'[v] = job[v] /\ ~Conflict(job[v], job[w])
                BY <3>2, <3>3 DEF Ends
            <4>2. PICK t : t = job[v]
                OBVIOUS
            <4>3. ReadyTx(t)'
                BY <2>3, <3>3, <4>1, <4>2, RemovesReady
            <4> QED BY <4>1, <4>2, <4>3
        <3> QED BY <3>1, <3>2, <3>3
    <2> HIDE DEF Documents, Events, Others
    <2> QED BY <2>1, <2>2, <2>3, Committed
<1>2. PICK s \in Source : \E e \in {<<s, "liked">>, <<s, "unliked">>} : Ends(w, s, e)
    BY <1>1
<1>3. /\ Logged' /\ UNCHANGED <<like, fails>>
      /\ pending' \subseteq Event /\ done' \subseteq Event /\ raced' \subseteq Source
    BY <1>2, EndsLogged DEF IInv
<1>4. Typed'
    BY <1>3, Committed DEF IInv, Typed
<1>5. Ready'
    <2>1. ReadyTx(Idle)'
        BY DEF ReadyTx
    <2>2. DOMAIN job' = Worker
        BY <1>2 DEF Ends
    <2>3. ASSUME NEW v \in Worker PROVE \E t : job'[v] = t /\ ReadyTx(t)'
        BY <1>1, <2>1
    <2> QED BY <2>2, <2>3, AllReady
<1> QED BY <1>1, <1>3, <1>4, <1>5 DEF IInv

LEMMA InitInv == Init => IInv
<1> SUFFICES ASSUME Init PROVE IInv
    OBVIOUS
<1>1. Typed
    BY SocialAssumption DEF Init, Typed, Status
<1>2. Ready
    BY DEF Init, Ready, ReadyTx
<1>3. Logged /\ LikeShown /\ UndoneNotShown
    BY SocialAssumption DEF Init, Logged, LikeShown, UndoneNotShown, SourceExists
<1>4. Edges
    BY SocialAssumption DEF Init, Edges, Edge, ShownIn
<1>5. Room
    <2>1. Made = {} /\ LikedDone = {}
        BY DEF Init, Made, LikedDone
    <2> QED BY <2>1, Counted DEF Room
<1> QED BY <1>1, <1>2, <1>3, <1>4, <1>5 DEF IInv

LEMMA NextInv == IInv /\ [Next]_vars => IInv'
<1> SUFFICES ASSUME IInv, [Next]_vars PROVE IInv'
    OBVIOUS
<1>1. ASSUME NEW a \in Actor, NEW s \in Source, Like(a, s) PROVE IInv'
    BY <1>1, LikeInv
<1>2. ASSUME NEW a \in Actor, Unlike(a) PROVE IInv'
    BY <1>2, UnlikeInv
<1>3. ASSUME NEW w \in Worker, Handle(w) PROVE IInv'
    BY <1>3, HandleInv
<1>4. ASSUME NEW w \in Worker, Commit(w) PROVE IInv'
    BY <1>4, CommitInv
<1>5. ASSUME NEW w \in Worker, Fail(w) PROVE IInv'
    BY <1>5, FailInv
<1>6. ASSUME NEW x \in Window, MarkAsRead(x) PROVE IInv'
    BY <1>6, ReadInv
<1>7. CASE UNCHANGED vars
    <2>1. UNCHANGED <<like, pending, done, window, edge, job, raced, fails>>
        BY <1>7 DEF vars
    <2>2. Ready'
        <3>1. \A v \in Worker : \E t : job'[v] = t /\ ReadyTx(t)'
            BY <2>1, Rests DEF IInv, Ready
        <3> QED BY <2>1, <3>1, AllReady DEF IInv, Ready
    <2>3. Typed' /\ Room'
        BY <2>1, SameRoom DEF IInv, Typed
    <2>4. (Logged /\ Edges /\ LikeShown /\ UndoneNotShown)'
        BY <2>1 DEF IInv, Logged, Edges, LikeShown, UndoneNotShown, SourceExists, ShownIn
    <2> QED BY <2>2, <2>3, <2>4 DEF IInv
<1> QED BY <1>1, <1>2, <1>3, <1>4, <1>5, <1>6, <1>7 DEF Next

LEMMA Invariance == Spec => []IInv
<1> QED BY InitInv, NextInv, PTL DEF Spec

\* A transaction that writes a window is made to begin again when it is closed;
\* one that writes an edge without its window takes it over from an earlier
\* like of the actor.
Kept(x) ==
    /\ window'[x] = "closed"
    /\ \A a \in Actor : edge'[<<x, a>>] # edge[<<x, a>>] =>
        /\ edge[<<x, a>>] # NoSource
        /\ \E s \in Source : ActorOf[s] = a /\ edge'[<<x, a>>] = s /\ <<s, "liked">> \in done' \ done

LEMMA StepFrozen ==
    ASSUME IInv, [Next]_vars, NEW x \in Window, window[x] = "closed"
    PROVE  Kept(x)
<1>1. ASSUME NEW w \in Worker, Commit(w) PROVE Kept(x)
    <2>1. ASSUME NEW s \in Source, NEW e \in {<<s, "liked">>, <<s, "unliked">>}, Passes(w, s, e)
          PROVE  Kept(x)
        BY <2>1 DEF Passes, Kept
    <2>2. ASSUME NEW s \in Source, NEW y \in Window, NEW X \in SUBSET Window, NEW st \in Status, Shows(w, s, y, X, st)
          PROVE  Kept(x)
        <3>1. <<s, "liked">> \in done' \ done
            BY <2>2 DEF Shows, Ends, IInv, Logged
        <3>2. window'[x] = "closed" /\ (x = y => edge[<<x, ActorOf[s]>>] # NoSource)
            BY <2>2 DEF Shows, Updates, Showable
        <3>3. \A a \in Actor : edge'[<<x, a>>] # edge[<<x, a>>] =>
                x = y /\ a = ActorOf[s] /\ edge'[<<x, a>>] = s
            BY <2>2 DEF Shows, Updates
        <3> QED BY <3>1, <3>2, <3>3 DEF Kept
    <2>3. ASSUME NEW s \in Source, NEW y \in Window, NEW st \in {"open", "removed"}, Removes(w, s, y, st)
          PROVE  Kept(x)
        BY <2>3 DEF Removes, Updates, Kept
    <2> QED BY <1>1, <2>1, <2>2, <2>3, Committed
<1>2. ASSUME UNCHANGED <<window, edge>> PROVE Kept(x)
    BY <1>2 DEF Kept
<1>3. ASSUME NEW w \in Worker, Handle(w) PROVE UNCHANGED <<window, edge>>
    BY <1>3, Opened
<1>4. ASSUME NEW w \in Worker, Fail(w) PROVE UNCHANGED <<window, edge>>
    BY <1>4 DEF Fail
<1>5. ASSUME NEW a \in Actor, Unlike(a) \/ \E s \in Source : Like(a, s) PROVE UNCHANGED <<window, edge>>
    BY <1>5 DEF Like, Unlike
<1>6. ASSUME NEW y \in Window, MarkAsRead(y) PROVE Kept(x)
    BY <1>6 DEF MarkAsRead, IInv, Typed, Kept
<1>7. CASE UNCHANGED vars
    BY <1>2, <1>7 DEF vars
<1> QED BY <1>1, <1>2, <1>3, <1>4, <1>5, <1>6, <1>7 DEF Next

-----------------------------------------------------------------------------
(* Theorems.                                                               *)

\* Every document holds what its schema says, and there is a notification left
\* to create whenever addActor creates one.
THEOREM TypeCorrect == Spec => []TypeOK
<1>1. IInv => TypeOK
    BY Typing
<1> QED BY <1>1, Invariance, PTL

\* A like whose event was processed is in some window for as long as it lasts:
\* no handler that read an older state of the relation takes it away
\* (evaluateTweetAggregation, addActor, removeActor).
THEOREM LikesAreShown == Spec => []LikeShown
<1>1. IInv => LikeShown
    BY DEF IInv
<1> QED BY <1>1, Invariance, PTL

\* When both events of an undone like are processed, and not at the same time,
\* no open window shows it, in whatever order they were handled.
THEOREM UndoneLikesAreNot == Spec => []UndoneNotShown
<1>1. IInv => UndoneNotShown
    BY DEF IInv
<1> QED BY <1>1, Invariance, PTL

\* A notification that was read stays closed and keeps its actors: a handler
\* that had prepared to write it is made to begin again, and one that writes
\* an edge only (addActor on an actor already shown) changes no more than the
\* like for which he is shown.
THEOREM ReadStaysFrozen == Spec => ClosedFrozen
<1>1. ASSUME IInv, [Next]_vars
      PROVE  \A x \in Window : window[x] = "closed" =>
                /\ window'[x] = "closed"
                /\ \A a \in Actor : edge'[<<x, a>>] # edge[<<x, a>>] =>
                    /\ edge[<<x, a>>] # NoSource
                    /\ \E s \in Source : ActorOf[s] = a /\ edge'[<<x, a>>] = s /\ <<s, "liked">> \in done' \ done
    BY <1>1, StepFrozen DEF Kept
<1>2. Spec => [][Next]_vars
    BY DEF Spec
<1> QED BY <1>1, <1>2, Invariance, PTL DEF ClosedFrozen

-----------------------------------------------------------------------------
(* The notifications of a pair one of whom may block the other.            *)

BlockTx ==
    [event : SUBSET B!Event, items : UNION {[S -> B!Doc] : S \in SUBSET B!Item},
     agg : SUBSET B!Agg, guard : BOOLEAN, publish : SUBSET B!Event]

\* An edge has a relation and a time, and an open window shows somebody.
Proper(g) == (g.src # 0 <=> g.edge_at # 0) /\ (g.created_at # 0 <=> g.src # 0 \/ g.others)

BlockTyped ==
    /\ now \in B!Time /\ block \subseteq B!By /\ blocked_at \in B!Time /\ unblocked_at \in B!Time
    /\ ask \subseteq B!Request /\ liking \in B!Time
    /\ item \in [B!Item -> B!Doc] /\ agg \in B!Agg /\ Proper(agg)
    /\ queue \subseteq B!Event /\ work \in [Workers -> BlockTx] /\ throws \in 0..MaxThrows

\* Every request has a time of its own, which is that of the clean-up it may
\* start.
AsksDated ==
    /\ \A q \in ask : q.at # 0 /\ q.at <= now
    /\ \A q, r \in ask : q.at = r.at => q = r
    /\ \A e \in queue : e.kind # "unliked" => e.at # 0 /\ e.at <= now
    /\ \A e \in queue, q \in ask : e.kind = "block" => e.at # q.at

ItemLeft(i, t) == item[i].st = "valid" /\ item[i].created_at <= t
ActorLeft(t) == agg.src # 0 /\ agg.created_at <= t /\ agg.edge_at <= t

\* The clean-up that event e goes on with will yet come to the actor's edge.
ToCome(e) == e.stage = "aggregate_blocked" => e.by = "actor"

\* It is the clean-up of the block that was made last, and one stands.
LatestBlock(e) == block # {} /\ e.at = blocked_at

\* What transaction t, which handles event e, relies on.  One that shows the
\* actor has touched the guard of the pair, so that a block aborts it; one that
\* writes the window for another reason leaves the actor as he is.
AppearReady(t) ==
    /\ t.publish = {}
    /\ \A i \in DOMAIN t.items : t.guard /\ block = {}
    /\ \A g \in t.agg : g.src # 0 =>
            \/ t.guard /\ block = {}
            \/ g.src = agg.src /\ g.edge_at = agg.edge_at /\ g.created_at = agg.created_at

\* A clean-up takes along or leaves for a later page all there is.
ItemsReady(t, e) ==
    /\ t.agg = {}
    /\ \A i \in DOMAIN t.items : t.items[i].st = "invalid"
    /\ \A f \in t.publish : f.kind = "block" /\ f.at = e.at
    /\ LatestBlock(e) =>
        /\ \A i \in B!Item : ItemLeft(i, e.at) /\ i > e.cursor =>
            i \in DOMAIN t.items \/ \E f \in t.publish : f.stage = "individual" /\ i > f.cursor
        /\ \E f \in t.publish : ToCome(f)

AggReady(t, e) ==
    /\ DOMAIN t.items = {}
    /\ \A g \in t.agg : g.src = 0
    /\ \A f \in t.publish : f.kind = "block" /\ f.at = e.at
    /\ LatestBlock(e) /\ ToCome(e) /\ ActorLeft(e.at) => t.agg # {} \/ \E f \in t.publish : ToCome(f)

WorkReady(t, e) ==
    /\ t.event = {e}
    /\ \E g \in B!Agg : t.agg \subseteq {g} /\ Proper(g)
    /\ \/ e.kind # "block" /\ AppearReady(t)
       \/ e.kind = "block" /\ e.stage = "individual" /\ ItemsReady(t, e)
       \/ e.kind = "block" /\ e.stage # "individual" /\ AggReady(t, e)

BlockReady == \A w \in Workers : work[w] = B!Idle \/ \E e \in queue : WorkReady(work[w], e)

\* What is left from before a block that stands is ahead of its clean-up.
Ahead ==
    block # {} =>
        /\ \A i \in B!Item : ItemLeft(i, blocked_at) =>
            \E e \in queue : e.kind = "block" /\ e.at = blocked_at /\ e.stage = "individual" /\ i > e.cursor
        /\ ActorLeft(blocked_at) =>
            \E e \in queue : e.kind = "block" /\ e.at = blocked_at /\ ToCome(e)

BlockInv == BlockTyped /\ AsksDated /\ BlockReady /\ Ahead

-----------------------------------------------------------------------------
LEMMA BlockConstants ==
    /\ Items \in Nat /\ MaxTime \in Nat /\ MaxThrows \in Nat /\ Blockers \subseteq B!By
    /\ B!Item \subseteq Nat \ {0} /\ 0 \in B!Time /\ B!Time \subseteq Nat
BY BlockFits DEF B!BlockAssumption, B!By, B!Item, B!Time

LEMMA IdleWork == B!Idle \in BlockTx
BY DEF B!Idle, BlockTx

LEMMA WorkItems ==
    ASSUME NEW t \in BlockTx
    PROVE  DOMAIN t.items \subseteq B!Item /\ \A i \in DOMAIN t.items : t.items[i] \in B!Doc
BY DEF BlockTx

LEMMA NoWindow == B!NoAgg \in B!Agg /\ Proper(B!NoAgg) /\ B!NoAgg.src = 0
BY BlockConstants DEF B!NoAgg, B!Agg, Proper

\* Of the parts of an event.
LEMMA WorkParts ==
    ASSUME NEW e \in B!Event
    PROVE  /\ e.kind # "unliked" => e.at \in B!Time
           /\ e.kind = "mention" => e.item \in B!Item
           /\ e.kind = "block" =>
                /\ e.by \in B!By /\ e.stage \in B!Stage /\ e.cursor \in 0..Items
                /\ e = [kind |-> "block", by |-> e.by, at |-> e.at, stage |-> e.stage, cursor |-> e.cursor]
BY DEF B!Event

LEMMA BlockStart == B!Init => BlockInv
<1> SUFFICES ASSUME B!Init PROVE BlockInv
    OBVIOUS
<1>1. BlockTyped
    <2>1. work \in [Workers -> BlockTx]
        BY IdleWork DEF B!Init
    <2>2. item \in [B!Item -> B!Doc]
        BY BlockConstants DEF B!Init, B!Doc
    <2> QED BY <2>1, <2>2, NoWindow, BlockConstants DEF BlockTyped, B!Init
<1>2. AsksDated /\ BlockReady /\ Ahead
    BY DEF B!Init, AsksDated, BlockReady, Ahead
<1> QED BY <1>1, <1>2 DEF BlockInv

-----------------------------------------------------------------------------
\* A step that leaves the block and the notifications alone.
LEMMA SameBlock ==
    ASSUME BlockReady, Ahead, UNCHANGED <<block, blocked_at, item, agg>>, queue \subseteq queue',
           \A w \in Workers : work'[w] \in {B!Idle, work[w]}
    PROVE  BlockReady' /\ Ahead'
<1>1. ASSUME NEW w \in Workers, NEW e \in queue, WorkReady(work[w], e), work'[w] = work[w]
      PROVE  WorkReady(work[w], e)'
    BY <1>1 DEF WorkReady, AppearReady, ItemsReady, AggReady, LatestBlock, ToCome, ItemLeft, ActorLeft
<1>2. ASSUME NEW w \in Workers, work'[w] # B!Idle PROVE \E e \in queue' : WorkReady(work[w], e)'
    <2>1. work'[w] = work[w]
        BY <1>2
    <2>2. PICK e \in queue : WorkReady(work[w], e)
        BY <1>2, <2>1 DEF BlockReady
    <2> QED BY <1>1, <2>1, <2>2
<1>3. Ahead'
    BY DEF Ahead, ItemLeft, ActorLeft, ToCome
<1> QED BY <1>2, <1>3 DEF BlockReady

\* An event that is published now, of no block.
LEMMA PublishInv ==
    ASSUME BlockInv, NEW e \in B!Event, e.kind # "block", queue' = queue \cup {e},
           e.kind # "unliked" => e.at = now', now' \in {now, now + 1}, now' \in B!Time,
           e.kind # "unliked" => now' # 0, liking' \in B!Time,
           UNCHANGED <<block, blocked_at, unblocked_at, ask, item, agg, work, throws>>
    PROVE  BlockInv'
<1> USE DEF BlockInv
<1>1. now \in Nat /\ \A q \in ask : q.at \in Nat
    BY BlockConstants DEF BlockTyped, B!Request
<1>2. \A d \in queue : d.kind # "unliked" => d.at \in Nat
    BY BlockConstants, WorkParts DEF BlockTyped
<1>3. BlockTyped'
    BY DEF BlockTyped
<1>4. AsksDated'
    BY <1>1, <1>2 DEF AsksDated
<1>5. BlockReady' /\ Ahead'
    BY SameBlock
<1> QED BY <1>3, <1>4, <1>5

LEMMA ActorInv ==
    ASSUME BlockInv, (\E i \in B!Item : B!Mention(i)) \/ B!Like \/ B!Unlike \/ B!OtherLikes
    PROVE  BlockInv'
<1>1. now \in Nat /\ MaxTime \in Nat /\ liking \in B!Time
    BY BlockConstants DEF BlockInv, BlockTyped
<1>2. B!Tick => now' \in B!Time /\ now' = now + 1 /\ now' # 0
    BY <1>1 DEF B!Tick, B!Time
<1>3. ASSUME NEW i \in B!Item, B!Mention(i) PROVE BlockInv'
    <2> DEFINE e == [kind |-> "mention", at |-> now + 1, item |-> i]
    <2>1. e \in B!Event /\ e.kind = "mention" /\ e.at = now + 1
        BY <1>2, <1>3 DEF B!Mention, B!Event
    <2>2. /\ B!Tick /\ queue' = queue \cup {e}
          /\ UNCHANGED <<block, blocked_at, unblocked_at, ask, liking, item, agg, work, throws>>
        BY <1>3 DEF B!Mention
    <2> HIDE DEF e
    <2> QED BY <1>1, <1>2, <2>1, <2>2, PublishInv
<1>4. ASSUME B!Like PROVE BlockInv'
    <2> DEFINE e == [kind |-> "liked", at |-> now + 1]
    <2>1. e \in B!Event /\ e.kind = "liked" /\ e.at = now + 1
        BY <1>2, <1>4 DEF B!Like, B!Event
    <2>2. /\ B!Tick /\ queue' = queue \cup {e} /\ liking' = now + 1
          /\ UNCHANGED <<block, blocked_at, unblocked_at, ask, item, agg, work, throws>>
        BY <1>4 DEF B!Like
    <2> HIDE DEF e
    <2> QED BY <1>1, <1>2, <2>1, <2>2, PublishInv
<1>5. ASSUME B!OtherLikes PROVE BlockInv'
    <2> DEFINE e == [kind |-> "liked by other", at |-> now + 1]
    <2>1. e \in B!Event /\ e.kind = "liked by other" /\ e.at = now + 1
        BY <1>2, <1>5 DEF B!OtherLikes, B!Event
    <2>2. /\ B!Tick /\ queue' = queue \cup {e}
          /\ UNCHANGED <<block, blocked_at, unblocked_at, ask, liking, item, agg, work, throws>>
        BY <1>5 DEF B!OtherLikes
    <2> HIDE DEF e
    <2> QED BY <1>1, <1>2, <2>1, <2>2, PublishInv
<1>6. ASSUME B!Unlike PROVE BlockInv'
    <2> DEFINE e == [kind |-> "unliked", of |-> liking]
    <2>1. e \in B!Event /\ e.kind = "unliked"
        BY <1>1 DEF B!Event
    <2>2. /\ queue' = queue \cup {e} /\ liking' = 0
          /\ UNCHANGED <<now, block, blocked_at, unblocked_at, ask, item, agg, work, throws>>
        BY <1>6 DEF B!Unlike
    <2>3. now \in B!Time
        BY DEF BlockInv, BlockTyped
    <2> HIDE DEF e
    <2> QED BY <1>1, <2>1, <2>2, <2>3, BlockConstants, PublishInv
<1> QED BY <1>3, <1>4, <1>5, <1>6

LEMMA AskBlockInv ==
    ASSUME BlockInv, NEW op \in {"block", "unblock"}, NEW by \in Blockers, B!Ask(op, by)
    PROVE  BlockInv'
<1> DEFINE r == [op |-> op, by |-> by, at |-> now + 1]
<1> USE DEF BlockInv
<1>1. /\ now < MaxTime /\ now' = now + 1 /\ ask' = ask \cup {r}
      /\ UNCHANGED <<block, blocked_at, unblocked_at, liking, item, agg, queue, work, throws>>
    BY DEF B!Ask, B!Tick
<1>2. now \in Nat /\ MaxTime \in Nat /\ now' \in B!Time /\ now' # 0
    BY <1>1, BlockConstants DEF BlockTyped, B!Time
<1>3. r \in B!Request /\ r.at = now + 1
    BY <1>1, <1>2, BlockConstants DEF B!Request
<1> HIDE DEF r
<1>4. BlockTyped'
    BY <1>1, <1>2, <1>3 DEF BlockTyped
<1>5. AsksDated'
    <2>1. \A q \in ask : q.at \in Nat
        BY BlockConstants DEF BlockTyped, B!Request
    <2>2. \A e \in queue : e.kind # "unliked" => e.at \in Nat
        BY BlockConstants, WorkParts DEF BlockTyped
    <2> QED BY <1>1, <1>2, <1>3, <2>1, <2>2 DEF AsksDated
<1>6. BlockReady' /\ Ahead'
    BY <1>1, SameBlock
<1> QED BY <1>4, <1>5, <1>6

LEMMA RefuseBlockInv ==
    ASSUME BlockInv, NEW q \in ask, B!Refuse(q)
    PROVE  BlockInv'
<1> USE DEF BlockInv
<1>1. /\ ask' = ask \ {q}
      /\ UNCHANGED <<now, block, blocked_at, unblocked_at, liking, item, agg, queue, work, throws>>
    BY DEF B!Refuse
<1>2. BlockTyped' /\ AsksDated'
    BY <1>1 DEF BlockTyped, AsksDated
<1>3. BlockReady' /\ Ahead'
    BY <1>1, SameBlock
<1> QED BY <1>2, <1>3

LEMMA WorkFailsInv ==
    ASSUME BlockInv, NEW w \in Workers, B!Fail(w)
    PROVE  BlockInv'
<1> USE DEF BlockInv
<1>1. /\ work' = [work EXCEPT ![w] = B!Idle]
      /\ UNCHANGED <<now, block, blocked_at, unblocked_at, ask, liking, item, agg, queue>>
      /\ throws < MaxThrows /\ throws' = throws + 1
    BY DEF B!Fail
<1>2. BlockTyped' /\ AsksDated'
    BY <1>1, IdleWork, BlockConstants DEF BlockTyped, AsksDated
<1>3. BlockReady' /\ Ahead'
    BY <1>1, SameBlock DEF BlockTyped
<1> QED BY <1>2, <1>3

\* The request commits and aborts whoever touched the guard.
LEMMA GuardWritten ==
    ASSUME BlockInv, work' = B!Unguarded, UNCHANGED <<item, agg>>, queue \subseteq queue',
           block' # {} => \/ block # {} /\ blocked_at' = blocked_at
                          \/ \A e \in queue : e.kind = "block" => e.at # blocked_at'
    PROVE  BlockReady' /\ work' \in [Workers -> BlockTx]
<1> USE DEF BlockInv
<1>1. ASSUME NEW w \in Workers PROVE work'[w] = IF work[w].guard THEN B!Idle ELSE work[w]
    BY DEF B!Unguarded
<1>2. work' \in [Workers -> BlockTx]
    BY <1>1, IdleWork DEF BlockTyped, B!Unguarded
<1>3. ASSUME NEW w \in Workers, NEW e \in queue, WorkReady(work[w], e), work'[w] = work[w], ~work[w].guard
      PROVE  WorkReady(work[w], e)'
    <2>1. CASE e.kind # "block"
        BY <1>3, <2>1 DEF WorkReady, AppearReady
    <2>2. CASE e.kind = "block"
        <3>1. LatestBlock(e)' => LatestBlock(e)
            BY <2>2 DEF LatestBlock
        <3> QED BY <1>3, <2>2, <3>1 DEF WorkReady, ItemsReady, AggReady, ItemLeft, ActorLeft, ToCome
    <2> QED BY <2>1, <2>2
<1>4. ASSUME NEW w \in Workers, work'[w] # B!Idle PROVE \E e \in queue' : WorkReady(work[w], e)'
    <2>1. work'[w] = work[w] /\ ~work[w].guard
        BY <1>1, <1>4
    <2>2. PICK e \in queue : WorkReady(work[w], e)
        BY <1>4, <2>1 DEF BlockReady
    <2> QED BY <1>3, <2>1, <2>2
<1> QED BY <1>2, <1>4 DEF BlockReady

LEMMA BlockedInv ==
    ASSUME BlockInv, NEW q \in ask, B!Block(q)
    PROVE  BlockInv'
<1> DEFINE e == [kind |-> "block", by |-> q.by, at |-> q.at, stage |-> "individual", cursor |-> 0]
<1> USE DEF BlockInv
<1>1. /\ block' = block \cup {q.by} /\ blocked_at' = q.at /\ unblocked_at' = 0
      /\ queue' = queue \cup {e} /\ ask' = ask \ {q} /\ work' = B!Unguarded
      /\ UNCHANGED <<now, liking, item, agg, throws>>
    BY DEF B!Block
<1>2. q.at \in B!Time /\ q.by \in B!By /\ q.at # 0 /\ q.at <= now
    BY DEF BlockTyped, B!Request, AsksDated
<1>3. e \in B!Event /\ e.kind = "block" /\ e.at = q.at /\ e.stage = "individual" /\ e.cursor = 0
    <2>1. 0 \in 0..Items /\ "individual" \in B!Stage
        BY BlockConstants DEF B!Stage
    <2> QED BY <1>2, <2>1 DEF B!Event
<1> HIDE DEF e
<1>4. BlockReady' /\ work' \in [Workers -> BlockTx]
    <2>1. \A d \in queue : d.kind = "block" => d.at # q.at
        BY DEF AsksDated
    <2> QED BY <1>1, <2>1, GuardWritten
<1>5. BlockTyped'
    BY <1>1, <1>2, <1>3, <1>4, BlockConstants DEF BlockTyped
<1>6. AsksDated'
    BY <1>1, <1>2, <1>3 DEF AsksDated
<1>7. Ahead'
    <2>1. e \in queue' /\ e.kind = "block" /\ e.at = blocked_at' /\ e.stage = "individual" /\ ToCome(e)'
        BY <1>1, <1>3 DEF ToCome
    <2>2. \A i \in B!Item : i > 0
        BY BlockConstants
    <2>3. \A i \in B!Item : i > e.cursor
        BY <1>3, <2>2
    <2> QED BY <2>1, <2>3 DEF Ahead
<1> QED BY <1>4, <1>5, <1>6, <1>7

LEMMA UnblockedInv ==
    ASSUME BlockInv, NEW q \in ask, B!Unblock(q)
    PROVE  BlockInv'
<1> USE DEF BlockInv
<1>1. /\ block' = block \ {q.by} /\ unblocked_at' = q.at
      /\ ask' = ask \ {q} /\ work' = B!Unguarded
      /\ UNCHANGED <<now, blocked_at, liking, item, agg, queue, throws>>
    BY DEF B!Unblock
<1>2. q.at \in B!Time
    BY DEF BlockTyped, B!Request
<1>3. BlockReady' /\ work' \in [Workers -> BlockTx]
    BY <1>1, GuardWritten
<1>4. BlockTyped' /\ AsksDated'
    BY <1>1, <1>2, <1>3 DEF BlockTyped, AsksDated
<1>5. Ahead'
    BY <1>1 DEF Ahead, ItemLeft, ActorLeft
<1> QED BY <1>3, <1>4, <1>5

-----------------------------------------------------------------------------
\* A handler has decided.
LEMMA WorkedInv ==
    ASSUME BlockInv, NEW w \in Workers, NEW e \in queue,
           NEW f \in UNION {[S -> B!Doc] : S \in SUBSET B!Item}, NEW a \in SUBSET B!Agg, NEW g \in BOOLEAN,
           NEW P \in SUBSET B!Event, B!Handled(w, e, f, a, g, P),
           WorkReady([event |-> {e}, items |-> f, agg |-> a, guard |-> g, publish |-> P], e)
    PROVE  BlockInv'
<1> DEFINE t == [event |-> {e}, items |-> f, agg |-> a, guard |-> g, publish |-> P]
<1> USE DEF BlockInv
<1>1. /\ work' = [work EXCEPT ![w] = t]
      /\ UNCHANGED <<now, block, blocked_at, unblocked_at, ask, liking, item, agg, queue, throws>>
    BY DEF B!Handled
<1>2. t \in BlockTx
    BY DEF BlockTx, BlockTyped
<1> HIDE DEF t
<1>3. BlockTyped' /\ AsksDated' /\ Ahead'
    BY <1>1, <1>2 DEF BlockTyped, AsksDated, Ahead, ItemLeft, ActorLeft, ToCome
<1>4. BlockReady'
    <2> SUFFICES ASSUME NEW v \in Workers, work'[v] # B!Idle PROVE \E d \in queue' : WorkReady(work[v], d)'
        BY DEF BlockReady
    <2>1. CASE v = w
        <3>1. work'[v] = t /\ WorkReady(t, e)
            BY <1>1, <2>1 DEF t, BlockTyped
        <3>2. WorkReady(work[v], e)'
            BY <1>1, <3>1 DEF WorkReady, AppearReady, ItemsReady, AggReady, LatestBlock, ToCome, ItemLeft, ActorLeft
        <3> QED BY <1>1, <3>2
    <2>2. CASE v # w
        <3>1. work'[v] = work[v]
            BY <1>1, <2>2 DEF BlockTyped
        <3>2. PICK d \in queue : WorkReady(work[v], d)
            BY <3>1 DEF BlockReady
        <3>3. WorkReady(work[v], d)'
            BY <1>1, <3>1, <3>2 DEF WorkReady, AppearReady, ItemsReady, AggReady, LatestBlock, ToCome, ItemLeft,
                ActorLeft
        <3> QED BY <1>1, <3>3
    <2> QED BY <2>1, <2>2
<1> QED BY <1>3, <1>4

LEMMA WithoutItems == B!NoItems \in UNION {[S -> B!Doc] : S \in SUBSET B!Item} /\ DOMAIN B!NoItems = {}
<1>1. B!NoItems \in [{} -> B!Doc] /\ DOMAIN B!NoItems = {}
    BY DEF B!NoItems
<1> QED BY <1>1

LEMMA MentionedInv ==
    ASSUME BlockInv, NEW w \in Workers, NEW e \in queue, B!HandleMention(w, e)
    PROVE  BlockInv'
<1> DEFINE created == IF item[e.item].st = "absent" THEN e.at ELSE item[e.item].created_at
           hit == {j \in {e.item} : B!Eligible(e) /\ item[j].st # "valid"}
           f == [j \in hit |-> [st |-> "valid", created_at |-> created]]
           t == [event |-> {e}, items |-> f, agg |-> {}, guard |-> TRUE, publish |-> {}]
<1>1. e.kind = "mention" /\ B!Handled(w, e, f, {}, TRUE, {})
    BY DEF B!HandleMention
<1>2. e \in B!Event /\ e.item \in B!Item /\ e.at \in B!Time
    BY <1>1, WorkParts DEF BlockInv, BlockTyped
<1>3. hit \subseteq B!Item /\ (hit # {} => block = {})
    BY <1>2 DEF B!Eligible
<1>4. created \in B!Time
    BY <1>2 DEF BlockInv, BlockTyped, B!Doc
<1> HIDE DEF created
<1>5. f \in [hit -> B!Doc]
    BY <1>4 DEF B!Doc
<1>6. t.event = {e} /\ t.items = f /\ t.agg = {} /\ t.guard = TRUE /\ t.publish = {} /\ DOMAIN f = hit
    OBVIOUS
<1> HIDE DEF t, f, hit
<1>7. f \in UNION {[S -> B!Doc] : S \in SUBSET B!Item}
    BY <1>3, <1>5
<1>8. WorkReady(t, e)
    BY <1>1, <1>3, <1>6, NoWindow DEF WorkReady, AppearReady
<1>9. TRUE \in BOOLEAN /\ {} \in SUBSET B!Event /\ {} \in SUBSET B!Agg
    OBVIOUS
<1> QED BY <1>1, <1>7, <1>8, <1>9, WorkedInv DEF t

\* A handler that writes the window, or nothing.
LEMMA WindowInv ==
    ASSUME BlockInv, NEW w \in Workers, NEW e \in queue, e.kind # "block",
           NEW x \in B!Agg, Proper(x), NEW a \in SUBSET {x}, NEW g \in BOOLEAN,
           B!Handled(w, e, B!NoItems, a, g, {}),
           a # {} /\ x.src # 0 =>
                \/ g /\ block = {}
                \/ x.src = agg.src /\ x.edge_at = agg.edge_at /\ x.created_at = agg.created_at
    PROVE  BlockInv'
<1> DEFINE t == [event |-> {e}, items |-> B!NoItems, agg |-> a, guard |-> g, publish |-> {}]
<1>1. t.event = {e} /\ t.items = B!NoItems /\ t.agg = a /\ t.guard = g /\ t.publish = {}
    OBVIOUS
<1> HIDE DEF t
<1>2. WorkReady(t, e)
    BY <1>1, WithoutItems DEF WorkReady, AppearReady
<1>3. {} \in SUBSET B!Event /\ a \in SUBSET B!Agg
    OBVIOUS
<1>4. WorkReady([event |-> {e}, items |-> B!NoItems, agg |-> a, guard |-> g, publish |-> {}], e)
    BY <1>2 DEF t
<1>5. B!NoItems \in UNION {[S -> B!Doc] : S \in SUBSET B!Item}
    BY WithoutItems
<1> QED BY <1>3, <1>4, <1>5, WorkedInv

LEMMA LikedInv ==
    ASSUME BlockInv, NEW w \in Workers, NEW e \in queue, B!HandleLiked(w, e)
    PROVE  BlockInv'
<1> DEFINE x == B!Joined(e)
           a == {g \in {x} : liking = e.at /\ B!Eligible(e)}
<1>1. e.kind = "liked" /\ B!Handled(w, e, B!NoItems, a, liking = e.at, {})
    BY DEF B!HandleLiked
<1>2. e.at \in B!Time /\ e.at # 0 /\ agg \in B!Agg /\ Proper(agg)
    BY <1>1, WorkParts DEF BlockInv, BlockTyped, AsksDated
<1>3. /\ x \in B!Agg /\ x.src = e.at /\ x.edge_at = (IF agg.src = 0 THEN e.at ELSE agg.edge_at)
      /\ x.created_at = (IF agg.created_at = 0 THEN e.at ELSE agg.created_at)
    BY <1>2 DEF B!Joined, B!Agg
<1>4. Proper(x)
    BY <1>2, <1>3 DEF Proper
<1>5. a # {} => liking = e.at /\ block = {}
    BY DEF B!Eligible
<1>6. a \in SUBSET {x} /\ (liking = e.at) \in BOOLEAN
    OBVIOUS
<1> HIDE DEF a, x
<1> QED BY <1>1, <1>3, <1>4, <1>5, <1>6, WindowInv

LEMMA OtherLikedInv ==
    ASSUME BlockInv, NEW w \in Workers, NEW e \in queue, B!HandleOtherLiked(w, e)
    PROVE  BlockInv'
<1> DEFINE x == [agg EXCEPT !.created_at = IF @ = 0 THEN e.at ELSE @, !.others = TRUE]
<1>1. e.kind = "liked by other" /\ B!Handled(w, e, B!NoItems, {x}, FALSE, {})
    BY DEF B!HandleOtherLiked
<1>2. e.at \in B!Time /\ e.at # 0 /\ agg \in B!Agg /\ Proper(agg)
    BY <1>1, WorkParts DEF BlockInv, BlockTyped, AsksDated
<1>3. /\ x \in B!Agg /\ x.src = agg.src /\ x.edge_at = agg.edge_at /\ x.others = TRUE
      /\ x.created_at = (IF agg.created_at = 0 THEN e.at ELSE agg.created_at)
    BY <1>2 DEF B!Agg
<1> HIDE DEF x
<1>4. Proper(x) /\ (x.src # 0 => x.created_at = agg.created_at)
    BY <1>2, <1>3 DEF Proper
<1>5. {x} \in SUBSET {x} /\ FALSE \in BOOLEAN
    OBVIOUS
<1> QED BY <1>1, <1>3, <1>4, <1>5, WindowInv

\* The window without the actor.
LEMMA Without ==
    ASSUME BlockInv
    PROVE  B!Departed \in B!Agg /\ Proper(B!Departed) /\ B!Departed.src = 0
<1>1. agg \in B!Agg /\ Proper(agg)
    BY DEF BlockInv, BlockTyped
<1>2. CASE agg.others
    <2>1. B!Departed = [agg EXCEPT !.src = 0, !.edge_at = 0]
        BY <1>2 DEF B!Departed
    <2>2. /\ B!Departed \in B!Agg /\ B!Departed.src = 0 /\ B!Departed.edge_at = 0
          /\ B!Departed.created_at = agg.created_at /\ B!Departed.others = agg.others
        BY <1>1, <2>1, BlockConstants DEF B!Agg
    <2> QED BY <1>1, <1>2, <2>2 DEF Proper
<1>3. CASE ~agg.others
    BY <1>3, NoWindow DEF B!Departed
<1> QED BY <1>2, <1>3

LEMMA UnlikedInv ==
    ASSUME BlockInv, NEW w \in Workers, NEW e \in queue, B!HandleUnliked(w, e)
    PROVE  BlockInv'
<1> DEFINE a == {g \in {B!Departed} : agg.src = e.of}
<1>1. e.kind = "unliked" /\ B!Handled(w, e, B!NoItems, a, FALSE, {})
    BY DEF B!HandleUnliked
<1>2. a \in SUBSET {B!Departed} /\ FALSE \in BOOLEAN
    OBVIOUS
<1> HIDE DEF a
<1> QED BY <1>1, <1>2, Without, WindowInv

LEMMA CleanIndividualInv ==
    ASSUME BlockInv, NEW w \in Workers, NEW e \in queue, B!CleanIndividual(w, e)
    PROVE  BlockInv'
<1> DEFINE targets == {i \in B!Item : item[i].st = "valid" /\ item[i].created_at <= e.at /\ i > e.cursor}
           page == {i \in targets : \A j \in targets : i <= j}
           f == [i \in page |-> [item[i] EXCEPT !.st = "invalid"]]
           last == [e EXCEPT !.stage = "aggregate_blocker", !.cursor = 0]
           P == IF targets = page THEN {last} ELSE {[e EXCEPT !.cursor = i] : i \in page}
           t == [event |-> {e}, items |-> f, agg |-> {}, guard |-> FALSE, publish |-> P]
<1>1. e.kind = "block" /\ e.stage = "individual" /\ B!Handled(w, e, f, {}, FALSE, P)
    BY DEF B!CleanIndividual
<1>2. /\ e \in B!Event /\ e.at \in B!Time /\ e.by \in B!By /\ e.stage \in B!Stage /\ e.cursor \in 0..Items
      /\ e = [kind |-> "block", by |-> e.by, at |-> e.at, stage |-> e.stage, cursor |-> e.cursor]
    BY <1>1, WorkParts DEF BlockInv, BlockTyped
<1>3. targets \subseteq B!Item /\ page \subseteq B!Item
    OBVIOUS
<1>4. ASSUME NEW i \in page PROVE f[i] \in B!Doc /\ f[i].st = "invalid"
    BY <1>3 DEF B!Doc, BlockInv, BlockTyped
<1>5. f \in UNION {[S -> B!Doc] : S \in SUBSET B!Item}
    <2>1. f \in [page -> B!Doc]
        BY <1>4
    <2> HIDE DEF f, page
    <2> QED BY <1>3, <2>1
<1>6. /\ last \in B!Event /\ last.kind = "block" /\ last.at = e.at /\ ToCome(last)
    <2>1. 0 \in 0..Items /\ "aggregate_blocker" \in B!Stage
        BY BlockConstants DEF B!Stage
    <2>2. e \in [kind: {"block"}, by: B!By, at: B!Time, stage: B!Stage, cursor: 0..Items]
        BY <1>2
    <2>3. /\ last \in [kind: {"block"}, by: B!By, at: B!Time, stage: B!Stage, cursor: 0..Items]
          /\ last.at = e.at /\ last.stage = "aggregate_blocker"
        BY <2>1, <2>2
    <2> HIDE DEF last
    <2> QED BY <2>3 DEF B!Event, ToCome
<1>7. ASSUME NEW i \in page
      PROVE  LET d == [e EXCEPT !.cursor = i] IN
             /\ d \in B!Event /\ d.kind = "block" /\ d.at = e.at /\ d.cursor = i /\ d.stage = "individual"
             /\ ToCome(d)
    <2>1. i \in 0..Items
        BY <1>3, BlockConstants DEF B!Item
    <2>2. [e EXCEPT !.cursor = i] = [kind |-> "block", by |-> e.by, at |-> e.at, stage |-> "individual", cursor |-> i]
        BY <1>1, <1>2
    <2>3. "individual" \in B!Stage
        BY <1>1, <1>2
    <2> QED BY <1>2, <2>1, <2>2, <2>3 DEF B!Event, ToCome
<1>8. ASSUME targets # page
      PROVE  \E n \in page : \A i \in targets : i \in page \/ i > n
    <2>1. targets \subseteq Nat /\ targets # {}
        BY <1>3, <1>8, BlockConstants
    <2>2. PICK n \in targets : \A m \in targets : n <= m
        BY <2>1, Least
    <2>3. n \in page
        BY <2>2
    <2>4. ASSUME NEW i \in targets, i # n PROVE i > n
        BY <2>1, <2>2, <2>4
    <2> HIDE DEF page
    <2> QED BY <2>3, <2>4
<1>9. P \subseteq B!Event /\ \A d \in P : d.kind = "block" /\ d.at = e.at
    <2> SUFFICES ASSUME NEW d \in P PROVE d \in B!Event /\ d.kind = "block" /\ d.at = e.at
        OBVIOUS
    <2>1. CASE targets = page
        <3>1. d = last
            BY <2>1
        <3> HIDE DEF last
        <3> QED BY <1>6, <3>1
    <2>2. CASE targets # page
        <3>1. PICK i \in page : d = [e EXCEPT !.cursor = i]
            BY <2>2
        <3> HIDE DEF P, page, targets
        <3> QED BY <1>7, <3>1
    <2> QED BY <2>1, <2>2
<1>10. /\ \E d \in P : ToCome(d)
       /\ \A i \in targets : i \in page \/ \E d \in P : d.stage = "individual" /\ i > d.cursor
    <2>1. CASE targets = page
        <3>1. last \in P
            BY <2>1
        <3> HIDE DEF last, P, page
        <3> QED BY <1>6, <2>1, <3>1
    <2>2. CASE targets # page
        <3>1. PICK n \in page : \A i \in targets : i \in page \/ i > n
            BY <1>8, <2>2
        <3>2. [e EXCEPT !.cursor = n] \in P
            BY <2>2, <3>1
        <3> HIDE DEF P, page, targets
        <3> QED BY <1>7, <3>1, <3>2
    <2> QED BY <2>1, <2>2
<1>11. t.event = {e} /\ t.items = f /\ t.agg = {} /\ t.guard = FALSE /\ t.publish = P /\ DOMAIN f = page
    OBVIOUS
<1>12. \A i \in B!Item : ItemLeft(i, e.at) /\ i > e.cursor => i \in targets
    BY DEF ItemLeft
<1> HIDE DEF t, f, P, page, targets
<1>13. WorkReady(t, e)
    BY <1>1, <1>4, <1>9, <1>10, <1>11, <1>12, NoWindow DEF WorkReady, ItemsReady
<1>14. FALSE \in BOOLEAN /\ {} \in SUBSET B!Agg
    OBVIOUS
<1> QED BY <1>1, <1>5, <1>9, <1>13, <1>14, WorkedInv DEF t

LEMMA CleanAggregatesInv ==
    ASSUME BlockInv, NEW w \in Workers, NEW e \in queue, B!CleanAggregates(w, e)
    PROVE  BlockInv'
<1> DEFINE concerned == e.by = (IF e.stage = "aggregate_blocker" THEN "recipient" ELSE "actor")
           found == agg.src # 0 /\ agg.created_at <= e.at /\ agg.edge_at <= e.at
           a == {g \in {B!Departed} : concerned /\ found}
           P == {[e EXCEPT !.stage = s] : s \in {"aggregate_blocked"} \ {e.stage}}
           t == [event |-> {e}, items |-> B!NoItems, agg |-> a, guard |-> FALSE, publish |-> P]
<1>1. e.kind = "block" /\ e.stage # "individual" /\ B!Handled(w, e, B!NoItems, a, FALSE, P)
    BY DEF B!CleanAggregates
<1>2. /\ e \in B!Event /\ e.at \in B!Time /\ e.by \in B!By /\ e.stage \in B!Stage /\ e.cursor \in 0..Items
      /\ e = [kind |-> "block", by |-> e.by, at |-> e.at, stage |-> e.stage, cursor |-> e.cursor]
    BY <1>1, WorkParts DEF BlockInv, BlockTyped
<1>3. ASSUME NEW d \in P
      PROVE  d \in B!Event /\ d.kind = "block" /\ d.at = e.at /\ d.by = e.by /\ d.stage = "aggregate_blocked"
    <2>1. d = [e EXCEPT !.stage = "aggregate_blocked"]
        OBVIOUS
    <2>2. d = [kind |-> "block", by |-> e.by, at |-> e.at, stage |-> "aggregate_blocked", cursor |-> e.cursor]
        BY <1>2, <2>1
    <2>3. "aggregate_blocked" \in B!Stage
        BY DEF B!Stage
    <2> HIDE DEF P
    <2> QED BY <1>2, <2>2, <2>3 DEF B!Event
<1>4. e.stage = "aggregate_blocker" => [e EXCEPT !.stage = "aggregate_blocked"] \in P
    OBVIOUS
<1>5. e.stage \in {"aggregate_blocker", "aggregate_blocked"} /\ e.by \in {"actor", "recipient"}
    BY <1>1, <1>2 DEF B!Stage, B!By
<1>6. ASSUME ToCome(e), found PROVE a # {} \/ \E d \in P : ToCome(d)
    <2>1. CASE concerned
        BY <1>6, <2>1
    <2>2. CASE ~concerned
        <3>1. e.stage = "aggregate_blocker" /\ e.by = "actor"
            BY <1>5, <1>6, <2>2 DEF ToCome
        <3>2. [e EXCEPT !.stage = "aggregate_blocked"] \in P
            BY <1>4, <3>1
        <3> HIDE DEF P
        <3> QED BY <1>3, <3>1, <3>2 DEF ToCome
    <2> QED BY <2>1, <2>2
<1>7. ActorLeft(e.at) <=> found
    BY DEF ActorLeft
<1>8. a \subseteq {B!Departed}
    OBVIOUS
<1>9. t.event = {e} /\ t.items = B!NoItems /\ t.agg = a /\ t.guard = FALSE /\ t.publish = P
    OBVIOUS
<1> HIDE DEF t, P, a, found
<1>10. WorkReady(t, e)
    BY <1>1, <1>3, <1>6, <1>7, <1>8, <1>9, Without, WithoutItems DEF WorkReady, AggReady
<1>11. FALSE \in BOOLEAN /\ a \in SUBSET B!Agg /\ P \in SUBSET B!Event
    BY <1>3, <1>8, Without
<1> QED BY <1>1, <1>10, <1>11, WithoutItems, WorkedInv DEF t

-----------------------------------------------------------------------------
(* The commit of a handler.                                                *)

\* What a commit writes.
Finishes(w, e) ==
    LET d == work[w] IN
    /\ d \in BlockTx /\ e \in queue /\ WorkReady(d, e)
    /\ item' = [i \in B!Item |-> IF i \in DOMAIN d.items THEN d.items[i] ELSE item[i]]
    /\ d.agg = {} => agg' = agg
    /\ d.agg # {} => d.agg = {agg'}
    /\ queue' = (queue \ {e}) \cup d.publish
    /\ work' = [v \in Workers |-> IF v = w \/ B!Conflict(work[v], d) THEN B!Idle ELSE work[v]]
    /\ UNCHANGED <<now, block, blocked_at, unblocked_at, ask, liking, throws>>

LEMMA FinishOf ==
    ASSUME BlockInv, NEW w \in Workers, B!Commit(w)
    PROVE  \E e \in queue : Finishes(w, e)
<1>1. work[w] # B!Idle /\ work[w] \in BlockTx
    BY DEF B!Commit, BlockInv, BlockTyped
<1>2. PICK e \in queue : WorkReady(work[w], e)
    BY <1>1 DEF BlockInv, BlockReady
<1>3. work[w].event = {e}
    BY <1>2 DEF WorkReady
<1>4. work[w].agg = {} => agg' = agg
    BY DEF B!Commit
<1>5. ASSUME work[w].agg # {} PROVE work[w].agg = {agg'}
    <2>1. PICK g \in B!Agg : work[w].agg \subseteq {g}
        BY <1>2 DEF WorkReady
    <2>2. work[w].agg = {g}
        BY <1>5, <2>1
    <2>3. agg' = CHOOSE x \in {g} : TRUE
        BY <1>5, <2>2 DEF B!Commit
    <2>4. agg' = g
        BY <2>3
    <2> QED BY <2>2, <2>4
<1>6. Finishes(w, e)
    BY <1>1, <1>2, <1>3, <1>4, <1>5 DEF B!Commit, Finishes
<1> QED BY <1>6

\* While a block stands nothing comes back.
LEMMA Suppressed ==
    ASSUME BlockInv, NEW w \in Workers, NEW e \in queue, Finishes(w, e), block # {}
    PROVE  /\ \A i \in B!Item : item'[i].st = "valid" => item'[i] = item[i]
           /\ agg'.src # 0 =>
                agg'.src = agg.src /\ agg'.edge_at = agg.edge_at /\ agg'.created_at = agg.created_at
<1>1. ASSUME NEW i \in B!Item, item'[i].st = "valid" PROVE item'[i] = item[i]
    <2>1. item'[i] = IF i \in DOMAIN work[w].items THEN work[w].items[i] ELSE item[i]
        BY DEF Finishes
    <2>2. i \in DOMAIN work[w].items => work[w].items[i].st # "valid"
        BY DEF Finishes, WorkReady, AppearReady, ItemsReady, AggReady
    <2> QED BY <1>1, <2>1, <2>2
<1>2. ASSUME work[w].agg = {agg'}, agg'.src # 0
      PROVE  agg'.src = agg.src /\ agg'.edge_at = agg.edge_at /\ agg'.created_at = agg.created_at
    <2>1. e.kind # "block"
        BY <1>2 DEF Finishes, WorkReady, ItemsReady, AggReady
    <2> QED BY <1>2, <2>1 DEF Finishes, WorkReady, AppearReady
<1> QED BY <1>1, <1>2 DEF Finishes

LEMMA FinishReady ==
    ASSUME BlockInv, NEW w \in Workers, NEW e \in queue, Finishes(w, e)
    PROVE  BlockReady'
<1> SUFFICES ASSUME NEW v \in Workers, work'[v] # B!Idle PROVE \E d \in queue' : WorkReady(work[v], d)'
    BY DEF BlockReady
<1>1. work'[v] = work[v] /\ v # w /\ ~B!Conflict(work[v], work[w])
    BY DEF Finishes
<1>2. PICK d \in queue : WorkReady(work[v], d)
    BY <1>1 DEF BlockInv, BlockReady
<1>3. d # e /\ d \in queue'
    BY <1>1, <1>2 DEF B!Conflict, WorkReady, Finishes
<1>4. work[v].agg # {} => agg' = agg
    BY <1>1 DEF B!Conflict, Finishes
<1>5. UNCHANGED <<block, blocked_at>>
    BY DEF Finishes
<1>6. WorkReady(work[v], d)'
    <2>1. CASE d.kind # "block"
        <3>1. AppearReady(work[v])'
            BY <1>1, <1>2, <1>4, <1>5, <2>1 DEF WorkReady, AppearReady
        <3> QED BY <1>1, <1>2, <2>1, <3>1 DEF WorkReady
    <2>2. CASE d.kind = "block" /\ d.stage = "individual"
        <3>1. block # {} => \A i \in B!Item : ItemLeft(i, d.at)' => ItemLeft(i, d.at)
            BY Suppressed DEF ItemLeft
        <3>2. ItemsReady(work[v], d)'
            BY <1>1, <1>2, <1>5, <2>2, <3>1 DEF WorkReady, ItemsReady, LatestBlock, ToCome
        <3> QED BY <1>1, <1>2, <2>2, <3>2 DEF WorkReady
    <2>3. CASE d.kind = "block" /\ d.stage # "individual"
        <3>1. block # {} /\ ActorLeft(d.at)' => ActorLeft(d.at)
            BY Suppressed DEF ActorLeft
        <3>2. AggReady(work[v], d)'
            BY <1>1, <1>2, <1>5, <2>3, <3>1 DEF WorkReady, AggReady, LatestBlock, ToCome
        <3> QED BY <1>1, <1>2, <2>3, <3>2 DEF WorkReady
    <2> QED BY <2>1, <2>2, <2>3
<1> QED BY <1>3, <1>6

LEMMA FinishAhead ==
    ASSUME BlockInv, NEW w \in Workers, NEW e \in queue, Finishes(w, e)
    PROVE  Ahead'
<1> SUFFICES ASSUME block # {} PROVE Ahead'
    BY DEF Ahead, Finishes
<1>1. UNCHANGED <<block, blocked_at>> /\ queue' = (queue \ {e}) \cup work[w].publish
    BY DEF Finishes
<1>2. ASSUME NEW i \in B!Item, ItemLeft(i, blocked_at)'
      PROVE  \E d \in queue' : d.kind = "block" /\ d.at = blocked_at /\ d.stage = "individual" /\ i > d.cursor
    <2>1. item'[i] = item[i] /\ ItemLeft(i, blocked_at)
        BY <1>1, <1>2, Suppressed DEF ItemLeft
    <2>2. PICK d \in queue : d.kind = "block" /\ d.at = blocked_at /\ d.stage = "individual" /\ i > d.cursor
        BY <2>1 DEF BlockInv, Ahead
    <2>3. CASE d = e
        <3>1. ItemsReady(work[w], e) /\ LatestBlock(e)
            BY <2>2, <2>3 DEF Finishes, WorkReady, LatestBlock
        <3>2. i \notin DOMAIN work[w].items
            <4>1. i \in DOMAIN work[w].items => item'[i].st = "invalid"
                BY <3>1 DEF Finishes, ItemsReady
            <4> QED BY <1>2, <4>1 DEF ItemLeft
        <3> QED BY <1>1, <2>1, <2>2, <2>3, <3>1, <3>2 DEF ItemsReady
    <2>4. CASE d # e
        BY <1>1, <2>2, <2>4
    <2> QED BY <2>3, <2>4
<1>3. ASSUME ActorLeft(blocked_at)'
      PROVE  \E d \in queue' : d.kind = "block" /\ d.at = blocked_at /\ ToCome(d)
    <2>1. ActorLeft(blocked_at)
        BY <1>1, <1>3, Suppressed DEF ActorLeft
    <2>2. PICK d \in queue : d.kind = "block" /\ d.at = blocked_at /\ ToCome(d)
        BY <2>1 DEF BlockInv, Ahead
    <2>3. CASE d = e /\ e.stage = "individual"
        <3>1. ItemsReady(work[w], e) /\ LatestBlock(e)
            BY <2>2, <2>3 DEF Finishes, WorkReady, LatestBlock
        <3> QED BY <1>1, <2>2, <2>3, <3>1 DEF ItemsReady
    <2>4. CASE d = e /\ e.stage # "individual"
        <3>1. AggReady(work[w], e) /\ LatestBlock(e)
            BY <2>2, <2>4 DEF Finishes, WorkReady, LatestBlock
        <3>2. work[w].agg = {}
            <4>1. work[w].agg # {} => agg'.src = 0
                BY <3>1 DEF Finishes, AggReady
            <4> QED BY <1>3, <4>1 DEF ActorLeft
        <3> QED BY <1>1, <2>1, <2>2, <2>4, <3>1, <3>2 DEF AggReady
    <2>5. CASE d # e
        BY <1>1, <2>2, <2>5
    <2> QED BY <2>3, <2>4, <2>5
<1>4. \A d : ToCome(d)' <=> ToCome(d)
    BY DEF ToCome
<1> QED BY <1>1, <1>2, <1>3, <1>4 DEF Ahead

LEMMA FinishInv ==
    ASSUME BlockInv, NEW w \in Workers, NEW e \in queue, Finishes(w, e)
    PROVE  BlockInv'
<1>1. \A f \in work[w].publish : f \in B!Event /\ f.kind = "block" /\ f.at = e.at /\ e.kind = "block"
    <2>1. work[w].publish \subseteq B!Event
        BY DEF Finishes, BlockTx
    <2> QED BY <2>1 DEF Finishes, WorkReady, AppearReady, ItemsReady, AggReady
<1>2. /\ queue' = (queue \ {e}) \cup work[w].publish
      /\ UNCHANGED <<now, block, blocked_at, unblocked_at, ask, liking, throws>>
    BY DEF Finishes
<1>3. BlockTyped'
    <2>1. work' \in [Workers -> BlockTx]
        BY IdleWork DEF Finishes, BlockInv, BlockTyped
    <2>2. item' \in [B!Item -> B!Doc]
        <3>1. ASSUME NEW i \in B!Item PROVE item'[i] \in B!Doc
            BY WorkItems DEF Finishes, BlockInv, BlockTyped
        <3>2. item' = [i \in B!Item |-> item'[i]]
            BY DEF Finishes
        <3> QED BY <3>1, <3>2
    <2>3. agg' \in B!Agg /\ Proper(agg')
        <3>1. CASE work[w].agg = {}
            BY <3>1 DEF Finishes, BlockInv, BlockTyped
        <3>2. CASE work[w].agg # {}
            <4>1. PICK g \in B!Agg : work[w].agg \subseteq {g} /\ Proper(g)
                BY DEF Finishes, WorkReady
            <4> QED BY <3>2, <4>1 DEF Finishes
        <3> QED BY <3>1, <3>2
    <2>4. Proper(agg)'
        BY <2>3 DEF Proper
    <2> QED BY <1>1, <1>2, <2>1, <2>2, <2>3, <2>4 DEF BlockInv, BlockTyped
<1>4. AsksDated'
    BY <1>1, <1>2 DEF BlockInv, AsksDated
<1> QED BY <1>3, <1>4, FinishReady, FinishAhead DEF BlockInv

-----------------------------------------------------------------------------
LEMMA BlockNext ==
    ASSUME BlockInv, B!Next
    PROVE  BlockInv'
<1>1. ASSUME NEW w \in Workers, B!Handle(w) PROVE BlockInv'
    BY <1>1, MentionedInv, LikedInv, OtherLikedInv, UnlikedInv, CleanIndividualInv, CleanAggregatesInv DEF B!Handle
<1>2. ASSUME NEW w \in Workers, B!Commit(w) PROVE BlockInv'
    BY <1>2, FinishOf, FinishInv
<1> QED BY <1>1, <1>2, ActorInv, AskBlockInv, BlockedInv, UnblockedInv, RefuseBlockInv, WorkFailsInv DEF B!Next

LEMMA BlockGiven == BlockInv => CleanedUp
<1> SUFFICES ASSUME BlockInv, block # {}, ~B!CleaningUp PROVE ~B!Remains(blocked_at)
    BY DEF CleanedUp, B!CleanedUp
<1> QED BY DEF BlockInv, Ahead, ItemLeft, ActorLeft, B!CleaningUp, B!Remains

\* Of a step: what the action property says.
LEMMA NothingAppears ==
    ASSUME BlockInv, B!Next, block # {}
    PROVE  /\ \A i \in B!Item : item'[i].st = "valid" => item[i].st = "valid"
           /\ agg'.src # 0 => agg'.src = agg.src
<1>1. CASE \E w \in Workers : B!Commit(w)
    BY <1>1, FinishOf, Suppressed
<1>2. ASSUME NEW w \in Workers, B!Handle(w) \/ B!Fail(w) PROVE UNCHANGED <<item, agg>>
    <2>1. ASSUME NEW e \in queue, NEW f, NEW a, NEW g, NEW P, B!Handled(w, e, f, a, g, P) PROVE UNCHANGED <<item, agg>>
        BY <2>1 DEF B!Handled
    <2>2. B!Fail(w) => UNCHANGED <<item, agg>>
        BY DEF B!Fail
    <2>3. ASSUME NEW e \in queue, B!HandleMention(w, e) \/ B!HandleLiked(w, e) \/ B!HandleOtherLiked(w, e)
          PROVE  UNCHANGED <<item, agg>>
        BY <2>1, <2>3 DEF B!HandleMention, B!HandleLiked, B!HandleOtherLiked
    <2>4. ASSUME NEW e \in queue, B!HandleUnliked(w, e) \/ B!CleanIndividual(w, e) \/ B!CleanAggregates(w, e)
          PROVE  UNCHANGED <<item, agg>>
        BY <2>1, <2>4 DEF B!HandleUnliked, B!CleanIndividual, B!CleanAggregates
    <2> QED BY <1>2, <2>2, <2>3, <2>4 DEF B!Handle
<1>3. (\E i \in B!Item : B!Mention(i)) \/ B!Like \/ B!Unlike \/ B!OtherLikes => UNCHANGED <<item, agg>>
    BY DEF B!Mention, B!Like, B!Unlike, B!OtherLikes
<1>4. (\E op \in {"block", "unblock"}, by \in Blockers : B!Ask(op, by)) => UNCHANGED <<item, agg>>
    BY DEF B!Ask
<1>5. (\E q \in ask : B!Block(q) \/ B!Unblock(q) \/ B!Refuse(q)) => UNCHANGED <<item, agg>>
    BY DEF B!Block, B!Unblock, B!Refuse
<1> QED BY <1>1, <1>2, <1>3, <1>4, <1>5 DEF B!Next

LEMMA BlockTypes == BlockInv => B!TypeOK
<1> SUFFICES ASSUME BlockInv PROVE B!TypeOK
    OBVIOUS
<1> USE DEF BlockInv
<1>1. ASSUME NEW w \in Workers
      PROVE  /\ work[w].event \subseteq B!Event /\ work[w].publish \subseteq B!Event
             /\ DOMAIN work[w].items \subseteq B!Item /\ \A i \in DOMAIN work[w].items : work[w].items[i] \in B!Doc
             /\ work[w].agg \subseteq B!Agg /\ work[w].guard \in BOOLEAN
    <2>1. work[w] \in BlockTx
        BY DEF BlockTyped
    <2>2. work[w].event \subseteq B!Event /\ work[w].publish \subseteq B!Event /\ work[w].agg \subseteq B!Agg
          /\ work[w].guard \in BOOLEAN
        BY <2>1 DEF BlockTx
    <2> QED BY <2>1, <2>2, WorkItems
<1> QED BY <1>1 DEF B!TypeOK, BlockTyped, Proper

-----------------------------------------------------------------------------
(* The mentions of a tweet.                                                *)

MentionTx ==
    [event : SUBSET T!Event, notes : UNION {[S -> T!Doc] : S \in SUBSET T!Note},
     guard : BOOLEAN, publish : SUBSET T!Event]

MentionsTyped ==
    /\ clock \in T!Time /\ restored_at \in T!Time /\ hidden_at \in T!Time
    /\ tweet \in [st: T!Audience \cup {"absent", "deleted"}, mentions: [T!User -> T!Time]]
    /\ replied \in BOOLEAN /\ edits \subseteq T!Request /\ events \subseteq T!Event
    /\ note \in [T!Note -> T!Doc]
    /\ \A n \in T!Note : note[n].st # "absent" <=> note[n].created_at # 0
    /\ tx \in [Handlers -> MentionTx]

\* Every request of the author has a time of its own, which is that of the
\* clean-up it may start.
EditsDated ==
    /\ \A q \in edits : q.at # 0 /\ q.at <= clock
    /\ \A q, r \in edits : q.at = r.at => q = r
    /\ \A e \in events : e.at # 0 /\ e.at <= clock
    /\ \A e \in events, q \in edits : e.kind = "clean" => e.at # q.at

Unposted ==
    tweet.st = "absent" =>
        events = {} /\ edits = {} /\ \A n \in T!Note : note[n].st = "absent"

AlwaysPublic == tweet.st = "public" /\ restored_at = 0
Secluded == tweet.st \in {"private", "deleted"}

\* What transaction t, which handles event e, relies on.  A change of the
\* tweet, and every other handler that looked at it, would have aborted it.
ChangeReady(t, e) ==
    /\ t.guard /\ t.publish = {} /\ DOMAIN t.notes \subseteq T!User
    /\ \A u \in DOMAIN t.notes :
        \/ t.notes[u].st = "valid" /\ tweet.st = "public" /\ u \in T!Mentioned
        \/ t.notes[u].st = "invalid" /\ u \notin T!Current(e)
    /\ AlwaysPublic =>
        /\ \A u \in e.added \cap T!Mentioned : u \in DOMAIN t.notes \/ T!Valid(u)
        /\ \A u \in e.removed \ T!Mentioned : u \in DOMAIN t.notes \/ ~T!Valid(u)

ReplyReady(t) == ~t.guard /\ t.publish = {} /\ DOMAIN t.notes \subseteq {T!Reply}

\* The clean-up of the latest withdrawal takes along or leaves for its next
\* page all there still is from before: nothing can have come back meanwhile.
Before(u, e) == T!Valid(u) /\ note[u].created_at <= e.at /\ u > e.cursor

CleanReady(t, e) ==
    /\ ~t.guard
    /\ \A n \in DOMAIN t.notes : t.notes[n].st = "invalid"
    /\ \A f \in t.publish : f.kind = "clean" /\ f.at = e.at
    /\ Secluded /\ e.at = hidden_at =>
        \A u \in T!User : Before(u, e) => u \in DOMAIN t.notes \/ \E f \in t.publish : u > f.cursor

TellReady(t, e) ==
    /\ t.event = {e}
    /\ \A n \in DOMAIN t.notes : t.notes[n].st # "absent" /\ t.notes[n].created_at # 0
    /\ \/ e.kind = "changed" /\ ChangeReady(t, e)
       \/ e.kind = "replied" /\ ReplyReady(t)
       \/ e.kind = "clean" /\ CleanReady(t, e)

MentionsReady == \A w \in Handlers : tx[w] = T!Idle \/ \E e \in events : TellReady(tx[w], e)

\* What is missing, or too much, has its event still to come.
Told ==
    AlwaysPublic =>
        /\ \A e \in events : e.kind # "clean"
        /\ \A u \in T!Mentioned : T!Valid(u) \/ \E e \in events : e.kind = "changed" /\ u \in e.added
        /\ \A u \in T!User \ T!Mentioned :
            T!Valid(u) => \E e \in events : e.kind = "changed" /\ u \in e.removed

Swept ==
    Secluded => \A u \in T!User :
        T!Valid(u) /\ note[u].created_at <= hidden_at =>
            \E e \in events : e.kind = "clean" /\ e.at = hidden_at /\ u > e.cursor

MentionsInv == MentionsTyped /\ EditsDated /\ Unposted /\ MentionsReady /\ Told /\ Swept

-----------------------------------------------------------------------------
LEMMA MentionsConstants ==
    /\ Users \in Nat /\ MaxClock \in Nat /\ T!User \subseteq T!Note /\ T!Note \subseteq Nat
    /\ T!Reply \notin T!User /\ T!Reply \in T!Note /\ 0 \in T!Time /\ T!Time \subseteq Nat
BY ConstantsFit DEF T!MentionsAssumption, T!User, T!Note, T!Reply, T!Time

LEMMA IdleTx == T!Idle \in MentionTx
BY DEF T!Idle, MentionTx

LEMMA TxNotes ==
    ASSUME NEW t \in MentionTx
    PROVE  DOMAIN t.notes \subseteq T!Note /\ \A n \in DOMAIN t.notes : t.notes[n] \in T!Doc
BY DEF MentionTx

\* Of the parts of an event.
LEMMA EventParts ==
    ASSUME NEW e \in T!Event
    PROVE  /\ e.at \in T!Time /\ e.kind \in {"changed", "clean", "replied"}
           /\ e.kind = "changed" => e.added \subseteq T!User /\ e.removed \subseteq T!User
           /\ e.kind = "clean" => e.cursor \in 0..Users /\ e = [kind |-> "clean", at |-> e.at, cursor |-> e.cursor]
BY DEF T!Event

LEMMA MentionsStart == T!Init => MentionsInv
<1> SUFFICES ASSUME T!Init PROVE MentionsInv
    OBVIOUS
<1>1. MentionsTyped
    <2>1. tx \in [Handlers -> MentionTx]
        BY IdleTx DEF T!Init
    <2>2. note \in [T!Note -> T!Doc] /\ \A n \in T!Note : note[n].st # "absent" <=> note[n].created_at # 0
        BY MentionsConstants DEF T!Init, T!Doc
    <2>3. tweet \in [st: T!Audience \cup {"absent", "deleted"}, mentions: [T!User -> T!Time]]
        BY MentionsConstants DEF T!Init
    <2> QED BY <2>1, <2>2, <2>3, MentionsConstants DEF MentionsTyped, T!Init
<1>2. EditsDated /\ Unposted
    BY DEF T!Init, EditsDated, Unposted
<1>3. MentionsReady
    BY DEF T!Init, MentionsReady
<1>4. Told /\ Swept
    BY DEF T!Init, Told, Swept, AlwaysPublic, Secluded
<1> QED BY <1>1, <1>2, <1>3, <1>4 DEF MentionsInv

-----------------------------------------------------------------------------
\* A step that leaves the tweet and the notifications alone.
LEMMA StillReady ==
    ASSUME MentionsReady, UNCHANGED <<tweet, restored_at, hidden_at, note, tx>>, events \subseteq events'
    PROVE  MentionsReady'
<1>1. ASSUME NEW w \in Handlers, NEW e \in events, TellReady(tx[w], e) PROVE TellReady(tx[w], e)'
    BY <1>1 DEF TellReady, ChangeReady, ReplyReady, CleanReady, Before, AlwaysPublic, Secluded,
        T!Valid, T!Current, T!PredatesRestore, T!Mentioned
<1> QED BY <1>1 DEF MentionsReady

LEMMA CreateInv ==
    ASSUME MentionsInv, NEW a \in T!Audience, NEW m \in SUBSET T!User, T!Create(a, m)
    PROVE  MentionsInv'
<1> DEFINE e == [kind |-> "changed", at |-> clock + 1, added |-> m, removed |-> {}]
<1> USE DEF MentionsInv
<1>1. /\ events = {} /\ edits = {} /\ \A n \in T!Note : note[n].st = "absent"
      /\ clock < MaxClock /\ clock' = clock + 1 /\ events' = {e}
      /\ tweet' = [st |-> a, mentions |-> [u \in T!User |-> IF u \in m THEN clock + 1 ELSE 0]]
      /\ UNCHANGED <<replied, restored_at, hidden_at, edits, note, tx>>
    BY DEF T!Create, T!Tick, Unposted
<1>2. clock \in Nat /\ MaxClock \in Nat /\ clock' \in T!Time /\ clock' # 0
    BY <1>1, MentionsConstants DEF MentionsTyped, T!Time
<1> HIDE DEF e
<1>3. e \in T!Event /\ e.kind = "changed" /\ e.at = clock + 1 /\ e.added = m /\ e.removed = {}
    BY <1>1, <1>2 DEF T!Event, e
<1>4. MentionsTyped'
    BY <1>1, <1>2, <1>3, MentionsConstants DEF MentionsTyped
<1>5. EditsDated' /\ Unposted'
    BY <1>1, <1>2, <1>3 DEF EditsDated, Unposted, T!Audience
<1>6. MentionsReady'
    BY <1>1 DEF MentionsReady
<1>7. Told'
    BY <1>1, <1>2, <1>3, MentionsConstants DEF Told, AlwaysPublic, T!Mentioned, T!Valid
<1>8. Swept'
    BY <1>1, MentionsConstants DEF Swept, Secluded, T!Valid
<1> QED BY <1>4, <1>5, <1>6, <1>7, <1>8

LEMMA PostReplyInv ==
    ASSUME MentionsInv, T!PostReply
    PROVE  MentionsInv'
<1> DEFINE e == [kind |-> "replied", at |-> clock + 1]
<1> USE DEF MentionsInv
<1>1. /\ tweet.st \in T!Audience /\ clock < MaxClock /\ clock' = clock + 1 /\ events' = events \cup {e}
      /\ replied' = TRUE
      /\ UNCHANGED <<tweet, restored_at, hidden_at, edits, note, tx>>
    BY DEF T!PostReply, T!Tick
<1>2. clock \in Nat /\ MaxClock \in Nat /\ clock' \in T!Time /\ clock' # 0
    BY <1>1, MentionsConstants DEF MentionsTyped, T!Time
<1> HIDE DEF e
<1>3. e \in T!Event /\ e.kind = "replied" /\ e.at = clock + 1
    BY <1>1, <1>2 DEF T!Event, e
<1>4. MentionsTyped'
    BY <1>1, <1>2, <1>3 DEF MentionsTyped
<1>5. EditsDated'
    <2>1. (\A q \in edits : q.at \in Nat) /\ \A d \in events : d.at \in Nat
        BY MentionsConstants, EventParts DEF MentionsTyped, T!Request
    <2> QED BY <1>1, <1>2, <1>3, <2>1 DEF EditsDated
<1>6. Unposted'
    BY <1>1 DEF Unposted, T!Audience
<1>7. MentionsReady'
    BY <1>1, StillReady
<1>8. Told' /\ Swept'
    BY <1>1, <1>3 DEF Told, AlwaysPublic, T!Mentioned, T!Valid, Swept, Secluded
<1> QED BY <1>4, <1>5, <1>6, <1>7, <1>8

LEMMA AskInv ==
    ASSUME MentionsInv, NEW r, r \in T!Request, r.at = clock + 1, T!Ask(r)
    PROVE  MentionsInv'
<1> USE DEF MentionsInv
<1>1. /\ tweet.st \in T!Audience /\ clock < MaxClock /\ clock' = clock + 1 /\ edits' = edits \cup {r}
      /\ UNCHANGED <<tweet, replied, restored_at, hidden_at, note, events, tx>>
    BY DEF T!Ask, T!Tick
<1>2. clock \in Nat /\ MaxClock \in Nat /\ clock' \in T!Time /\ clock' # 0
    BY <1>1, MentionsConstants DEF MentionsTyped, T!Time
<1>3. MentionsTyped'
    BY <1>1, <1>2 DEF MentionsTyped
<1>4. EditsDated'
    <2>1. (\A q \in edits : q.at \in Nat) /\ \A e \in events : e.at \in Nat
        BY MentionsConstants, EventParts DEF MentionsTyped, T!Request
    <2> QED BY <1>1, <1>2, <2>1 DEF EditsDated
<1>5. Unposted' /\ Told' /\ Swept'
    BY <1>1 DEF Unposted, T!Audience, Told, AlwaysPublic, T!Mentioned, T!Valid, Swept, Secluded
<1>6. MentionsReady'
    BY <1>1, StillReady
<1> QED BY <1>3, <1>4, <1>5, <1>6
-----------------------------------------------------------------------------
\* The request commits and aborts whoever looked at the tweet.
LEMMA Aborted ==
    ASSUME MentionsInv, tx' = T!Unguarded, note' = note, events \subseteq events',
           Secluded' => \/ Secluded /\ hidden_at' = hidden_at
                        \/ \A e \in events : e.kind = "clean" => e.at # hidden_at'
    PROVE  MentionsReady' /\ tx' \in [Handlers -> MentionTx]
<1> USE DEF MentionsInv
<1>1. ASSUME NEW w \in Handlers PROVE tx'[w] = IF tx[w].guard THEN T!Idle ELSE tx[w]
    BY DEF T!Unguarded
<1>2. tx' \in [Handlers -> MentionTx]
    BY <1>1, IdleTx DEF MentionsTyped, T!Unguarded
<1>3. ASSUME NEW w \in Handlers, NEW e \in events, TellReady(tx[w], e), tx'[w] = tx[w], ~tx[w].guard
      PROVE  TellReady(tx[w], e)'
    <2>1. CASE e.kind = "replied"
        BY <1>3, <2>1 DEF TellReady, ReplyReady
    <2>2. CASE e.kind = "clean"
        BY <1>3, <2>2 DEF TellReady, CleanReady, Before, T!Valid
    <2>3. CASE e.kind = "changed"
        BY <1>3, <2>3 DEF TellReady, ChangeReady
    <2> QED BY <2>1, <2>2, <2>3, EventParts DEF MentionsTyped
<1>4. ASSUME NEW w \in Handlers, tx'[w] # T!Idle PROVE \E e \in events' : TellReady(tx[w], e)'
    <2>1. tx'[w] = tx[w] /\ ~tx[w].guard
        BY <1>1, <1>4
    <2>2. PICK e \in events : TellReady(tx[w], e)
        BY <1>4, <2>1 DEF MentionsReady
    <2> QED BY <1>3, <2>1, <2>2
<1> QED BY <1>2, <1>4 DEF MentionsReady

LEMMA UpdateInv ==
    ASSUME MentionsInv, NEW q \in edits, T!Update(q)
    PROVE  MentionsInv'
<1> DEFINE added == q.mentions \ T!Mentioned
           removed == T!Mentioned \ q.mentions
           hides == tweet.st = "public" /\ q.audience = "private"
           restores == tweet.st = "private" /\ q.audience = "public"
           clean == [kind |-> "clean", at |-> q.at, cursor |-> 0]
           changed == [kind |-> "changed", at |-> q.at, added |-> added, removed |-> removed]
           new == IF hides THEN {clean} ELSE IF added \cup removed = {} THEN {} ELSE {changed}
<1> USE DEF MentionsInv
<1>1. /\ q.op = "update" /\ tweet.st \in T!Audience
      /\ tweet' = [st |-> q.audience,
                   mentions |-> [u \in T!User |-> IF u \in added THEN q.at
                                                  ELSE IF u \in removed THEN 0 ELSE tweet.mentions[u]]]
      /\ restored_at' = IF restores THEN q.at ELSE IF hides THEN 0 ELSE restored_at
      /\ hidden_at' = IF hides THEN q.at ELSE hidden_at
      /\ events' = events \cup new
      /\ edits' = edits \ {q} /\ tx' = T!Unguarded
      /\ UNCHANGED <<clock, replied, note>>
    BY DEF T!Update
<1>2. /\ q.at \in T!Time /\ q.audience \in T!Audience /\ q.mentions \subseteq T!User
      /\ q.at # 0 /\ q.at <= clock
    BY <1>1 DEF MentionsTyped, T!Request, EditsDated
<1>3. clean \in T!Event /\ clean.kind = "clean" /\ clean.at = q.at /\ clean.cursor = 0
    BY <1>2, MentionsConstants DEF T!Event
<1>4. changed \in T!Event /\ changed.kind = "changed" /\ changed.at = q.at
      /\ changed.added = added /\ changed.removed = removed
    BY <1>2 DEF T!Event, T!Mentioned
<1> HIDE DEF clean, changed
<1>5. \A u \in T!User : tweet'.mentions[u] = IF u \in added THEN q.at
                                             ELSE IF u \in removed THEN 0 ELSE tweet.mentions[u]
    BY <1>1
<1>6. tweet'.st = q.audience
    BY <1>1
<1>7. \A u \in T!User : (u \in T!Mentioned)' <=> u \in added \/ (u \in T!Mentioned /\ u \notin removed)
    BY <1>2, <1>5 DEF T!Mentioned
<1> HIDE DEF added, removed
<1>8. \A e \in events' : e \in events \/ (hides /\ e = clean) \/ (~hides /\ e = changed)
    BY <1>1
<1>9. AlwaysPublic' => AlwaysPublic /\ ~hides
    BY <1>1, <1>2, <1>6 DEF AlwaysPublic, T!Audience
<1>10. Secluded' => hides \/ (Secluded /\ ~hides)
    BY <1>1, <1>2, <1>6 DEF Secluded, T!Audience
<1>11. MentionsReady' /\ tx' \in [Handlers -> MentionTx]
    <2>1. \A e \in events : e.kind = "clean" => e.at # q.at
        BY DEF EditsDated
    <2> QED BY <1>1, <1>10, <2>1, Aborted
<1>12. MentionsTyped'
    <2>1. tweet' \in [st: T!Audience \cup {"absent", "deleted"}, mentions: [T!User -> T!Time]]
        BY <1>1, <1>2, MentionsConstants DEF MentionsTyped
    <2>2. restored_at' \in T!Time /\ hidden_at' \in T!Time
        BY <1>1, <1>2, MentionsConstants DEF MentionsTyped
    <2>3. events' \subseteq T!Event
        BY <1>3, <1>4, <1>8 DEF MentionsTyped
    <2> QED BY <1>1, <1>11, <2>1, <2>2, <2>3 DEF MentionsTyped
<1>13. EditsDated'
    BY <1>1, <1>2, <1>3, <1>4, <1>8 DEF EditsDated
<1>14. Unposted'
    BY <1>2, <1>6 DEF Unposted, T!Audience
<1>15. Told'
    <2> SUFFICES ASSUME AlwaysPublic' PROVE Told'
        BY DEF Told
    <2>1. AlwaysPublic /\ ~hides /\ note' = note
        BY <1>1, <1>9
    <2>2. \A e \in events' : e.kind # "clean"
        BY <1>4, <1>8, <2>1 DEF Told
    <2>3. ASSUME NEW u \in T!Mentioned' 
          PROVE  T!Valid(u)' \/ \E e \in events' : e.kind = "changed" /\ u \in e.added
        <3>1. u \in T!User
            BY DEF T!Mentioned
        <3>2. CASE u \in added
            BY <1>1, <1>4, <2>1, <3>2
        <3>3. CASE u \in T!Mentioned
            BY <1>1, <2>1, <3>3 DEF Told, T!Valid
        <3> QED BY <1>7, <2>3, <3>1, <3>2, <3>3
    <2>4. ASSUME NEW u \in T!User \ T!Mentioned', T!Valid(u)'
          PROVE  \E e \in events' : e.kind = "changed" /\ u \in e.removed
        <3>1. CASE u \in removed
            BY <1>1, <1>4, <2>1, <3>1
        <3>2. CASE u \notin T!Mentioned
            BY <1>1, <2>1, <2>4, <3>2 DEF Told, T!Valid
        <3> QED BY <1>7, <2>4, <3>1, <3>2
    <2> QED BY <2>2, <2>3, <2>4 DEF Told
<1>16. Swept'
    <2>1. CASE hides
        BY <1>1, <1>3, <2>1, MentionsConstants DEF Swept, T!User
    <2>2. CASE Secluded /\ ~hides
        BY <1>1, <2>2 DEF Swept, T!Valid
    <2> QED BY <1>10, <2>1, <2>2 DEF Swept
<1> QED BY <1>11, <1>12, <1>13, <1>14, <1>15, <1>16

LEMMA DeleteInv ==
    ASSUME MentionsInv, NEW q \in edits, T!Delete(q)
    PROVE  MentionsInv'
<1> DEFINE clean == [kind |-> "clean", at |-> q.at, cursor |-> 0]
<1> USE DEF MentionsInv
<1>1. /\ tweet.st \in T!Audience /\ tweet' = [tweet EXCEPT !.st = "deleted"]
      /\ restored_at' = 0 /\ hidden_at' = q.at
      /\ events' = events \cup {clean}
      /\ edits' = edits \ {q} /\ tx' = T!Unguarded
      /\ UNCHANGED <<clock, replied, note>>
    BY DEF T!Delete
<1>2. q.at \in T!Time /\ q.at # 0 /\ q.at <= clock
    BY DEF MentionsTyped, T!Request, EditsDated
<1>3. clean \in T!Event /\ clean.kind = "clean" /\ clean.at = q.at /\ clean.cursor = 0
    BY <1>2, MentionsConstants DEF T!Event
<1> HIDE DEF clean
<1>4. tweet'.st = "deleted"
    BY <1>1 DEF MentionsTyped
<1>5. MentionsReady' /\ tx' \in [Handlers -> MentionTx]
    <2>1. \A e \in events : e.kind = "clean" => e.at # q.at
        BY DEF EditsDated
    <2> QED BY <1>1, <2>1, Aborted
<1>6. MentionsTyped'
    <2>1. tweet' \in [st: T!Audience \cup {"absent", "deleted"}, mentions: [T!User -> T!Time]]
        BY <1>1 DEF MentionsTyped
    <2> QED BY <1>1, <1>2, <1>3, <1>5, <2>1, MentionsConstants DEF MentionsTyped
<1>7. EditsDated'
    BY <1>1, <1>2, <1>3 DEF EditsDated
<1>8. Unposted' /\ Told'
    BY <1>4 DEF Unposted, Told, AlwaysPublic
<1>9. Swept'
    BY <1>1, <1>3, MentionsConstants DEF Swept, T!User
<1> QED BY <1>5, <1>6, <1>7, <1>8, <1>9

LEMMA RefuseInv ==
    ASSUME MentionsInv, NEW q \in edits, T!Refuse(q)
    PROVE  MentionsInv'
<1> USE DEF MentionsInv
<1>1. /\ tweet.st = "deleted" /\ edits' = edits \ {q}
      /\ UNCHANGED <<clock, tweet, replied, restored_at, hidden_at, note, events, tx>>
    BY DEF T!Refuse
<1>2. MentionsTyped' /\ EditsDated' /\ Unposted'
    BY <1>1 DEF MentionsTyped, EditsDated, Unposted
<1>3. MentionsReady'
    BY <1>1, StillReady
<1>4. Told' /\ Swept'
    BY <1>1 DEF Told, AlwaysPublic, T!Mentioned, T!Valid, Swept, Secluded
<1> QED BY <1>2, <1>3, <1>4

-----------------------------------------------------------------------------
\* A handler has decided.
LEMMA TellingInv ==
    ASSUME MentionsInv, NEW w \in Handlers, NEW e \in events,
           NEW f \in UNION {[S -> T!Doc] : S \in SUBSET T!Note}, NEW g \in BOOLEAN,
           NEW P \in SUBSET T!Event, T!Handled(w, e, f, g, P),
           TellReady([event |-> {e}, notes |-> f, guard |-> g, publish |-> P], e)
    PROVE  MentionsInv'
<1> DEFINE t == [event |-> {e}, notes |-> f, guard |-> g, publish |-> P]
<1> USE DEF MentionsInv
<1>1. /\ tx' = [tx EXCEPT ![w] = t]
      /\ UNCHANGED <<clock, tweet, replied, restored_at, hidden_at, edits, note, events>>
    BY DEF T!Handled
<1>2. t \in MentionTx
    BY DEF MentionTx, MentionsTyped
<1> HIDE DEF t
<1>3. MentionsTyped' /\ EditsDated' /\ Unposted' /\ Told' /\ Swept'
    BY <1>1, <1>2 DEF MentionsTyped, EditsDated, Unposted, Told, AlwaysPublic, T!Mentioned, T!Valid,
        Swept, Secluded
<1>4. MentionsReady'
    <2> SUFFICES ASSUME NEW v \in Handlers, tx'[v] # T!Idle PROVE \E d \in events' : TellReady(tx[v], d)'
        BY DEF MentionsReady
    <2>1. CASE v = w
        <3>1. tx'[v] = t /\ TellReady(t, e)
            BY <1>1, <2>1 DEF t, MentionsTyped
        <3>2. TellReady(tx[v], e)'
            BY <1>1, <3>1 DEF TellReady, ChangeReady, ReplyReady, CleanReady, Before, AlwaysPublic, Secluded,
                T!Valid, T!Current, T!PredatesRestore, T!Mentioned
        <3> QED BY <1>1, <3>2
    <2>2. CASE v # w
        <3>1. PICK x : x = tx[v] /\ x = tx'[v]
            BY <1>1, <2>2 DEF MentionsTyped
        <3>2. PICK d \in events : TellReady(x, d)
            BY <3>1 DEF MentionsReady
        <3>3. TellReady(x, d)'
            BY <1>1, <3>2 DEF TellReady, ChangeReady, ReplyReady, CleanReady, Before, AlwaysPublic,
                Secluded, T!Valid, T!Current, T!PredatesRestore, T!Mentioned
        <3> QED BY <1>1, <3>1, <3>3
    <2> QED BY <2>1, <2>2
<1> QED BY <1>3, <1>4

LEMMA HandleChangedInv ==
    ASSUME MentionsInv, NEW w \in Handlers, NEW e \in events, T!HandleChanged(w, e)
    PROVE  MentionsInv'
<1> DEFINE create == {u \in e.added \cap T!Current(e) : ~T!Valid(u)}
           remove == {u \in e.removed \ T!Current(e) : T!Valid(u)}
           f == [u \in create \cup remove |-> IF u \in create THEN T!Created(u, e) ELSE T!Invalidated(u)]
           t == [event |-> {e}, notes |-> f, guard |-> TRUE, publish |-> {}]
<1>1. e.kind = "changed" /\ T!Handled(w, e, f, TRUE, {})
    BY DEF T!HandleChanged
<1>2. e \in T!Event /\ e.at \in T!Time /\ e.at # 0 /\ e.added \subseteq T!User /\ e.removed \subseteq T!User
    BY <1>1, EventParts DEF MentionsInv, MentionsTyped, EditsDated
<1>3. create \cup remove \subseteq T!User
    BY <1>2
<1>4. ASSUME NEW u \in create
      PROVE  f[u] = T!Created(u, e) /\ f[u] \in T!Doc /\ f[u].st = "valid" /\ f[u].created_at # 0
    BY <1>2, <1>3, MentionsConstants DEF T!Created, T!Doc, MentionsInv, MentionsTyped
<1>5. ASSUME NEW u \in remove, u \notin create
      PROVE  f[u] = T!Invalidated(u) /\ f[u] \in T!Doc /\ f[u].st = "invalid" /\ f[u].created_at # 0
    <2>1. u \in T!Note /\ note[u] \in T!Doc /\ note[u].st = "valid" /\ note[u].created_at # 0
        BY <1>3, MentionsConstants DEF T!Valid, MentionsInv, MentionsTyped
    <2>2. f[u] = [note[u] EXCEPT !.st = "invalid"]
        BY <1>5 DEF T!Invalidated
    <2> QED BY <1>5, <2>1, <2>2 DEF T!Doc, T!Invalidated
<1>6. f \in [create \cup remove -> T!Doc]
    BY <1>4, <1>5
<1>7. f \in UNION {[S -> T!Doc] : S \in SUBSET T!Note}
    BY <1>3, <1>6, MentionsConstants
<1>8. TellReady(t, e)
    <2>1. \A u \in create : u \in T!Current(e) /\ tweet.st = "public" /\ u \in T!Mentioned
        BY DEF T!Current
    <2>2. \A u \in remove : u \notin T!Current(e)
        OBVIOUS
    <2>3. ASSUME AlwaysPublic PROVE T!Current(e) = T!Mentioned
        BY <2>3 DEF AlwaysPublic, T!Current, T!PredatesRestore
    <2>4. DOMAIN f = create \cup remove
        OBVIOUS
    <2>5. \A u \in create \cup remove : f[u].st \in {"valid", "invalid"} /\ f[u].created_at # 0
        BY <1>4, <1>5
    <2>6. \A u \in create \cup remove :
            \/ f[u].st = "valid" /\ tweet.st = "public" /\ u \in T!Mentioned
            \/ f[u].st = "invalid" /\ u \notin T!Current(e)
        BY <1>4, <1>5, <2>1, <2>2
    <2>7. AlwaysPublic =>
            /\ \A u \in e.added \cap T!Mentioned : u \in create \cup remove \/ T!Valid(u)
            /\ \A u \in e.removed \ T!Mentioned : u \in create \cup remove \/ ~T!Valid(u)
        BY <2>3
    <2>8. /\ t.event = {e} /\ t.notes = f /\ t.guard = TRUE /\ t.publish = {}
        OBVIOUS
    <2> HIDE DEF t, f, create, remove
    <2>9. ChangeReady(t, e)
        BY <1>3, <2>4, <2>6, <2>7, <2>8 DEF ChangeReady
    <2> QED BY <1>1, <2>4, <2>5, <2>8, <2>9 DEF TellReady
<1> HIDE DEF f
<1>9. TRUE \in BOOLEAN /\ {} \in SUBSET T!Event
    OBVIOUS
<1> QED BY <1>1, <1>7, <1>8, <1>9, TellingInv DEF t

LEMMA HandleRepliedInv ==
    ASSUME MentionsInv, NEW w \in Handlers, NEW e \in events, T!HandleReplied(w, e)
    PROVE  MentionsInv'
<1> DEFINE D == {m \in {T!Reply} : tweet.st # "deleted"}
           f == [n \in D |-> T!Created(n, e)]
           t == [event |-> {e}, notes |-> f, guard |-> FALSE, publish |-> {}]
<1>1. e.kind = "replied" /\ T!Handled(w, e, f, FALSE, {})
    BY DEF T!HandleReplied
<1>2. e \in T!Event /\ e.at \in T!Time /\ e.at # 0
    BY EventParts DEF MentionsInv, MentionsTyped, EditsDated
<1>3. D \subseteq T!Note
    BY MentionsConstants
<1>4. ASSUME NEW n \in D
      PROVE  f[n] \in T!Doc /\ f[n].st = "valid" /\ f[n].created_at # 0
    BY <1>2, <1>3, MentionsConstants DEF T!Created, T!Doc, MentionsInv, MentionsTyped
<1>5. f \in UNION {[S -> T!Doc] : S \in SUBSET T!Note}
    <2>1. f \in [D -> T!Doc]
        BY <1>4
    <2> HIDE DEF f, D
    <2> QED BY <1>3, <2>1
<1>6. t.event = {e} /\ t.notes = f /\ t.guard = FALSE /\ t.publish = {} /\ DOMAIN f = D
    OBVIOUS
<1> HIDE DEF t, f
<1>7. TellReady(t, e)
    BY <1>1, <1>4, <1>6 DEF TellReady, ReplyReady
<1>8. FALSE \in BOOLEAN /\ {} \in SUBSET T!Event
    OBVIOUS
<1> QED BY <1>1, <1>5, <1>7, <1>8, TellingInv DEF t

LEMMA CleanInv ==
    ASSUME MentionsInv, NEW w \in Handlers, NEW e \in events, T!Clean(w, e)
    PROVE  MentionsInv'
<1> DEFINE targets == {n \in T!Note : T!Valid(n) /\ note[n].created_at <= e.at /\ n > e.cursor}
           page == {n \in targets : \A m \in targets : n <= m}
           f == [n \in page |-> T!Invalidated(n)]
           P == {[e EXCEPT !.cursor = n] : n \in {m \in page : targets # page}}
           t == [event |-> {e}, notes |-> f, guard |-> FALSE, publish |-> P]
<1>1. e.kind = "clean" /\ T!Handled(w, e, f, FALSE, P)
    BY DEF T!Clean
<1>2. e \in T!Event /\ e = [kind |-> "clean", at |-> e.at, cursor |-> e.cursor]
      /\ e.at \in T!Time /\ e.cursor \in 0..Users
    BY <1>1, EventParts DEF MentionsInv, MentionsTyped
<1>3. targets \subseteq T!Note /\ page \subseteq T!Note
    OBVIOUS
<1>4. ASSUME NEW n \in page
      PROVE  f[n] \in T!Doc /\ f[n].st = "invalid" /\ f[n].created_at # 0
    <2>1. n \in T!Note /\ note[n] \in T!Doc /\ note[n].st = "valid" /\ note[n].created_at # 0
        BY DEF T!Valid, MentionsInv, MentionsTyped
    <2> QED BY <2>1 DEF T!Doc, T!Invalidated
<1>5. f \in UNION {[S -> T!Doc] : S \in SUBSET T!Note}
    <2>1. f \in [page -> T!Doc]
        BY <1>4
    <2> HIDE DEF f, page
    <2> QED BY <1>3, <2>1
<1>6. ASSUME NEW n \in page, targets # page
      PROVE  LET d == [e EXCEPT !.cursor = n] IN
             d \in P /\ d \in T!Event /\ d.kind = "clean" /\ d.at = e.at /\ d.cursor = n
    <2>1. PICK m \in targets : m \notin page
        BY <1>6
    <2>2. n <= m /\ n # m /\ n \in 1..(Users + 1) /\ m \in 1..(Users + 1)
        BY <2>1 DEF T!Note
    <2>3. n \in 0..Users
        BY <2>2, MentionsConstants
    <2>4. [e EXCEPT !.cursor = n] = [kind |-> "clean", at |-> e.at, cursor |-> n]
        BY <1>2
    <2>5. [e EXCEPT !.cursor = n] \in P
        BY <1>6
    <2> HIDE DEF P
    <2> QED BY <1>2, <2>3, <2>4, <2>5 DEF T!Event
<1>7. \A d \in P : d \in T!Event /\ d.kind = "clean" /\ d.at = e.at
    <2> SUFFICES ASSUME NEW d \in P PROVE d \in T!Event /\ d.kind = "clean" /\ d.at = e.at
        OBVIOUS
    <2>1. PICK n \in page : targets # page /\ d = [e EXCEPT !.cursor = n]
        OBVIOUS
    <2> HIDE DEF P, page, targets
    <2> QED BY <1>6, <2>1
<1>8. ASSUME NEW u \in targets PROVE u \in page \/ \E d \in P : u > d.cursor
    <2>1. targets \subseteq Nat /\ targets # {}
        BY <1>3, MentionsConstants
    <2>2. PICK n \in targets : \A m \in targets : n <= m
        BY <2>1, Least
    <2>3. CASE u # n
        <3>1. CASE targets = page
            BY <3>1
        <3>2. CASE targets # page
            <4>1. n \in page /\ n < u
                BY <2>1, <2>2, <2>3
            <4> HIDE DEF page, P, targets
            <4> QED BY <1>6, <3>2, <4>1
        <3> QED BY <3>1, <3>2
    <2> QED BY <2>2, <2>3
<1>9. t.event = {e} /\ t.notes = f /\ t.guard = FALSE /\ t.publish = P /\ DOMAIN f = page
    OBVIOUS
<1>10. \A u \in T!User : Before(u, e) => u \in targets
    BY MentionsConstants DEF Before
<1> HIDE DEF t, f, P, page, targets
<1>11. TellReady(t, e)
    BY <1>1, <1>4, <1>7, <1>8, <1>9, <1>10 DEF TellReady, CleanReady
<1> QED BY <1>1, <1>5, <1>7, <1>11, TellingInv DEF t

-----------------------------------------------------------------------------
(* The commit of a handler.                                                *)

\* What a commit writes.
Tells(w, e) ==
    LET d == tx[w] IN
    /\ d \in MentionTx /\ e \in events /\ TellReady(d, e)
    /\ note' = [n \in T!Note |-> IF n \in DOMAIN d.notes THEN d.notes[n] ELSE note[n]]
    /\ events' = (events \ {e}) \cup d.publish
    /\ tx' = [v \in Handlers |-> IF v = w \/ T!Conflict(tx[v], d) THEN T!Idle ELSE tx[v]]
    /\ UNCHANGED <<clock, tweet, replied, restored_at, hidden_at, edits>>

LEMMA TellOf ==
    ASSUME MentionsInv, NEW w \in Handlers, T!Commit(w)
    PROVE  \E e \in events : Tells(w, e)
<1>1. tx[w] # T!Idle /\ tx[w] \in MentionTx
    BY DEF T!Commit, MentionsInv, MentionsTyped
<1>2. PICK e \in events : TellReady(tx[w], e)
    BY <1>1 DEF MentionsInv, MentionsReady
<1>3. tx[w].event = {e}
    BY <1>2 DEF TellReady
<1>4. Tells(w, e)
    BY <1>1, <1>2, <1>3 DEF T!Commit, Tells
<1> QED BY <1>4

\* Nothing comes back but what is mentioned now, and nothing else at all while
\* the handler of an answer or a clean-up commits.
LEMMA Written ==
    ASSUME MentionsInv, NEW w \in Handlers, NEW e \in events, Tells(w, e), NEW u \in T!User
    PROVE  /\ T!Valid(u)' =>
                \/ T!Valid(u) /\ note'[u] = note[u]
                \/ e.kind = "changed" /\ tweet.st = "public" /\ u \in T!Mentioned
           /\ e.kind = "replied" => note'[u] = note[u]
<1>1. u \in T!Note /\ u # T!Reply
    BY MentionsConstants
<1>2. note'[u] = IF u \in DOMAIN tx[w].notes THEN tx[w].notes[u] ELSE note[u]
    BY <1>1 DEF Tells
<1>3. e.kind = "replied" => u \notin DOMAIN tx[w].notes
    BY <1>1 DEF Tells, TellReady, ReplyReady
<1>4. ASSUME u \in DOMAIN tx[w].notes, tx[w].notes[u].st = "valid"
      PROVE  e.kind = "changed" /\ tweet.st = "public" /\ u \in T!Mentioned
    <2>1. e.kind \in {"changed", "clean"}
        BY <1>3, <1>4, EventParts DEF MentionsInv, MentionsTyped
    <2>2. e.kind # "clean"
        BY <1>4 DEF Tells, TellReady, CleanReady
    <2> QED BY <1>4, <2>1, <2>2 DEF Tells, TellReady, ChangeReady
<1> QED BY <1>2, <1>3, <1>4 DEF T!Valid

LEMMA TellersReady ==
    ASSUME MentionsInv, NEW w \in Handlers, NEW e \in events, Tells(w, e)
    PROVE  MentionsReady'
<1> SUFFICES ASSUME NEW v \in Handlers, tx'[v] # T!Idle PROVE \E d \in events' : TellReady(tx[v], d)'
    BY DEF MentionsReady
<1>1. tx'[v] = tx[v] /\ v # w /\ ~T!Conflict(tx[v], tx[w])
    BY DEF Tells
<1>2. PICK d \in events : TellReady(tx[v], d)
    BY <1>1 DEF MentionsInv, MentionsReady
<1>3. d # e /\ d \in events'
    BY <1>1, <1>2 DEF T!Conflict, TellReady, Tells
<1>4. ~(tx[v].guard /\ tx[w].guard)
    BY <1>1 DEF T!Conflict
<1>5. TellReady(tx[v], d)'
    <2>1. CASE d.kind = "changed"
        <3>1. tx[v].guard
            BY <1>2, <2>1 DEF TellReady, ChangeReady
        <3>2. e.kind # "changed"
            BY <1>4, <3>1 DEF Tells, TellReady, ChangeReady
        <3>3. AlwaysPublic => e.kind = "replied"
            BY <3>2, EventParts DEF MentionsInv, Told, MentionsTyped
        <3>4. AlwaysPublic => \A u \in T!User : note'[u] = note[u]
            BY <3>3, Written
        <3>5. d.added \subseteq T!User /\ d.removed \subseteq T!User
            BY <2>1, EventParts DEF MentionsInv, MentionsTyped
        <3>6. UNCHANGED <<tweet, restored_at, hidden_at>>
            BY DEF Tells
        <3>7. ChangeReady(tx[v], d)'
            BY <1>1, <1>2, <2>1, <3>4, <3>5, <3>6 DEF TellReady, ChangeReady, AlwaysPublic, T!Valid, T!Current,
                T!PredatesRestore, T!Mentioned
        <3> QED BY <1>1, <1>2, <2>1, <3>7 DEF TellReady
    <2>2. CASE d.kind = "replied"
        BY <1>1, <1>2, <2>2 DEF TellReady, ReplyReady
    <2>3. CASE d.kind = "clean"
        <3>1. UNCHANGED <<tweet, restored_at, hidden_at>>
            BY DEF Tells
        <3>2. Secluded => \A u \in T!User : Before(u, d)' => Before(u, d)
            BY <3>1, Written DEF Before, Secluded
        <3>3. CleanReady(tx[v], d)'
            BY <1>1, <1>2, <2>3, <3>1, <3>2 DEF TellReady, CleanReady, Secluded
        <3> QED BY <1>1, <1>2, <2>3, <3>3 DEF TellReady
    <2> QED BY <2>1, <2>2, <2>3, EventParts DEF MentionsInv, MentionsTyped
<1> QED BY <1>3, <1>5

LEMMA ToldNext ==
    ASSUME MentionsInv, NEW w \in Handlers, NEW e \in events, Tells(w, e)
    PROVE  Told'
<1> SUFFICES ASSUME AlwaysPublic PROVE Told'
    BY DEF Told, AlwaysPublic, Tells
<1>1. UNCHANGED <<tweet, restored_at>> /\ (\A n \in T!User : (n \in T!Mentioned)' <=> n \in T!Mentioned)
    BY DEF Tells, T!Mentioned
<1>2. e.kind \in {"changed", "replied"} /\ \A d \in events : d.kind # "clean"
    BY EventParts DEF MentionsInv, MentionsTyped, Told
<1>3. tx[w].publish = {} /\ events' = events \ {e}
    BY <1>2 DEF Tells, TellReady, ChangeReady, ReplyReady
<1>4. ASSUME NEW u \in T!User
      PROVE  /\ u \in T!Mentioned => T!Valid(u)' \/ \E d \in events' : d.kind = "changed" /\ u \in d.added
             /\ u \notin T!Mentioned /\ T!Valid(u)' => \E d \in events' : d.kind = "changed" /\ u \in d.removed
    <2>1. CASE e.kind = "replied"
        <3>1. T!Valid(u)' <=> T!Valid(u)
            BY <2>1, Written DEF T!Valid
        <3> QED BY <1>3, <2>1, <3>1 DEF MentionsInv, Told
    <2>2. CASE e.kind = "changed"
        <3>1. ChangeReady(tx[w], e) /\ T!Current(e) = T!Mentioned
            BY <2>2 DEF Tells, TellReady, T!Current, T!PredatesRestore, AlwaysPublic
        <3>2. note'[u] = IF u \in DOMAIN tx[w].notes THEN tx[w].notes[u] ELSE note[u]
            BY MentionsConstants DEF Tells
        <3>3. CASE u \in DOMAIN tx[w].notes
            BY <3>1, <3>2, <3>3 DEF ChangeReady, T!Valid
        <3>4. CASE u \notin DOMAIN tx[w].notes
            <4>1. T!Valid(u)' <=> T!Valid(u)
                BY <3>2, <3>4 DEF T!Valid
            <4>2. /\ u \in T!Mentioned /\ ~T!Valid(u) => u \notin e.added
                  /\ u \notin T!Mentioned /\ T!Valid(u) => u \notin e.removed
                BY <3>1, <3>4 DEF ChangeReady
            <4> QED BY <1>3, <4>1, <4>2 DEF MentionsInv, Told
        <3> QED BY <3>3, <3>4
    <2> QED BY <1>2, <2>1, <2>2
<1>5. T!Mentioned \subseteq T!User
    BY DEF T!Mentioned
<1> QED BY <1>1, <1>2, <1>3, <1>4, <1>5 DEF Told, T!Mentioned

LEMMA SweptNext ==
    ASSUME MentionsInv, NEW w \in Handlers, NEW e \in events, Tells(w, e)
    PROVE  Swept'
<1> SUFFICES ASSUME Secluded, NEW u \in T!User, T!Valid(u)', note'[u].created_at <= hidden_at
             PROVE  \E d \in events' : d.kind = "clean" /\ d.at = hidden_at /\ u > d.cursor
    BY DEF Swept, Secluded, Tells
<1>1. T!Valid(u) /\ note'[u] = note[u]
    BY Written DEF Secluded
<1>2. PICK d \in events : d.kind = "clean" /\ d.at = hidden_at /\ u > d.cursor
    BY <1>1 DEF MentionsInv, Swept
<1>3. events' = (events \ {e}) \cup tx[w].publish
    BY DEF Tells
<1>4. CASE d = e
    <2>1. CleanReady(tx[w], e) /\ Before(u, e)
        BY <1>1, <1>2, <1>4 DEF Tells, TellReady, Before
    <2>2. u \notin DOMAIN tx[w].notes
        BY <2>1, MentionsConstants DEF Tells, CleanReady, T!Valid
    <2> QED BY <1>2, <1>3, <1>4, <2>1, <2>2 DEF CleanReady
<1>5. CASE d # e
    BY <1>2, <1>3, <1>5
<1> QED BY <1>4, <1>5

LEMMA TellInv ==
    ASSUME MentionsInv, NEW w \in Handlers, NEW e \in events, Tells(w, e)
    PROVE  MentionsInv'
<1>1. \A f \in tx[w].publish : f \in T!Event /\ f.kind = "clean" /\ f.at = e.at /\ e.kind = "clean"
    <2>1. tx[w].publish \subseteq T!Event
        BY DEF Tells, MentionTx
    <2> QED BY <2>1 DEF Tells, TellReady, ChangeReady, ReplyReady, CleanReady
<1>2. events' = (events \ {e}) \cup tx[w].publish /\ UNCHANGED <<clock, tweet, replied, restored_at, hidden_at, edits>>
    BY DEF Tells
<1>3. MentionsTyped'
    <2>1. tx' \in [Handlers -> MentionTx]
        BY IdleTx DEF Tells, MentionsInv, MentionsTyped
    <2>2. ASSUME NEW n \in T!Note
          PROVE  note'[n] \in T!Doc /\ (note'[n].st # "absent" <=> note'[n].created_at # 0)
        <3>1. note'[n] = IF n \in DOMAIN tx[w].notes THEN tx[w].notes[n] ELSE note[n]
            BY DEF Tells
        <3>2. CASE n \in DOMAIN tx[w].notes
            BY <3>1, <3>2, TxNotes DEF Tells, TellReady
        <3> QED BY <3>1, <3>2 DEF MentionsInv, MentionsTyped
    <2>3. note' \in [T!Note -> T!Doc]
        <3>1. note' = [n \in T!Note |-> note'[n]]
            BY DEF Tells
        <3> QED BY <2>2, <3>1
    <2> QED BY <1>1, <1>2, <2>1, <2>2, <2>3 DEF MentionsInv, MentionsTyped
<1>4. EditsDated' /\ Unposted'
    BY <1>1, <1>2 DEF MentionsInv, EditsDated, Unposted
<1> QED BY <1>3, <1>4, TellersReady, ToldNext, SweptNext DEF MentionsInv

-----------------------------------------------------------------------------
LEMMA MentionsNext ==
    ASSUME MentionsInv, T!Next
    PROVE  MentionsInv'
<1>1. ASSUME NEW a \in T!Audience, NEW m \in SUBSET T!User,
             T!Ask([op |-> "update", at |-> clock + 1, audience |-> a, mentions |-> m])
      PROVE  MentionsInv'
    <2>1. clock + 1 \in T!Time
        BY <1>1, MentionsConstants DEF T!Ask, T!Tick, MentionsInv, MentionsTyped, T!Time
    <2>2. [op |-> "update", at |-> clock + 1, audience |-> a, mentions |-> m] \in T!Request
        BY <2>1 DEF T!Request
    <2> QED BY <1>1, <2>2, AskInv
<1>2. ASSUME T!Ask([op |-> "delete", at |-> clock + 1]) PROVE MentionsInv'
    <2>1. clock + 1 \in T!Time
        BY <1>2, MentionsConstants DEF T!Ask, T!Tick, MentionsInv, MentionsTyped, T!Time
    <2>2. [op |-> "delete", at |-> clock + 1] \in T!Request
        BY <2>1 DEF T!Request
    <2> QED BY <1>2, <2>2, AskInv
<1>3. ASSUME NEW w \in Handlers, T!Commit(w) PROVE MentionsInv'
    BY <1>3, TellOf, TellInv
<1> QED BY <1>1, <1>2, <1>3, CreateInv, PostReplyInv, UpdateInv, DeleteInv, RefuseInv, HandleChangedInv,
        HandleRepliedInv, CleanInv DEF T!Next

LEMMA MentionsGiven == MentionsInv => MentionsConverge
<1> SUFFICES ASSUME MentionsInv PROVE MentionsConverge
    OBVIOUS
<1>1. ASSUME tweet.st = "public", restored_at = 0, events = {}
      PROVE  \A u \in T!User : T!Valid(u) <=> u \in T!Mentioned
    BY <1>1 DEF MentionsInv, Told, AlwaysPublic
<1>2. ASSUME tweet.st \in {"private", "deleted"}, \A e \in events : e.kind # "clean", NEW u \in T!User, T!Valid(u)
      PROVE  note[u].created_at > hidden_at
    <2>1. ~(note[u].created_at <= hidden_at)
        BY <1>2 DEF MentionsInv, Swept, Secluded
    <2>2. note[u].created_at \in Nat /\ hidden_at \in Nat
        BY MentionsConstants DEF MentionsInv, MentionsTyped, T!Doc
    <2> QED BY <2>1, <2>2
<1> QED BY <1>1, <1>2 DEF MentionsConverge, T!MentionsConverge

\* Of a step: what the action property says.
LEMMA OnlyCurrent ==
    ASSUME MentionsInv, T!Next, NEW u \in T!User, tweet.st # "public" \/ u \notin T!Mentioned, note'[u].st = "valid"
    PROVE  T!Valid(u)
<1>1. CASE \E w \in Handlers : T!Commit(w)
    BY <1>1, TellOf, Written DEF T!Valid
<1>2. ASSUME NEW w \in Handlers, NEW e \in events, T!HandleChanged(w, e) \/ T!HandleReplied(w, e) \/ T!Clean(w, e)
      PROVE  note' = note
    <2>1. ASSUME NEW f, NEW g, NEW P, T!Handled(w, e, f, g, P) PROVE note' = note
        BY <2>1 DEF T!Handled
    <2> QED BY <1>2, <2>1 DEF T!HandleChanged, T!HandleReplied, T!Clean
<1>3. ASSUME NEW q \in edits, T!Update(q) \/ T!Delete(q) \/ T!Refuse(q) PROVE note' = note
    BY <1>3 DEF T!Update, T!Delete, T!Refuse
<1>4. \A r : T!Ask(r) => note' = note
    BY DEF T!Ask
<1>5. (\E a \in T!Audience, m \in SUBSET T!User : T!Create(a, m)) \/ T!PostReply => note' = note
    BY DEF T!Create, T!PostReply
<1> QED BY <1>1, <1>2, <1>3, <1>4, <1>5 DEF T!Next, T!Valid

LEMMA MentionsTypes == MentionsInv => T!TypeOK
<1> SUFFICES ASSUME MentionsInv PROVE T!TypeOK
    OBVIOUS
<1> USE DEF MentionsInv
<1>1. ASSUME NEW w \in Handlers
      PROVE  /\ tx[w].event \subseteq events /\ tx[w].publish \subseteq T!Event
             /\ DOMAIN tx[w].notes \subseteq T!Note
             /\ \A n \in DOMAIN tx[w].notes : tx[w].notes[n] \in T!Doc
    <2>1. tx[w] \in MentionTx
        BY DEF MentionsTyped
    <2>2. tx[w].publish \subseteq T!Event
        BY <2>1 DEF MentionTx
    <2>3. tx[w].event \subseteq events
        BY DEF MentionsReady, TellReady, T!Idle
    <2> QED BY <2>1, <2>2, <2>3, TxNotes
<1> QED BY <1>1 DEF T!TypeOK, MentionsTyped

-----------------------------------------------------------------------------
(* An uploaded file.                                                       *)

\* Before the insert there is no document to remove; afterwards the asset stays
\* until its removal is asked for.
MediaInv ==
    /\ upload \in {"parsed", "stored"} => doc = "none" /\ removal = "no"
    /\ upload = "stored" => asset
    /\ removal # "no" => excused
    /\ doc # "none" => asset \/ excused

LEMMA MediaStart == M!Init => MediaInv
BY DEF M!Init, MediaInv

LEMMA MediaNext ==
    ASSUME MediaInv, M!Next
    PROVE  MediaInv' /\ (doc \in {"ready", "failed"} => doc' \in {doc, "none"})
<1> USE DEF MediaInv
<1>1. CASE M!Store \/ M!Insert \/ M!InsertReady \/ M!InsertFails
    BY <1>1 DEF M!Store, M!Insert, M!InsertReady, M!InsertFails
<1>2. CASE M!Enqueue \/ M!GiveUp
    BY <1>2 DEF M!Enqueue, M!GiveUp
<1>3. ASSUME NEW w \in Hand, M!Take(w) \/ M!Look(w)
      PROVE  UNCHANGED <<asset, doc, upload, removal, excused>>
    BY <1>3 DEF M!Take, M!Look
<1>4. ASSUME NEW w \in Hand, M!Process(w) \/ M!Fail(w)
      PROVE  /\ UNCHANGED <<asset, upload, removal, excused>>
             /\ doc' = doc \/ (doc = "pending" /\ doc' \in {"ready", "failed"})
    BY <1>4 DEF M!Process, M!Fail
<1>5. CASE M!Stall \/ M!Forget
    BY <1>5 DEF M!Stall, M!Forget
<1>6. CASE M!ScanFinds \/ M!ScanLooks \/ M!ScanSettles \/ M!ScanQueues \/ M!ScanFails
    BY <1>6 DEF M!ScanFinds, M!ScanLooks, M!ScanSettles, M!ScanQueues, M!ScanFails
<1>7. CASE M!Ask \/ M!Unstore \/ M!Erase
    BY <1>7 DEF M!Ask, M!Unstore, M!Erase
<1> QED BY <1>1, <1>2, <1>3, <1>4, <1>5, <1>6, <1>7 DEF M!Next

-----------------------------------------------------------------------------
(* The theorems about blocks.                                              *)

LEMMA BlockRests == BlockInv /\ UNCHANGED B!vars => BlockInv'
<1> SUFFICES ASSUME BlockInv, UNCHANGED B!vars PROVE BlockInv'
    OBVIOUS
<1>1. UNCHANGED <<now, block, blocked_at, unblocked_at, ask, liking, item, agg, queue, work, throws>>
    BY DEF B!vars
<1>2. BlockReady' /\ Ahead'
    BY <1>1, SameBlock DEF BlockInv
<1> QED BY <1>1, <1>2 DEF BlockInv, BlockTyped, AsksDated

LEMMA BlockInvariance == BlockSpec => []BlockInv
<1>1. BlockInv /\ [B!Next]_B!vars => BlockInv'
    BY BlockNext, BlockRests
<1> QED BY <1>1, BlockStart, PTL DEF BlockSpec, B!Spec

\* Every document, event, request and open transaction has its type.
THEOREM BlocksTyped == BlockSpec => []B!TypeOK
<1>1. BlockInv => B!TypeOK
    BY BlockTypes
<1> QED BY <1>1, BlockInvariance, PTL

\* BlockLifecycle!CleanedUp: when the clean-ups of all blocks are over and a
\* block stands, nothing from before it is left.  What is left is ahead of the
\* clean-up of the latest block, which nothing can slip behind: as long as a
\* block stands nothing comes back.
THEOREM BlocksAreCleanedUp == BlockSpec => []CleanedUp
<1>1. BlockInv => CleanedUp
    BY BlockGiven
<1> QED BY <1>1, BlockInvariance, PTL

\* BlockLifecycle!SuppressedWhileBlocked: a handler that makes the actor appear
\* has touched the guard of the pair, so that the block aborts it.
THEOREM BlocksSuppress == BlockSpec => SuppressedWhileBlocked
<1>1. BlockInv /\ [B!Next]_B!vars =>
        [block # {} => /\ \A i \in B!Item : item'[i].st = "valid" => item[i].st = "valid"
                       /\ agg'.src # 0 => agg'.src = agg.src]_B!vars
    BY NothingAppears
<1> QED BY <1>1, BlockInvariance, PTL DEF BlockSpec, B!Spec, SuppressedWhileBlocked, B!SuppressedWhileBlocked

-----------------------------------------------------------------------------
(* The theorems about mentions and files: each part keeps its invariant    *)
(* while it runs, and rests with it while the other does.                  *)

LifeInv == MentionsInv /\ MediaInv

LEMMA MentionsRest == MentionsInv /\ UNCHANGED mentionVars => MentionsInv'
<1> SUFFICES ASSUME MentionsInv, UNCHANGED mentionVars PROVE MentionsInv'
    OBVIOUS
<1>1. UNCHANGED <<clock, tweet, replied, restored_at, hidden_at, edits, note, events, tx>>
    BY DEF mentionVars
<1>2. MentionsReady'
    BY <1>1, StillReady DEF MentionsInv
<1>3. Told' /\ Swept' /\ Unposted'
    BY <1>1 DEF MentionsInv, Told, AlwaysPublic, T!Mentioned, T!Valid, Swept, Secluded, Unposted
<1> QED BY <1>1, <1>2, <1>3 DEF MentionsInv, MentionsTyped, EditsDated

LEMMA LifeStarts == LifeInit => LifeInv
BY MentionsStart, MediaStart DEF LifeInit, LifeInv

LEMMA LifeMoves ==
    ASSUME LifeInv, [LifeNext]_lifeVars
    PROVE  LifeInv'
<1>1. T!Next \/ UNCHANGED mentionVars
    BY DEF LifeNext, lifeVars
<1>2. M!Next \/ UNCHANGED mediaVars
    BY DEF LifeNext, lifeVars
<1>3. MediaInv /\ UNCHANGED mediaVars => MediaInv'
    BY DEF MediaInv, mediaVars
<1> QED BY <1>1, <1>2, <1>3, MentionsNext, MentionsRest, MediaNext DEF LifeInv

LEMMA LifeInvariance == LifeSpec => []LifeInv
<1>1. LifeInv /\ [LifeNext]_lifeVars => LifeInv'
    BY LifeMoves
<1> QED BY <1>1, LifeStarts, PTL DEF LifeSpec

\* Every document, event, request and open transaction has its type.
THEOREM MentionsAreTyped == LifeSpec => []T!TypeOK
<1>1. LifeInv => T!TypeOK
    BY MentionsTypes DEF LifeInv
<1> QED BY <1>1, LifeInvariance, PTL

\* TweetMentions!MentionsConverge: when every event is processed a tweet that
\* was always public notifies whom it mentions; after the clean-up of a hidden
\* or deleted one no mention from before is left.
THEOREM MentionsSettle == LifeSpec => []MentionsConverge
<1>1. LifeInv => MentionsConverge
    BY MentionsGiven DEF LifeInv
<1> QED BY <1>1, LifeInvariance, PTL

\* TweetMentions!OnlyCurrentMentions: nobody comes to be notified of a mention
\* that is gone, or in a tweet that is not public.
THEOREM MentionsStayCurrent == LifeSpec => OnlyCurrentMentions
<1>1. LifeInv /\ [LifeNext]_lifeVars =>
        [\A u \in T!User :
            (tweet.st # "public" \/ u \notin T!Mentioned) /\ note'[u].st = "valid" => T!Valid(u)]_T!vars
    <2> SUFFICES ASSUME LifeInv, [LifeNext]_lifeVars
                 PROVE  \/ \A u \in T!User :
                            (tweet.st # "public" \/ u \notin T!Mentioned) /\ note'[u].st = "valid" => T!Valid(u)
                        \/ UNCHANGED T!vars
        OBVIOUS
    <2>1. CASE T!Next
        BY <2>1, OnlyCurrent DEF LifeInv
    <2>2. CASE UNCHANGED mentionVars
        BY <2>2 DEF mentionVars, T!vars
    <2> QED BY <2>1, <2>2 DEF LifeNext, lifeVars
<1> QED BY <1>1, LifeInvariance, PTL DEF LifeSpec, OnlyCurrentMentions, T!OnlyCurrentMentions

\* Media!OutcomeFinal and Media!ReadyStored: a file that is ready or failed is
\* not taken back, and is in the storage while it is ready, unless its removal
\* was asked for or its insert was reported as failed though it was made.
THEOREM OutcomesAreFinal == LifeSpec => OutcomeFinal
<1>1. LifeInv /\ [LifeNext]_lifeVars => [(doc \in {"ready", "failed"}) => (doc' \in {doc, "none"})]_M!vars
    <2> SUFFICES ASSUME LifeInv, [LifeNext]_lifeVars
                 PROVE  (doc \in {"ready", "failed"} => doc' \in {doc, "none"}) \/ UNCHANGED M!vars
        OBVIOUS
    <2>1. CASE M!Next
        BY <2>1, MediaNext DEF LifeInv
    <2>2. CASE UNCHANGED mediaVars
        BY <2>2 DEF mediaVars, M!vars
    <2> QED BY <2>1, <2>2 DEF LifeNext, lifeVars
<1>2. LifeInv => M!ReadyStored
    BY DEF LifeInv, MediaInv, M!ReadyStored
<1> QED BY <1>1, <1>2, LifeInvariance, PTL DEF LifeSpec, OutcomeFinal, M!OutcomeFinal

=============================================================================
