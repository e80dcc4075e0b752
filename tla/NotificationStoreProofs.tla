---------------------- MODULE NotificationStoreProofs ----------------------
(***************************************************************************)
(* Proofs about NotificationStore.  The inductive invariant says of every  *)
(* open transaction that its commit would keep the invariants: its         *)
(* counters are those of the documents as they would then be.  The         *)
(* conflict rule carries this over the commits of others: whoever changes  *)
(* whether a notification of r is unread also writes the counter of r,     *)
(* whoever changes an edge also writes its window, and whoever opens a     *)
(* window claims its key.                                                  *)
(***************************************************************************)
EXTENDS NotificationStore, FiniteSetTheorems, TLAPS

UnreadDoc(d) == d.st = "valid" /\ ~d.is_read
OpenDoc(d) == d.st = "valid" /\ d.active
UnreadIn(nt, r) == {n \in Note : Recipient[n] = r /\ UnreadDoc(nt[n])}
ActorsIn(eg, x) == {a \in Actor : eg[<<x, a>>] # NoSource}

\* Counter c was emitted for a state that is now s.
Agrees(c, s) == c.version <= s.version /\ (c.version = s.version => c.unread_count = s.unread_count)

\* The counters draft d leaves are exact, and newer than the committed ones.
Counts(d, nt, st) ==
    \A r \in DOMAIN d.state :
        /\ d.state[r].unread_count = Cardinality(UnreadIn(Overlay(d.note, nt), r))
        /\ d.state[r].version > st[r].version

\* Draft d writes the counter of every recipient whose unread set it changes.
Covers(d, nt) ==
    \A n \in DOMAIN d.note : \/ Recipient[n] \in DOMAIN d.state
                             \/ UnreadDoc(d.note[n]) <=> UnreadDoc(nt[n])

Replies(d, st) ==
    \A r \in DOMAIN d.reply : Agrees(d.reply[r], IF r \in DOMAIN d.state THEN d.state[r] ELSE st[r])

\* Draft d writes the window of every edge it changes, with the right count.
Edges(d, nt, eg) ==
    /\ \A n \in DOMAIN d.note : d.note[n].st # "absent"
    /\ \A p \in DOMAIN d.edge : p[1] \in DOMAIN d.note
    /\ \A x \in Window \cap DOMAIN d.note :
        d.note[x].st = "valid" =>
            /\ d.note[x].actor_count = Cardinality(ActorsIn(Overlay(d.edge, eg), x))
            /\ ActorsIn(Overlay(d.edge, eg), x) # {}

\* Draft d opens no second window, and claims the key of one it opens.
Opens(d, nt) ==
    /\ \A x \in Window \cap DOMAIN d.note :
        OpenDoc(d.note[x]) => UnreadDoc(d.note[x]) /\ (OpenDoc(nt[x]) \/ KeyOf[x] \in d.keys)
    /\ \A x, y \in Window :
        OpenDoc(Overlay(d.note, nt)[x]) /\ OpenDoc(Overlay(d.note, nt)[y]) /\ KeyOf[x] = KeyOf[y] => x = y

\* Draft d makes nothing that was read unread, other than by invalidating it.
Rereads(d, nt) ==
    \A n \in DOMAIN d.note :
        nt[n].st = "valid" /\ nt[n].is_read /\ d.note[n].st = "valid" => d.note[n].is_read

Good(d, nt, eg, st) ==
    /\ Counts(d, nt, st) /\ Covers(d, nt) /\ Replies(d, st)
    /\ Edges(d, nt, eg) /\ Opens(d, nt) /\ Rereads(d, nt)

\* The badges shown and the replies on their way agree with the state.
Emitted ==
    /\ \A r \in User : Agrees(seen[r], state[r])
    /\ \A t \in Txn : pc[t] = "committed" =>
            \A r \in DOMAIN draft[t].reply : Agrees(draft[t].reply[r], state[r])

\* A window that was never created has no edges.
Unborn == \A x \in Window : note[x].st = "absent" => ActorsIn(edge, x) = {}

IInv ==
    /\ TypeOK /\ Unborn
    /\ UnreadCountExact /\ ActorCountExact /\ OneOpenWindow /\ Emitted
    /\ \A t \in Txn : pc[t] = "open" => Good(draft[t], note, edge, state)
    /\ \A t \in Txn : pc[t] = "asked" => ask[t].who # NoUser

-----------------------------------------------------------------------------
(* Counting.                                                               *)

LEMMA OverlayType ==
    ASSUME NEW S, NEW T, NEW f, NEW g \in [S -> T], WritesTo(f, S, T)
    PROVE  /\ Overlay(f, g) \in [S -> T]
           /\ \A d \in S : Overlay(f, g)[d] = IF d \in DOMAIN f THEN f[d] ELSE g[d]
BY DEF Overlay, WritesTo

LEMMA CountMoved ==
    ASSUME NEW S, IsFiniteSet(S), NEW U \in SUBSET S, NEW P \in SUBSET S, NEW Q \in SUBSET U,
           P \cap U = {}, P \cap Q = {}
    PROVE  /\ Cardinality(U) \in Nat /\ Cardinality(P) \in Nat /\ Cardinality(Q) \in Nat
           /\ Cardinality((U \cup P) \ Q) = Minus(Cardinality(U) + Cardinality(P), Cardinality(Q))
<1>1. IsFiniteSet(U) /\ IsFiniteSet(P) BY FS_Subset
<1>2. IsFiniteSet(Q) /\ Cardinality(Q) <= Cardinality(U) BY <1>1, FS_Subset
<1>3. /\ Cardinality(U) \in Nat /\ Cardinality(P) \in Nat /\ Cardinality(Q) \in Nat
  BY <1>1, <1>2, FS_CardinalityType
<1>4. /\ IsFiniteSet(U \cup P)
      /\ Cardinality(U \cup P) = Cardinality(U) + Cardinality(P)
  <2>1. U \cap P = {} OBVIOUS
  <2>2. Cardinality({}) = 0 BY FS_EmptySet
  <2>3. /\ IsFiniteSet(U \cup P)
        /\ Cardinality(U \cup P) = Cardinality(U) + Cardinality(P) - Cardinality(U \cap P)
    BY <1>1, FS_Union
  <2> QED BY <1>3, <2>1, <2>2, <2>3
<1>5. (U \cup P) \cap Q = Q OBVIOUS
<1>6. Cardinality((U \cup P) \ Q) = Cardinality(U \cup P) - Cardinality(Q)
  BY <1>4, <1>5, FS_Difference
<1> QED BY <1>2, <1>3, <1>4, <1>6 DEF Minus

LEMMA NotesMoved ==
    \A U, P, Q \in SUBSET Note :
        Q \subseteq U /\ P \cap U = {} /\ P \cap Q = {} =>
            /\ Cardinality(P) \in Nat /\ Cardinality(Q) \in Nat
            /\ Cardinality((U \cup P) \ Q) = Minus(Cardinality(U) + Cardinality(P), Cardinality(Q))
<1> SUFFICES ASSUME NEW U \in SUBSET Note, NEW P \in SUBSET Note, NEW Q \in SUBSET Note,
                    Q \subseteq U, P \cap U = {}, P \cap Q = {}
             PROVE  /\ Cardinality(P) \in Nat /\ Cardinality(Q) \in Nat
                    /\ Cardinality((U \cup P) \ Q)
                         = Minus(Cardinality(U) + Cardinality(P), Cardinality(Q))
  OBVIOUS
<1>1. IsFiniteSet(Note) BY StoreAssumption
<1>2. Q \in SUBSET U OBVIOUS
<1> QED BY <1>1, <1>2, CountMoved

\* The documents w make exactly the notifications in up unread, and those in
\* down not unread.
Moves(w, up, down) ==
    /\ WritesTo(w, Note, NoteDoc)
    /\ up \in SUBSET Note /\ down \in SUBSET Note
    /\ \A n \in up : n \in DOMAIN w /\ ~Unread(n) /\ UnreadDoc(w[n])
    /\ \A n \in down : n \in DOMAIN w /\ Unread(n) /\ ~UnreadDoc(w[n])
    /\ \A n \in DOMAIN w : n \in up \cup down \/ (UnreadDoc(w[n]) <=> UnreadDoc(note[n]))

\* Then the counters are those of the documents as they will be.
LEMMA AdjustedCounts ==
    ASSUME TypeOK, UnreadCountExact, NEW up, NEW down, NEW w, Moves(w, up, down),
           NEW c, c \in {Adjusted(up, down), AdjustedAtOnce(up, down)}
    PROVE  /\ WritesTo(c, User, Counter)
           /\ \A r \in DOMAIN c : /\ c[r].unread_count = Cardinality(UnreadIn(Overlay(w, note), r))
                                  /\ c[r].version > state[r].version
           /\ \A n \in DOMAIN w : Recipient[n] \in DOMAIN c \/ (UnreadDoc(w[n]) <=> UnreadDoc(note[n]))
<1> USE DEF Moves
<1> DEFINE ofr(r, S) == {n \in S : Recipient[n] = r}
<1>0. DOMAIN c = Recipients(up \cup down) BY DEF Adjusted, AdjustedAtOnce
<1>1. DOMAIN c \subseteq User BY <1>0, StoreAssumption DEF Recipients
<1>2. ASSUME NEW r \in DOMAIN c
      PROVE  /\ c[r] \in Counter
             /\ c[r].unread_count = Cardinality(UnreadIn(Overlay(w, note), r))
             /\ c[r].version > state[r].version
  <2>1. r \in User BY <1>1
  <2>2. /\ note \in [Note -> NoteDoc] /\ state[r] \in Counter BY <2>1 DEF TypeOK
  <2>3. UnreadIn(Overlay(w, note), r) = (UnreadIn(note, r) \cup ofr(r, up)) \ ofr(r, down)
    BY <2>2, OverlayType DEF UnreadIn, UnreadDoc, Unread
  <2>4. /\ UnreadIn(note, r) \in SUBSET Note /\ ofr(r, up) \in SUBSET Note
        /\ ofr(r, down) \in SUBSET UnreadIn(note, r)
        /\ ofr(r, up) \cap UnreadIn(note, r) = {} /\ ofr(r, up) \cap ofr(r, down) = {}
    BY DEF UnreadIn, UnreadDoc, Unread
  <2>5. IsFiniteSet(Note) BY StoreAssumption
  <2>6. /\ Cardinality(ofr(r, up)) \in Nat /\ Cardinality(ofr(r, down)) \in Nat
        /\ Cardinality(UnreadIn(Overlay(w, note), r))
             = Minus(Cardinality(UnreadIn(note, r)) + Cardinality(ofr(r, up)), Cardinality(ofr(r, down)))
    <3> HIDE DEF ofr
    <3> DEFINE U == UnreadIn(note, r)
               P == ofr(r, up)
               Q == ofr(r, down)
    <3>1. /\ U \in SUBSET Note /\ P \in SUBSET Note /\ Q \in SUBSET Note
          /\ Q \subseteq U /\ P \cap U = {} /\ P \cap Q = {}
      BY <2>4
    <3> HIDE DEF U, P, Q
    <3>2. /\ Cardinality(P) \in Nat /\ Cardinality(Q) \in Nat
          /\ Cardinality((U \cup P) \ Q) = Minus(Cardinality(U) + Cardinality(P), Cardinality(Q))
      BY <3>1, NotesMoved
    <3> QED BY <2>3, <3>2 DEF U, P, Q
  <2>7. state[r].unread_count = Cardinality(UnreadIn(note, r))
    BY <2>1 DEF UnreadCountExact, UnreadIn, UnreadDoc, Unread
  <2>8. Of(r, up) = Cardinality(ofr(r, up)) /\ Of(r, down) = Cardinality(ofr(r, down)) BY DEF Of
  <2>9. Of(r, up) + Of(r, down) > 0
    <3>1. ofr(r, up) # {} \/ ofr(r, down) # {} BY <1>0 DEF Recipients
    <3>2. /\ IsFiniteSet(ofr(r, up)) /\ IsFiniteSet(ofr(r, down)) BY <2>5, FS_Subset
    <3> HIDE DEF ofr
    <3>3. Cardinality(ofr(r, up)) # 0 \/ Cardinality(ofr(r, down)) # 0 BY <3>1, <3>2, FS_EmptySet
    <3> QED BY <3>3, <2>6, <2>8
  <2> HIDE DEF ofr
  <2>10. state[r].unread_count \in Nat /\ state[r].version \in Nat BY <2>2 DEF Counter
  <2>20. \/ c[r] = [unread_count |-> Minus(state[r].unread_count + Of(r, up), Of(r, down)),
                    version |-> state[r].version + Of(r, up) + Of(r, down)]
         \/ c[r] = [unread_count |-> Minus(state[r].unread_count + Of(r, up), Of(r, down)),
                    version |-> state[r].version + 1]
    <3>1. CASE c = Adjusted(up, down) BY <1>0, <3>1 DEF Adjusted
    <3>2. CASE c = AdjustedAtOnce(up, down) BY <1>0, <3>2 DEF AdjustedAtOnce
    <3> QED BY <3>1, <3>2
  <2>11. c[r].unread_count = Minus(state[r].unread_count + Of(r, up), Of(r, down)) BY <2>20
  <2>12. c[r].version = state[r].version + Of(r, up) + Of(r, down) \/ c[r].version = state[r].version + 1
    BY <2>20
  <2>13. c[r] = [unread_count |-> c[r].unread_count, version |-> c[r].version] BY <2>20
  <2>14. c[r].unread_count \in Nat BY <2>6, <2>8, <2>10, <2>11 DEF Minus
  <2>15. c[r].version \in Nat /\ c[r].version > state[r].version BY <2>6, <2>8, <2>9, <2>10, <2>12
  <2> QED BY <2>6, <2>7, <2>8, <2>11, <2>13, <2>14, <2>15 DEF Counter
<1>3. c \in [DOMAIN c -> Counter] 
  <2>1. c = [r \in DOMAIN c |-> c[r]] BY DEF Adjusted, AdjustedAtOnce
  <2> QED BY <2>1, <1>2
<1>4. \A n \in up \cup down : Recipient[n] \in DOMAIN c BY <1>0 DEF Recipients
<1> QED BY <1>1, <1>2, <1>3, <1>4 DEF WritesTo

-----------------------------------------------------------------------------
(* The steps every operation shares.                                       *)

LEMMA InitInvariant == Init => IInv
<1> SUFFICES ASSUME Init PROVE IInv OBVIOUS
<1>1. TypeOK
  <2>1. IsDraft(NoDraft) BY DEF IsDraft, NoDraft, Nothing, WritesTo
  <2> QED BY <2>1, StoreAssumption
    DEF Init, TypeOK, NoNote, NoteDoc, Counter, ZeroCounter, NoAsk, Ask
<1>2. UnreadCountExact
  <2>1. \A r \in User : {n \in Note : Recipient[n] = r /\ Unread(n)} = {}
    BY DEF Init, Unread, NoNote
  <2> QED BY <2>1, FS_EmptySet DEF Init, UnreadCountExact, ZeroCounter
<1>3. ActorCountExact /\ OneOpenWindow
  BY DEF Init, ActorCountExact, OneOpenWindow, Open, NoNote, Note
<1>4. Emitted /\ Unborn BY DEF Init, Emitted, Agrees, ZeroCounter, Unborn, ActorsIn, Edge
<1>5. \A t \in Txn : pc[t] # "open" /\ pc[t] # "asked" BY DEF Init
<1> QED BY <1>1, <1>2, <1>3, <1>4, <1>5 DEF IInv

LEMMA RunKeeps ==
    ASSUME IInv, NEW t \in Txn, NEW N, NEW E, NEW C, NEW K, NEW R, Run(t, N, E, C, K, R),
           NEW d, d = [note |-> N, edge |-> E, state |-> C, keys |-> K, reply |-> R],
           IsDraft(d), Good(d, note, edge, state)
    PROVE  IInv'
<1>1. /\ note' = note /\ edge' = edge /\ state' = state /\ ask' = ask /\ seen' = seen
      /\ pc' = [pc EXCEPT ![t] = "open"] /\ draft' = [draft EXCEPT ![t] = d]
      /\ now < MaxRuns /\ now' = now + 1
  BY DEF Run
<1>2. TypeOK BY DEF IInv
<1>3. TypeOK'
  <2>1. DOMAIN draft' = Txn /\ \A x \in Txn : IsDraft(draft'[x]) BY <1>1, <1>2 DEF TypeOK
  <2>2. now' \in 0..MaxRuns BY <1>1, <1>2, StoreAssumption DEF TypeOK
  <2>3. pc' \in [Txn -> {"idle", "asked", "open", "committed"}] BY <1>1, <1>2 DEF TypeOK
  <2>4. \A x \in Txn : IsDraft(draft[x])' BY <2>1 DEF IsDraft, WritesTo, NoteDoc, Counter, Note, Edge
  <2> QED BY <1>1, <1>2, <2>1, <2>2, <2>3, <2>4 DEF TypeOK
<1>4. (UnreadCountExact /\ ActorCountExact /\ OneOpenWindow /\ Unborn)'
  BY <1>1 DEF IInv, UnreadCountExact, ActorCountExact, OneOpenWindow, Unborn, ActorsIn, Unread, Open, ActorsOf
<1>5. \A x \in Txn : x # t => pc'[x] = pc[x] /\ draft'[x] = draft[x] BY <1>1, <1>2 DEF TypeOK
<1>6. pc'[t] = "open" /\ draft'[t] = d BY <1>1, <1>2 DEF TypeOK
<1>7. Emitted' BY <1>1, <1>5, <1>6 DEF IInv, Emitted
<1>8. \A x \in Txn : pc'[x] = "open" => Good(draft'[x], note, edge, state)
  BY <1>5, <1>6 DEF IInv
<1>9. (\A x \in Txn : pc[x] = "open" => Good(draft[x], note, edge, state))'
  BY <1>1, <1>8
<1>10. (\A x \in Txn : pc[x] = "asked" => ask[x].who # NoUser)'
  BY <1>1, <1>5, <1>6 DEF IInv
<1> QED BY <1>3, <1>4, <1>7, <1>9, <1>10 DEF IInv

LEMMA AgreesLater ==
    ASSUME NEW c \in Counter, NEW s \in Counter, NEW n \in Counter, Agrees(c, s), n.version > s.version
    PROVE  Agrees(c, n)
BY DEF Agrees, Counter

\* The documents after the commit of t: those it wrote, and all others.
LEMMA Committed ==
    ASSUME IInv, NEW t \in Txn, Commit(t)
    PROVE  /\ note \in [Note -> NoteDoc] /\ state \in [User -> Counter]
           /\ note' \in [Note -> NoteDoc] /\ state' \in [User -> Counter]
           /\ edge' \in [Edge -> Source \cup {NoSource}]
           /\ IsDraft(draft[t]) /\ Good(draft[t], note, edge, state)
           /\ \A n \in Note : note'[n] = IF n \in DOMAIN draft[t].note THEN draft[t].note[n] ELSE note[n]
           /\ \A p \in Edge : edge'[p] = IF p \in DOMAIN draft[t].edge THEN draft[t].edge[p] ELSE edge[p]
           /\ \A r \in User : state'[r] = IF r \in DOMAIN draft[t].state THEN draft[t].state[r] ELSE state[r]
           /\ \A r \in User : state'[r] = state[r] \/ state'[r].version > state[r].version
<1>1. TypeOK /\ IsDraft(draft[t]) /\ Good(draft[t], note, edge, state)
  BY DEF Commit, IInv, TypeOK
<1>2. /\ note' \in [Note -> NoteDoc]
      /\ \A n \in Note : note'[n] = IF n \in DOMAIN draft[t].note THEN draft[t].note[n] ELSE note[n]
  BY <1>1, OverlayType DEF Commit, IsDraft, TypeOK
<1>3. /\ edge' \in [Edge -> Source \cup {NoSource}]
      /\ \A p \in Edge : edge'[p] = IF p \in DOMAIN draft[t].edge THEN draft[t].edge[p] ELSE edge[p]
  BY <1>1, OverlayType DEF Commit, IsDraft, TypeOK
<1>4. /\ state' \in [User -> Counter]
      /\ \A r \in User : state'[r] = IF r \in DOMAIN draft[t].state THEN draft[t].state[r] ELSE state[r]
  BY <1>1, OverlayType DEF Commit, IsDraft, TypeOK
<1>5. \A r \in User : state'[r] = state[r] \/ state'[r].version > state[r].version
  BY <1>1, <1>4 DEF Good, Counts
<1> QED BY <1>1, <1>2, <1>3, <1>4, <1>5 DEF TypeOK

\* A transaction that stays open over a commit has written none of its documents.
LEMMA Survivor ==
    ASSUME IInv, NEW t \in Txn, Commit(t), NEW x \in Txn, pc'[x] = "open"
    PROVE  /\ x # t /\ pc[x] = "open" /\ draft'[x] = draft[x]
           /\ IsDraft(draft[x]) /\ Good(draft[x], note, edge, state)
           /\ DOMAIN draft[x].note \cap DOMAIN draft[t].note = {}
           /\ DOMAIN draft[x].edge \cap DOMAIN draft[t].edge = {}
           /\ DOMAIN draft[x].state \cap DOMAIN draft[t].state = {}
           /\ draft[x].keys \cap draft[t].keys = {}
<1> DEFINE loser(y) == y # t /\ pc[y] = "open" /\ Conflict(draft[y], draft[t])
<1>1. /\ pc' = [y \in Txn |-> IF y = t THEN "committed" ELSE IF loser(y) THEN Restart(y) ELSE pc[y]]
      /\ draft' = [y \in Txn |-> IF y = t THEN [NoDraft EXCEPT !.reply = draft[t].reply]
                                 ELSE IF loser(y) THEN NoDraft ELSE draft[y]]
  BY DEF Commit
<1>2. Restart(x) # "open" BY DEF Restart
<1> HIDE DEF loser
<1>3. x # t /\ ~loser(x) /\ pc[x] = "open" /\ draft'[x] = draft[x] BY <1>1, <1>2
<1>4. ~Conflict(draft[x], draft[t]) BY <1>3 DEF loser
<1> QED BY <1>3, <1>4 DEF Conflict, IInv, TypeOK

LEMMA CommitType ==
    ASSUME IInv, NEW t \in Txn, Commit(t)
    PROVE  TypeOK'
<1> DEFINE loser(y) == y # t /\ pc[y] = "open" /\ Conflict(draft[y], draft[t])
<1>1. /\ pc' = [y \in Txn |-> IF y = t THEN "committed" ELSE IF loser(y) THEN Restart(y) ELSE pc[y]]
      /\ draft' = [y \in Txn |-> IF y = t THEN [NoDraft EXCEPT !.reply = draft[t].reply]
                                 ELSE IF loser(y) THEN NoDraft ELSE draft[y]]
      /\ ask' = ask /\ seen' = seen /\ now' = now
  BY DEF Commit
<1>2. TypeOK BY DEF IInv
<1> HIDE DEF loser
<1>3. pc' \in [Txn -> {"idle", "asked", "open", "committed"}]
  BY <1>1, <1>2 DEF Restart, TypeOK
<1>4. DOMAIN draft' = Txn BY <1>1
<1>5. IsDraft(NoDraft) BY DEF IsDraft, NoDraft, Nothing, WritesTo
<1>6. IsDraft([NoDraft EXCEPT !.reply = draft[t].reply])
  BY <1>2 DEF TypeOK, IsDraft, NoDraft, Nothing, WritesTo
<1>7. \A y \in Txn : IsDraft(draft'[y]) BY <1>1, <1>2, <1>5, <1>6 DEF TypeOK
<1>8. \A y \in Txn : IsDraft(draft[y])' BY <1>7 DEF IsDraft, WritesTo, NoteDoc, Counter, Note, Edge
<1> QED BY <1>1, <1>2, <1>3, <1>4, <1>8, Committed DEF TypeOK

LEMMA CommitCounts ==
    ASSUME IInv, NEW t \in Txn, Commit(t)
    PROVE  /\ UnreadCountExact'
           /\ \A x \in Txn : pc'[x] = "open" =>
                 /\ Counts(draft'[x], note', state') /\ Covers(draft'[x], note') /\ Replies(draft'[x], state')
<1> DEFINE d == draft[t]
<1>1. \A r \in User : r \notin DOMAIN d.state => UnreadIn(note', r) = UnreadIn(note, r)
  BY Committed DEF Good, Covers, UnreadIn, Note
<1>2. UnreadCountExact'
  <2> SUFFICES ASSUME NEW r \in User PROVE state'[r].unread_count = Cardinality(UnreadIn(note', r))
    BY DEF UnreadCountExact, UnreadIn, Unread, UnreadDoc
  <2>1. CASE r \in DOMAIN d.state
    <3>1. note' = Overlay(d.note, note) BY DEF Commit
    <3> QED BY <2>1, <3>1, Committed DEF Good, Counts
  <2>2. CASE r \notin DOMAIN d.state
    <3>1. state[r].unread_count = Cardinality(UnreadIn(note, r))
      BY DEF IInv, UnreadCountExact, UnreadIn, Unread, UnreadDoc
    <3> QED BY <1>1, <2>2, <3>1, Committed
  <2> QED BY <2>1, <2>2
<1> SUFFICES ASSUME NEW x \in Txn, pc'[x] = "open"
             PROVE  Counts(draft[x], note', state') /\ Covers(draft[x], note') /\ Replies(draft[x], state')
  BY <1>2, Survivor
<1>3. Counts(draft[x], note', state')
  <2> SUFFICES ASSUME NEW r \in DOMAIN draft[x].state
               PROVE  /\ draft[x].state[r].unread_count
                           = Cardinality(UnreadIn(Overlay(draft[x].note, note'), r))
                      /\ draft[x].state[r].version > state'[r].version
    BY DEF Counts
  <2>1. r \in User /\ r \notin DOMAIN d.state BY Survivor DEF IsDraft, WritesTo
  <2>2. UnreadIn(Overlay(draft[x].note, note'), r) = UnreadIn(Overlay(draft[x].note, note), r)
    <3>1. \A n \in Note : /\ Overlay(draft[x].note, note')[n]
                               = IF n \in DOMAIN draft[x].note THEN draft[x].note[n] ELSE note'[n]
                          /\ Overlay(draft[x].note, note)[n]
                               = IF n \in DOMAIN draft[x].note THEN draft[x].note[n] ELSE note[n]
      BY Committed, Survivor, OverlayType DEF IsDraft
    <3>2. \A n \in Note : Recipient[n] = r => (UnreadDoc(note'[n]) <=> UnreadDoc(note[n]))
      BY <2>1, Committed DEF Good, Covers
    <3> QED BY <3>1, <3>2 DEF UnreadIn
  <2>3. state'[r] = state[r] BY <2>1, Committed
  <2> QED BY <2>2, <2>3, Survivor DEF Good, Counts
<1>4. Covers(draft[x], note')
  BY Survivor, Committed DEF Good, Covers, IsDraft, WritesTo
<1>5. Replies(draft[x], state')
  <2> SUFFICES ASSUME NEW r \in DOMAIN draft[x].reply, r \notin DOMAIN draft[x].state
               PROVE  Agrees(draft[x].reply[r], state'[r])
    BY Survivor DEF Replies, Good
  <2>1. r \in User /\ draft[x].reply[r] \in Counter BY Survivor DEF IsDraft, WritesTo
  <2>2. Agrees(draft[x].reply[r], state[r]) BY Survivor DEF Good, Replies
  <2>3. state[r] \in Counter /\ state'[r] \in Counter BY <2>1, Committed
  <2>4. state'[r] = state[r] \/ state'[r].version > state[r].version BY <2>1, Committed
  <2> QED BY <2>1, <2>2, <2>3, <2>4, AgreesLater
<1> QED BY <1>3, <1>4, <1>5

LEMMA CommitEdges ==
    ASSUME IInv, NEW t \in Txn, Commit(t)
    PROVE  /\ ActorCountExact' /\ Unborn'
           /\ \A x \in Txn : pc'[x] = "open" => Edges(draft'[x], note', edge')
<1> DEFINE d == draft[t]
<1>1. \A y \in Window : y \notin DOMAIN d.note => ActorsIn(edge', y) = ActorsIn(edge, y)
  BY Committed DEF Good, Edges, ActorsIn, Edge
<1>2. ActorCountExact'
  <2> SUFFICES ASSUME NEW y \in Window, note'[y].st = "valid"
               PROVE  note'[y].actor_count = Cardinality(ActorsIn(edge', y)) /\ ActorsIn(edge', y) # {}
    BY DEF ActorCountExact, ActorsOf, ActorsIn
  <2>1. CASE y \in DOMAIN d.note
    <3>1. edge' = Overlay(d.edge, edge) BY DEF Commit
    <3>2. note'[y] = d.note[y] BY <2>1, Committed DEF Note
    <3> QED BY <2>1, <3>1, <3>2, Committed DEF Good, Edges
  <2>2. CASE y \notin DOMAIN d.note
    <3>1. note'[y] = note[y] BY <2>2, Committed DEF Note
    <3>2. note[y].actor_count = Cardinality(ActorsIn(edge, y)) /\ ActorsIn(edge, y) # {}
      BY <3>1 DEF IInv, ActorCountExact, ActorsOf, ActorsIn
    <3> QED BY <1>1, <2>2, <3>1, <3>2
  <2> QED BY <2>1, <2>2
<1>3. ASSUME NEW x \in Txn, pc'[x] = "open" PROVE Edges(draft[x], note', edge')
  <2>1. ASSUME NEW y \in Window \cap DOMAIN draft[x].note
        PROVE  ActorsIn(Overlay(draft[x].edge, edge'), y) = ActorsIn(Overlay(draft[x].edge, edge), y)
    <3>1. y \notin DOMAIN d.note BY Survivor, <1>3
    <3>2. \A p \in Edge : p[1] = y => edge'[p] = edge[p]
      BY <3>1, Committed DEF Good, Edges
    <3>3. edge \in [Edge -> Source \cup {NoSource}] BY DEF IInv, TypeOK
    <3>4. WritesTo(draft[x].edge, Edge, Source \cup {NoSource}) BY Survivor, <1>3 DEF IsDraft
    <3>5. \A p \in Edge : /\ Overlay(draft[x].edge, edge')[p]
                               = IF p \in DOMAIN draft[x].edge THEN draft[x].edge[p] ELSE edge'[p]
                          /\ Overlay(draft[x].edge, edge)[p]
                               = IF p \in DOMAIN draft[x].edge THEN draft[x].edge[p] ELSE edge[p]
      BY <3>3, <3>4, Committed, OverlayType
    <3>6. \A a \in Actor : Overlay(draft[x].edge, edge')[<<y, a>>] = Overlay(draft[x].edge, edge)[<<y, a>>]
      BY <3>2, <3>5 DEF Edge
    <3> QED BY <3>6 DEF ActorsIn
  <2> QED BY <1>3, <2>1, Survivor DEF Good, Edges
<1>4. Unborn'
  <2> SUFFICES ASSUME NEW y \in Window, note'[y].st = "absent" PROVE ActorsIn(edge', y) = {}
    BY DEF Unborn, ActorsIn
  <2>1. y \notin DOMAIN d.note /\ note'[y] = note[y] BY Committed DEF Note, Good, Edges
  <2>2. ActorsIn(edge, y) = {} BY <2>1 DEF IInv, Unborn
  <2> QED BY <1>1, <2>1, <2>2
<1> QED BY <1>2, <1>3, <1>4, Survivor

LEMMA CommitOpens ==
    ASSUME IInv, NEW t \in Txn, Commit(t)
    PROVE  /\ OneOpenWindow'
           /\ \A x \in Txn : pc'[x] = "open" => Opens(draft'[x], note')
<1> DEFINE d == draft[t]
<1>1. note' = Overlay(d.note, note) BY DEF Commit
<1>2. OneOpenWindow'
  <2>1. \A y \in Window : OpenDoc(note'[y]) => UnreadDoc(note'[y])
    BY Committed DEF IInv, OneOpenWindow, Good, Opens, Open, Unread, OpenDoc, UnreadDoc, Note
  <2>2. \A y, z \in Window : OpenDoc(note'[y]) /\ OpenDoc(note'[z]) /\ KeyOf[y] = KeyOf[z] => y = z
    BY <1>1, Committed DEF Good, Opens
  <2> QED BY <2>1, <2>2 DEF OneOpenWindow, Open, OpenDoc, Unread, UnreadDoc
<1>3. ASSUME NEW x \in Txn, pc'[x] = "open" PROVE Opens(draft[x], note')
  <2> DEFINE e == draft[x]
  <2>1. \A y \in Window : y \in DOMAIN e.note => note'[y] = note[y]
    BY <1>3, Survivor, Committed DEF Note
  <2>2. \A y \in Window \cap DOMAIN e.note :
            OpenDoc(e.note[y]) => UnreadDoc(e.note[y]) /\ (OpenDoc(note'[y]) \/ KeyOf[y] \in e.keys)
    BY <1>3, <2>1, Survivor DEF Good, Opens
  <2>3. \A n \in Note : /\ Overlay(e.note, note')[n] = IF n \in DOMAIN e.note THEN e.note[n] ELSE note'[n]
                        /\ Overlay(e.note, note)[n] = IF n \in DOMAIN e.note THEN e.note[n] ELSE note[n]
    BY <1>3, Survivor, Committed, OverlayType DEF IsDraft
  <2>4. ASSUME NEW y \in Window, NEW z \in Window, KeyOf[y] = KeyOf[z],
               OpenDoc(Overlay(e.note, note')[y]), OpenDoc(Overlay(e.note, note')[z])
        PROVE  y = z
    <3>0. y \in Note /\ z \in Note BY DEF Note
    <3>1. \A u, v \in Window : OpenDoc(Overlay(e.note, note)[u]) /\ OpenDoc(Overlay(e.note, note)[v])
                                 /\ KeyOf[u] = KeyOf[v] => u = v
      BY <1>3, Survivor DEF Good, Opens
    <3>2. \A u, v \in Window : OpenDoc(note'[u]) /\ OpenDoc(note'[v]) /\ KeyOf[u] = KeyOf[v] => u = v
      BY <1>1, Committed DEF Good, Opens
    <3>3. \* one window written by x, the other not
          ASSUME NEW u \in Window, NEW v \in Window, u \in DOMAIN e.note, v \notin DOMAIN e.note,
                 KeyOf[u] = KeyOf[v], OpenDoc(e.note[u]), OpenDoc(note'[v])
          PROVE  u = v
      <4>0. u \in Note /\ v \in Note BY DEF Note
      <4>1. CASE OpenDoc(note[v]) BY <3>1, <3>3, <4>0, <4>1, <2>3
      <4>2. CASE ~OpenDoc(note[v])
        <5>1. v \in DOMAIN d.note /\ OpenDoc(d.note[v]) BY <3>3, <4>0, <4>2, Committed
        <5>2. KeyOf[v] \in d.keys BY <4>2, <5>1, Committed DEF Good, Opens
        <5>3. KeyOf[u] \notin e.keys BY <1>3, <3>3, <5>2, Survivor
        <5>4. OpenDoc(note'[u]) BY <2>2, <3>3, <5>3
        <5> QED BY <3>2, <3>3, <5>4
      <4> QED BY <4>1, <4>2
    <3>4. CASE y \in DOMAIN e.note /\ z \in DOMAIN e.note BY <2>3, <2>4, <3>0, <3>1, <3>4
    <3>5. CASE y \in DOMAIN e.note /\ z \notin DOMAIN e.note BY <2>3, <2>4, <3>0, <3>3, <3>5
    <3>6. CASE y \notin DOMAIN e.note /\ z \in DOMAIN e.note BY <2>3, <2>4, <3>0, <3>3, <3>6
    <3>7. CASE y \notin DOMAIN e.note /\ z \notin DOMAIN e.note BY <2>3, <2>4, <3>0, <3>2, <3>7
    <3> QED BY <3>4, <3>5, <3>6, <3>7
  <2> QED BY <2>2, <2>4 DEF Opens
<1> QED BY <1>2, <1>3, Survivor

LEMMA CommitEmitted ==
    ASSUME IInv, NEW t \in Txn, Commit(t)
    PROVE  Emitted'
<1> DEFINE d == draft[t]
<1>1. ASSUME NEW c \in Counter, NEW r \in User, Agrees(c, state[r]) PROVE Agrees(c, state'[r])
  <2>1. state[r] \in Counter /\ state'[r] \in Counter BY Committed
  <2>2. state'[r] = state[r] \/ state'[r].version > state[r].version BY Committed
  <2> QED BY <1>1, <2>1, <2>2, AgreesLater
<1>2. seen' = seen /\ \A r \in User : Agrees(seen[r], state[r]) /\ seen[r] \in Counter
  BY DEF Commit, IInv, Emitted, TypeOK
<1>3. ASSUME NEW x \in Txn, pc'[x] = "committed", NEW r \in DOMAIN draft'[x].reply
      PROVE  Agrees(draft'[x].reply[r], state'[r])
  <2>0. TypeOK /\ \A y \in Txn : IsDraft(draft[y]) BY DEF IInv, TypeOK
  <2>1. CASE x = t
    <3>1. draft'[x].reply = d.reply BY <2>1 DEF Commit, NoDraft
    <3>2. r \in User BY <1>3, <2>0, <3>1 DEF IsDraft, WritesTo
    <3>3. state'[r] = IF r \in DOMAIN d.state THEN d.state[r] ELSE state[r] BY <3>2, Committed
    <3>4. Agrees(d.reply[r], IF r \in DOMAIN d.state THEN d.state[r] ELSE state[r])
      BY <1>3, <3>1, Committed DEF Good, Replies
    <3> QED BY <3>1, <3>3, <3>4
  <2>2. CASE x # t
    <3>1. pc[x] = "committed" /\ draft'[x] = draft[x]
      BY <1>3, <2>2 DEF Commit, Restart
    <3>2. r \in User /\ draft[x].reply[r] \in Counter BY <1>3, <2>0, <3>1 DEF IsDraft, WritesTo
    <3>3. Agrees(draft[x].reply[r], state[r]) BY <1>3, <3>1 DEF IInv, Emitted
    <3> QED BY <1>1, <3>1, <3>2, <3>3
  <2> QED BY <2>1, <2>2
<1> QED BY <1>1, <1>2, <1>3 DEF Emitted

LEMMA CommitKeeps ==
    ASSUME IInv, NEW t \in Txn, Commit(t)
    PROVE  IInv'
<1>1. \A x \in Txn : pc'[x] = "open" => Rereads(draft'[x], note')
  BY Survivor, Committed DEF Good, Rereads, IsDraft, WritesTo
<1>2. \A x \in Txn : pc'[x] = "open" => Good(draft'[x], note', edge', state')
  BY <1>1, CommitCounts, CommitEdges, CommitOpens DEF Good
<1>3. \A x \in Txn : pc'[x] = "asked" => ask'[x].who # NoUser
  BY DEF Commit, Restart, IInv
<1> QED BY <1>2, <1>3, CommitType, CommitCounts, CommitEdges, CommitOpens, CommitEmitted DEF IInv

LEMMA EndKeeps ==
    ASSUME IInv, NEW t \in Txn, Deliver(t) \/ Lost(t)
    PROVE  IInv'
<1>1. /\ note' = note /\ edge' = edge /\ state' = state /\ now' = now
      /\ pc' = [pc EXCEPT ![t] = "idle"] /\ draft' = [draft EXCEPT ![t] = NoDraft]
      /\ ask' = [ask EXCEPT ![t] = NoAsk]
  BY DEF Deliver, Lost
<1>2. TypeOK BY DEF IInv
<1>3. \A x \in Txn : x # t => pc'[x] = pc[x] /\ draft'[x] = draft[x] BY <1>1, <1>2 DEF TypeOK
<1>4. pc'[t] = "idle" BY <1>1, <1>2 DEF TypeOK
<1>5. IsDraft(NoDraft) BY DEF IsDraft, NoDraft, Nothing, WritesTo
<1>6. \A r \in User : seen'[r] \in Counter /\ Agrees(seen'[r], state[r])
  <2>1. CASE Lost(t) BY <2>1 DEF Lost, IInv, Emitted, TypeOK
  <2>2. CASE Deliver(t)
    <3>1. \A r \in DOMAIN draft[t].reply : draft[t].reply[r] \in Counter /\ Agrees(draft[t].reply[r], state[r])
      BY <1>2, <2>2 DEF Deliver, IInv, Emitted, TypeOK, IsDraft, WritesTo
    <3>2. \A r \in User : seen[r] \in Counter /\ Agrees(seen[r], state[r])
      BY DEF IInv, Emitted, TypeOK
    <3> QED BY <2>2, <3>1, <3>2 DEF Deliver
  <2> QED BY <2>1, <2>2
<1>7. seen' \in [User -> Counter]
  <2>1. seen' = [r \in User |-> seen'[r]] BY <1>2 DEF Deliver, Lost, TypeOK
  <2> QED BY <1>6, <2>1
<1>8. TypeOK'
  <2>1. DOMAIN draft' = Txn /\ \A x \in Txn : IsDraft(draft'[x]) BY <1>1, <1>2, <1>5 DEF TypeOK
  <2>2. \A x \in Txn : IsDraft(draft[x])' BY <2>1 DEF IsDraft, WritesTo, NoteDoc, Counter, Note, Edge
  <2>3. NoAsk \in Ask BY DEF NoAsk, Ask
  <2> QED BY <1>1, <1>2, <1>7, <2>1, <2>2, <2>3 DEF TypeOK
<1>9. (UnreadCountExact /\ ActorCountExact /\ OneOpenWindow /\ Unborn)'
  BY <1>1 DEF IInv, UnreadCountExact, ActorCountExact, OneOpenWindow, Unborn, ActorsIn, Unread, Open, ActorsOf
<1>10. Emitted' BY <1>1, <1>3, <1>4, <1>6 DEF IInv, Emitted
<1>11. (\A x \in Txn : pc[x] = "open" => Good(draft[x], note, edge, state))'
  BY <1>1, <1>3, <1>4 DEF IInv
<1>12. (\A x \in Txn : pc[x] = "asked" => ask[x].who # NoUser)'
  BY <1>1, <1>2, <1>3, <1>4 DEF IInv, TypeOK
<1> QED BY <1>8, <1>9, <1>10, <1>11, <1>12 DEF IInv

-----------------------------------------------------------------------------
(* What an operation drafts.                                               *)

\* A caller answers with the counters it drafted, or with one it leaves alone.
Answers(R, c) == R \in {c, Nothing} \/ \E r \in User \ DOMAIN c : R = [u \in {r} |-> state[u]]

\* A run whose counters follow from the notifications it makes unread and not
\* unread, and that answers with them or with a counter it leaves alone.
LEMMA Drafted ==
    ASSUME IInv, NEW t \in Txn, NEW up, NEW down, NEW w, Moves(w, up, down),
           NEW e, WritesTo(e, Edge, Source \cup {NoSource}),
           NEW c, c \in {Adjusted(up, down), AdjustedAtOnce(up, down)},
           NEW K, K \subseteq AggKey,
           NEW R, Answers(R, c),
           Run(t, w, e, c, K, R),
           NEW d, d = [note |-> w, edge |-> e, state |-> c, keys |-> K, reply |-> R],
           Edges(d, note, edge), Opens(d, note), Rereads(d, note)
    PROVE  IInv'
<1>1. TypeOK /\ UnreadCountExact BY DEF IInv
<1>2. /\ WritesTo(c, User, Counter)
      /\ \A r \in DOMAIN c : /\ c[r].unread_count = Cardinality(UnreadIn(Overlay(w, note), r))
                             /\ c[r].version > state[r].version
      /\ \A n \in DOMAIN w : Recipient[n] \in DOMAIN c \/ (UnreadDoc(w[n]) <=> UnreadDoc(note[n]))
  BY <1>1, AdjustedCounts
<1>3. WritesTo(R, User, Counter) BY <1>1, <1>2 DEF Answers, TypeOK, WritesTo, Nothing
<1>4. IsDraft(d) BY <1>2, <1>3 DEF IsDraft, Moves
<1>5. Counts(d, note, state) /\ Covers(d, note) BY <1>2 DEF Counts, Covers
<1>6. Replies(d, state)
  <2>1. CASE R \in {c, Nothing}
    <3>1. \A r \in DOMAIN c : Agrees(c[r], c[r]) BY <1>2 DEF Agrees, WritesTo, Counter
    <3> QED BY <2>1, <3>1 DEF Replies, Nothing
  <2>2. CASE \E r \in User \ DOMAIN c : R = [u \in {r} |-> state[u]]
    BY <1>1, <2>2 DEF Replies, Agrees, TypeOK, Counter
  <2> QED BY <2>1, <2>2 DEF Answers
<1>7. Good(d, note, edge, state) BY <1>5, <1>6 DEF Good
<1> QED BY <1>4, <1>7, RunKeeps

\* A run that opens no window leaves one open window per key.
LEMMA OpensNone ==
    ASSUME IInv, NEW d, WritesTo(d.note, Note, NoteDoc),
           \A x \in Window \cap DOMAIN d.note :
               OpenDoc(d.note[x]) => UnreadDoc(d.note[x]) /\ OpenDoc(note[x])
    PROVE  Opens(d, note)
<1>1. note \in [Note -> NoteDoc] /\ Window \subseteq Note BY DEF IInv, TypeOK, Note
<1>2. \A x \in Window : OpenDoc(Overlay(d.note, note)[x]) => OpenDoc(note[x]) BY <1>1, OverlayType
<1> QED BY <1>2 DEF Opens, IInv, OneOpenWindow, Open, OpenDoc

\* A run that leaves the edges and the counts of the shown windows alone.
LEMMA EdgesAlone ==
    ASSUME IInv, NEW d, d.edge = Nothing, \A n \in DOMAIN d.note : d.note[n].st # "absent",
           \A x \in Window \cap DOMAIN d.note :
               d.note[x].st = "valid" => note[x].st = "valid" /\ d.note[x].actor_count = note[x].actor_count
    PROVE  Edges(d, note, edge)
<1>1. edge \in [Edge -> Source \cup {NoSource}] BY DEF IInv, TypeOK
<1>2. Overlay(d.edge, edge) = edge BY <1>1 DEF Overlay, Nothing
<1> QED BY <1>2 DEF Edges, IInv, ActorCountExact, ActorsIn, ActorsOf, Nothing

LEMMA Docs ==
    ASSUME TypeOK, NEW n \in Note
    PROVE  /\ note[n] \in NoteDoc
           /\ Fresh(TRUE) \in NoteDoc /\ Fresh(FALSE) \in NoteDoc
           /\ Read(n) \in NoteDoc /\ Read(n).st = note[n].st /\ Read(n).is_read /\ ~Read(n).active
           /\ Read(n).actor_count = note[n].actor_count
           /\ Invalidated(n) \in NoteDoc /\ Invalidated(n).st = "invalid"
           /\ Emptied(n) \in NoteDoc /\ Emptied(n).st = "invalid"
           /\ \A k \in Nat : LET e == [note[n] EXCEPT !.actor_count = k] IN
                 /\ e \in NoteDoc /\ e.st = note[n].st /\ e.is_read = note[n].is_read
                 /\ e.active = note[n].active /\ e.actor_count = k
<1>1. note[n] \in NoteDoc /\ now + 1 \in Nat BY StoreAssumption DEF TypeOK
<1>2. Fresh(TRUE) \in NoteDoc /\ Fresh(FALSE) \in NoteDoc BY <1>1 DEF Fresh, NoteDoc
<1> QED BY <1>1, <1>2 DEF NoteDoc, Read, Invalidated, Emptied

-----------------------------------------------------------------------------
(* The operations.                                                         *)

LEMMA PersistKeeps ==
    ASSUME IInv, NEW t \in Txn, NEW C \in SUBSET Individual, NEW D \in SUBSET Individual, Persist(t, C, D)
    PROVE  IInv'
<1> DEFINE w == [n \in C \cup D |-> IF n \in C THEN Fresh(FALSE) ELSE Invalidated(n)]
           down == {n \in D : Unread(n)}
           c == Adjusted(C, down)
           d == [note |-> w, edge |-> Nothing, state |-> c, keys |-> {}, reply |-> c]
<1>1. Run(t, w, Nothing, c, {}, c) BY DEF Persist
<1>2. C \cap D = {} /\ \A n \in C : ~Unread(n) BY DEF Persist, Unread
<1>3. C \in SUBSET Note /\ down \in SUBSET Note /\ D \subseteq Note /\ (C \cup D) \cap Window = {}
  BY StoreAssumption DEF Note
<1>4. WritesTo(w, Note, NoteDoc) BY <1>3, Docs DEF WritesTo, IInv
<1>5. \A n \in C : UnreadDoc(w[n]) /\ note[n].st # "valid" BY DEF Fresh, UnreadDoc, Persist
<1>6. \A n \in D : w[n].st = "invalid" BY <1>2, <1>3, Docs DEF IInv
<1>7. WritesTo(Nothing, Edge, Source \cup {NoSource}) BY DEF WritesTo, Nothing
<1>8. DOMAIN w = C \cup D /\ DOMAIN d.note = C \cup D OBVIOUS
<1> HIDE DEF w
<1>9. Edges(d, note, edge) /\ Opens(d, note) /\ Rereads(d, note)
  <2>1. Edges(d, note, edge) BY <1>3, <1>5, <1>6, <1>8, EdgesAlone DEF UnreadDoc
  <2>2. Opens(d, note) BY <1>3, <1>4, <1>8, OpensNone
  <2>3. Rereads(d, note) BY <1>5, <1>6, <1>8 DEF Rereads
  <2> QED BY <2>1, <2>2, <2>3
<1>10. Moves(w, C, down)
  <2>1. \A n \in down : n \in DOMAIN w /\ Unread(n) /\ ~UnreadDoc(w[n]) BY <1>6, <1>8 DEF UnreadDoc
  <2>2. \A n \in DOMAIN w : n \in C \cup down \/ (UnreadDoc(w[n]) <=> UnreadDoc(note[n]))
    BY <1>6, <1>8 DEF Unread, UnreadDoc
  <2> QED BY <1>2, <1>3, <1>4, <1>5, <1>8, <2>1, <2>2 DEF Moves
<1> HIDE DEF down, d, c
<1>11. c \in {Adjusted(C, down), AdjustedAtOnce(C, down)} BY DEF c
<1>12. d = [note |-> w, edge |-> Nothing, state |-> c, keys |-> {}, reply |-> c] BY DEF d
<1>13. Answers(c, c) BY DEF Answers
<1> QED BY <1>1, <1>7, <1>9, <1>10, <1>11, <1>12, <1>13, Drafted
LEMMA PersistBatchKeeps ==
    ASSUME IInv, NEW t \in Txn, NEW C \in SUBSET Individual, PersistBatch(t, C)
    PROVE  IInv'
<1> DEFINE w == [n \in C |-> Fresh(FALSE)]
           c == AdjustedAtOnce(C, {})
           d == [note |-> w, edge |-> Nothing, state |-> c, keys |-> {}, reply |-> c]
<1>1. Run(t, w, Nothing, c, {}, c) BY DEF PersistBatch
<1>2. C \in SUBSET Note /\ C \cap Window = {} BY StoreAssumption DEF Note
<1>3. WritesTo(w, Note, NoteDoc) BY <1>2, Docs DEF WritesTo, IInv
<1>4. \A n \in C : UnreadDoc(w[n]) /\ note[n].st = "absent" BY DEF Fresh, UnreadDoc, PersistBatch
<1>5. WritesTo(Nothing, Edge, Source \cup {NoSource}) BY DEF WritesTo, Nothing
<1>6. DOMAIN w = C /\ DOMAIN d.note = C OBVIOUS
<1> HIDE DEF w
<1>7. Edges(d, note, edge) BY <1>2, <1>4, <1>6, EdgesAlone DEF UnreadDoc
<1>8. Opens(d, note) BY <1>2, <1>3, <1>6, OpensNone
<1>9. Rereads(d, note) BY <1>4, <1>6 DEF Rereads
<1>10. Moves(w, C, {}) BY <1>2, <1>3, <1>4, <1>6 DEF Moves, Unread
<1> HIDE DEF d, c
<1>11. c \in {Adjusted(C, {}), AdjustedAtOnce(C, {})} BY DEF c
<1>12. d = [note |-> w, edge |-> Nothing, state |-> c, keys |-> {}, reply |-> c] BY DEF d
<1>13. Answers(c, c) BY DEF Answers
<1> QED BY <1>1, <1>5, <1>7, <1>8, <1>9, <1>10, <1>11, <1>12, <1>13, Drafted

LEMMA InvalidatePageKeeps ==
    ASSUME IInv, NEW t \in Txn, NEW S \in SUBSET Note, InvalidatePage(t, S)
    PROVE  IInv'
<1> DEFINE w == [n \in S |-> Invalidated(n)]
           e == [p \in {q \in Edge : q[1] \in S /\ edge[q] # NoSource} |-> NoSource]
           down == {n \in S : Unread(n)}
           c == Adjusted({}, down)
           d == [note |-> w, edge |-> e, state |-> c, keys |-> {}, reply |-> c]
<1>1. Run(t, w, e, c, {}, c) BY DEF InvalidatePage
<1>2. WritesTo(w, Note, NoteDoc) BY Docs DEF WritesTo, IInv
<1>3. \A n \in S : w[n].st = "invalid" BY Docs DEF IInv
<1>4. WritesTo(e, Edge, Source \cup {NoSource}) BY DEF WritesTo
<1>5. \A p \in DOMAIN e : p[1] \in S OBVIOUS
<1>6. DOMAIN w = S /\ DOMAIN d.note = S /\ d.note = w /\ d.edge = e OBVIOUS
<1> HIDE DEF w, e
<1>7. Edges(d, note, edge) BY <1>3, <1>5, <1>6 DEF Edges
<1>8. Opens(d, note) BY <1>2, <1>3, <1>6, OpensNone DEF OpenDoc
<1>9. Rereads(d, note) BY <1>3, <1>6 DEF Rereads
<1>10. Moves(w, {}, down) BY <1>2, <1>3, <1>6 DEF Moves, Unread, UnreadDoc
<1> HIDE DEF d, c, down
<1>11. c \in {Adjusted({}, down), AdjustedAtOnce({}, down)} BY DEF c
<1>12. d = [note |-> w, edge |-> e, state |-> c, keys |-> {}, reply |-> c] BY DEF d
<1>13. Answers(c, c) BY DEF Answers
<1> QED BY <1>1, <1>4, <1>7, <1>8, <1>9, <1>10, <1>11, <1>12, <1>13, Drafted

\* Mark-one and mark-all make the notifications in hit of one recipient read.
LEMMA ReadKeeps ==
    ASSUME IInv, NEW t \in Txn, NEW r \in User,
           NEW hit \in SUBSET {n \in Note : Recipient[n] = r /\ Unread(n)},
           NEW c, c \in {Adjusted({}, hit), AdjustedAtOnce({}, hit)},
           NEW R, R = IF hit # {} THEN c ELSE [u \in {r} |-> state[u]],
           Run(t, [n \in hit |-> Read(n)], Nothing, c, {}, R)
    PROVE  IInv'
<1> DEFINE w == [n \in hit |-> Read(n)]
           d == [note |-> w, edge |-> Nothing, state |-> c, keys |-> {}, reply |-> R]
<1>1. Run(t, w, Nothing, c, {}, R) OBVIOUS
<1>2. hit \subseteq Note OBVIOUS
<1>3. WritesTo(w, Note, NoteDoc) BY <1>2, Docs DEF WritesTo, IInv
<1>4. \A n \in hit : /\ w[n].is_read /\ ~w[n].active /\ w[n].st = note[n].st
                     /\ w[n].actor_count = note[n].actor_count
  BY <1>2, Docs DEF IInv
<1>5. WritesTo(Nothing, Edge, Source \cup {NoSource}) BY DEF WritesTo, Nothing
<1>6. DOMAIN w = hit /\ DOMAIN d.note = hit /\ d.note = w /\ d.edge = Nothing OBVIOUS
<1> HIDE DEF w
<1>7. Edges(d, note, edge) BY <1>4, <1>6, EdgesAlone DEF Unread
<1>8. Opens(d, note) BY <1>3, <1>4, <1>6, OpensNone DEF OpenDoc
<1>9. Rereads(d, note) BY <1>4, <1>6 DEF Rereads
<1>10. Moves(w, {}, hit) BY <1>2, <1>3, <1>4, <1>6 DEF Moves, UnreadDoc
<1>11. Answers(R, c)
  <2>1. CASE hit = {}
    <3>1. DOMAIN c = {} BY <2>1 DEF Adjusted, AdjustedAtOnce, Recipients
    <3>2. R = [v \in {r} |-> state[v]] BY <2>1
    <3> QED BY <3>1, <3>2 DEF Answers
  <2>2. CASE hit # {} BY <2>2 DEF Answers
  <2> QED BY <2>1, <2>2
<1> HIDE DEF d
<1>12. d = [note |-> w, edge |-> Nothing, state |-> c, keys |-> {}, reply |-> R] BY DEF d
<1> QED BY <1>1, <1>5, <1>7, <1>8, <1>9, <1>10, <1>11, <1>12, Drafted

LEMMA MarkAsReadKeeps ==
    ASSUME IInv, NEW t \in Txn, NEW n \in Note, MarkAsRead(t, n)
    PROVE  IInv'
<1> DEFINE hit == {m \in {n} : Unread(m)}
           r == Recipient[n]
           c == Adjusted({}, hit)
           R == IF hit # {} THEN c ELSE [u \in {r} |-> state[u]]
<1>1. r \in User /\ hit \in SUBSET {m \in Note : Recipient[m] = r /\ Unread(m)} BY StoreAssumption
<1>2. Run(t, [m \in hit |-> Read(m)], Nothing, c, {}, R)
  <2>1. [u \in {r} |-> state[u]] = [u \in {Recipient[n]} |-> state[u]] OBVIOUS
  <2> QED BY <2>1 DEF MarkAsRead
<1> HIDE DEF hit, r
<1> QED BY <1>1, <1>2, ReadKeeps

LEMMA RequestKeeps ==
    ASSUME IInv, NEW t \in Txn, NEW r \in User, RequestReadAll(t, r)
    PROVE  IInv'
<1> DEFINE q == [who |-> r, at |-> now + 1, had |-> {n \in Note : Recipient[n] = r /\ Unread(n)}]
<1>1. /\ note' = note /\ edge' = edge /\ state' = state /\ draft' = draft /\ seen' = seen
      /\ pc' = [pc EXCEPT ![t] = "asked"] /\ ask' = [ask EXCEPT ![t] = q]
      /\ now < MaxRuns /\ now' = now + 1
  BY DEF RequestReadAll
<1>2. TypeOK BY DEF IInv
<1>3. q \in Ask /\ q.who # NoUser BY <1>2, StoreAssumption DEF Ask, TypeOK
<1> HIDE DEF q
<1>4. TypeOK'
  <2>1. \A x \in Txn : IsDraft(draft[x])'
    BY <1>1, <1>2 DEF TypeOK, IsDraft, WritesTo, NoteDoc, Counter, Note, Edge
  <2>2. now' \in 0..MaxRuns BY <1>1, <1>2, StoreAssumption DEF TypeOK
  <2>3. ask' \in [Txn -> Ask] BY <1>1, <1>2, <1>3 DEF TypeOK
  <2> QED BY <1>1, <1>2, <2>1, <2>2, <2>3 DEF TypeOK
<1>5. (UnreadCountExact /\ ActorCountExact /\ OneOpenWindow /\ Unborn)'
  BY <1>1 DEF IInv, UnreadCountExact, ActorCountExact, OneOpenWindow, Unborn, ActorsIn, Unread, Open, ActorsOf
<1>6. \A x \in Txn : x # t => pc'[x] = pc[x] /\ ask'[x] = ask[x] BY <1>1, <1>2 DEF TypeOK
<1>7. pc'[t] = "asked" /\ ask'[t] = q BY <1>1, <1>2 DEF TypeOK
<1>8. Emitted' BY <1>1, <1>6, <1>7 DEF IInv, Emitted
<1>9. (\A x \in Txn : pc[x] = "open" => Good(draft[x], note, edge, state))'
  BY <1>1, <1>6, <1>7 DEF IInv
<1>10. (\A x \in Txn : pc[x] = "asked" => ask[x].who # NoUser)'
  BY <1>3, <1>6, <1>7 DEF IInv
<1> QED BY <1>4, <1>5, <1>8, <1>9, <1>10 DEF IInv

LEMMA MarkAllAsReadKeeps ==
    ASSUME IInv, NEW t \in Txn, MarkAllAsRead(t)
    PROVE  IInv'
<1> DEFINE r == ask[t].who
           hit == {n \in Note : Recipient[n] = r /\ Unread(n) /\ note[n].unread_since <= ask[t].at}
           c == AdjustedAtOnce({}, hit)
           R == IF hit # {} THEN c ELSE [u \in {r} |-> state[u]]
<1>1. r \in User BY DEF MarkAllAsRead, IInv, TypeOK, Ask
<1>2. hit \in SUBSET {n \in Note : Recipient[n] = r /\ Unread(n)} OBVIOUS
<1>3. Run(t, [n \in hit |-> Read(n)], Nothing, c, {}, R) BY DEF MarkAllAsRead
<1> HIDE DEF hit, r
<1> QED BY <1>1, <1>2, <1>3, ReadKeeps
LEMMA CreateWindowKeeps ==
    ASSUME IInv, NEW t \in Txn, NEW s \in Source, NEW x \in Window, CreateWindow(t, s, x)
    PROVE  IInv'
<1> DEFINE a == SourceActor[s]
           w == [n \in {x} |-> Fresh(TRUE)]
           e == [p \in {<<x, a>>} |-> s]
           c == Adjusted({x}, {})
           d == [note |-> w, edge |-> e, state |-> c, keys |-> {KeyOf[x]}, reply |-> c]
<1>1. Run(t, w, e, c, {KeyOf[x]}, c) BY DEF CreateWindow
<1>2. /\ x \in Note /\ a \in Actor /\ s # NoSource /\ KeyOf[x] \in AggKey /\ note[x].st = "absent"
      /\ \A y \in Window : KeyOf[y] = KeyOf[x] => ~Open(y)
  BY StoreAssumption DEF Note, CreateWindow
<1>3. WritesTo(w, Note, NoteDoc) BY <1>2, Docs DEF WritesTo, IInv
<1>4. /\ w[x].st = "valid" /\ ~w[x].is_read /\ w[x].actor_count = 1
  BY DEF Fresh
<1>5. WritesTo(e, Edge, Source \cup {NoSource}) BY <1>2 DEF WritesTo, Edge
<1>6. DOMAIN w = {x} /\ d.note = w /\ d.edge = e /\ d.keys = {KeyOf[x]} OBVIOUS
<1>7. Edges(d, note, edge)
  <2>1. ActorsIn(edge, x) = {} BY <1>2 DEF IInv, Unborn
  <2>2. edge \in [Edge -> Source \cup {NoSource}] BY DEF IInv, TypeOK
  <2>3. \A b \in Actor : Overlay(e, edge)[<<x, b>>] = IF b = a THEN s ELSE NoSource
    BY <1>2, <2>1, <2>2 DEF Overlay, ActorsIn, Edge
  <2>4. ActorsIn(Overlay(e, edge), x) = {a} BY <1>2, <2>3 DEF ActorsIn
  <2>5. Cardinality({a}) = 1 BY FS_Singleton
  <2>6. \A p \in DOMAIN e : p[1] = x OBVIOUS
  <2> HIDE DEF w, e, a
  <2> QED BY <1>4, <1>6, <2>4, <2>5, <2>6 DEF Edges
<1> HIDE DEF w, e
<1>8. Opens(d, note)
  <2>1. note \in [Note -> NoteDoc] /\ Window \subseteq Note BY DEF IInv, TypeOK, Note
  <2>2. \A y \in Window : y # x => Overlay(w, note)[y] = note[y] BY <1>3, <1>6, <2>1, OverlayType
  <2> QED BY <1>2, <1>4, <1>6, <2>2 DEF Opens, IInv, OneOpenWindow, Open, OpenDoc, UnreadDoc
<1>9. Rereads(d, note) BY <1>2, <1>6 DEF Rereads
<1>10. Moves(w, {x}, {}) BY <1>2, <1>3, <1>4, <1>6 DEF Moves, Unread, UnreadDoc
<1> HIDE DEF d, c
<1>11. c \in {Adjusted({x}, {}), AdjustedAtOnce({x}, {})} BY DEF c
<1>12. d = [note |-> w, edge |-> e, state |-> c, keys |-> {KeyOf[x]}, reply |-> c] BY DEF d
<1>13. Answers(c, c) BY DEF Answers
<1>14. {KeyOf[x]} \subseteq AggKey BY <1>2
<1> QED BY <1>1, <1>5, <1>7, <1>8, <1>9, <1>10, <1>11, <1>12, <1>13, <1>14, Drafted

LEMMA JoinWindowKeeps ==
    ASSUME IInv, NEW t \in Txn, NEW s \in Source, NEW x \in Window, JoinWindow(t, s, x)
    PROVE  IInv'
<1> DEFINE a == SourceActor[s]
           m == Cardinality(ActorsOf(x) \cup {a})
           w == [n \in {x} |-> [note[x] EXCEPT !.actor_count = m]]
           e == [p \in {<<x, a>>} |-> s]
           c == Adjusted({}, {})
           d == [note |-> w, edge |-> e, state |-> c, keys |-> {}, reply |-> Nothing]
<1>0. c = Nothing BY DEF Adjusted, Recipients, Nothing
<1>1. Run(t, w, e, c, {}, Nothing)
  <2>1. Run(t, w, e, Nothing, {}, Nothing) BY DEF JoinWindow
  <2> HIDE DEF w, e, c
  <2> QED BY <1>0, <2>1
<1>2. x \in Note /\ a \in Actor /\ s # NoSource /\ Open(x) BY StoreAssumption DEF Note, JoinWindow
<1>3. m \in Nat
  <2>1. ActorsOf(x) \cup {a} \subseteq Actor BY <1>2 DEF ActorsOf
  <2> HIDE DEF a
  <2> QED BY <2>1, FS_Subset, FS_CardinalityType, StoreAssumption
<1> HIDE DEF m
<1>4. /\ w[x] \in NoteDoc /\ w[x].st = note[x].st /\ w[x].is_read = note[x].is_read
      /\ w[x].active = note[x].active /\ w[x].actor_count = m
  BY <1>2, <1>3, Docs DEF IInv
<1>5. WritesTo(e, Edge, Source \cup {NoSource}) BY <1>2 DEF WritesTo, Edge
<1>6. DOMAIN w = {x} /\ d.note = w /\ d.edge = e OBVIOUS
<1>7. Edges(d, note, edge)
  <2>1. edge \in [Edge -> Source \cup {NoSource}] BY DEF IInv, TypeOK
  <2>2. \A b \in Actor : Overlay(e, edge)[<<x, b>>] = IF b = a THEN s ELSE edge[<<x, b>>]
    BY <1>2, <2>1 DEF Overlay, Edge
  <2>3. ActorsIn(Overlay(e, edge), x) = ActorsOf(x) \cup {a} BY <1>2, <2>2 DEF ActorsIn, ActorsOf
  <2>4. \A p \in DOMAIN e : p[1] = x OBVIOUS
  <2>5. ActorsIn(Overlay(e, edge), x) # {} /\ Cardinality(ActorsIn(Overlay(e, edge), x)) = m
    BY <2>3 DEF m
  <2>6. w[x].st # "absent" BY <1>2, <1>4 DEF Open
  <2> HIDE DEF w, e
  <2> QED BY <1>4, <1>6, <2>4, <2>5, <2>6 DEF Edges
<1> HIDE DEF w, e
<1>15. WritesTo(w, Note, NoteDoc)
  <2>1. w = [n \in {x} |-> w[n]] BY DEF w
  <2> QED BY <1>2, <1>4, <1>6, <2>1 DEF WritesTo
<1>8. Opens(d, note)
  <2>1. Unread(x) BY <1>2 DEF IInv, OneOpenWindow
  <2> QED BY <1>2, <1>4, <1>6, <1>15, <2>1, OpensNone DEF Open, OpenDoc, Unread, UnreadDoc
<1>9. Rereads(d, note) BY <1>4, <1>6 DEF Rereads
<1>10. Moves(w, {}, {}) BY <1>4, <1>6, <1>15 DEF Moves, UnreadDoc
<1> HIDE DEF d, c
<1>11. c \in {Adjusted({}, {}), AdjustedAtOnce({}, {})} BY DEF c
<1>12. d = [note |-> w, edge |-> e, state |-> c, keys |-> {}, reply |-> Nothing] BY DEF d
<1>13. Answers(Nothing, c) BY DEF Answers
<1>14. {} \subseteq AggKey OBVIOUS
<1> QED BY <1>1, <1>5, <1>7, <1>8, <1>9, <1>10, <1>11, <1>12, <1>13, <1>14, Drafted
\* The edges of one actor go, in the windows of X.
LEMMA RemoveEdgesKeeps ==
    ASSUME IInv, NEW t \in Txn, NEW a \in Actor, NEW X \in SUBSET Window,
           \A x \in X : note[x].st = "valid", NEW P, P = X \X {a}, RemoveEdges(t, P)
    PROVE  IInv'
<1> DEFINE hit == {p[1] : p \in P}
           down == {x \in hit : ActorsOf(x) \subseteq {p[2] : p \in P} /\ Unread(x)}
           w == [x \in hit |-> Shrunk(x, P)]
           e == [p \in P |-> NoSource]
           c == Adjusted({}, down)
           d == [note |-> w, edge |-> e, state |-> c, keys |-> {}, reply |-> c]
           left(x) == {b \in ActorsOf(x) : <<x, b>> \notin P}
<1>1. Run(t, w, e, c, {}, c) BY DEF RemoveEdges
<1>2. hit = X /\ X \subseteq Note
  <2>1. \A x \in X : <<x, a>> \in P /\ <<x, a>>[1] = x OBVIOUS
  <2>2. \A p \in P : p[1] \in X OBVIOUS
  <2> QED BY <2>1, <2>2 DEF Note
<1>3. \A x \in X : ActorsOf(x) \subseteq {p[2] : p \in P} <=> left(x) = {} OBVIOUS
<1>4. \A x \in X : Cardinality(left(x)) \in Nat
  <2> TAKE x \in X
  <2>1. left(x) \subseteq Actor BY DEF ActorsOf
  <2> HIDE DEF left
  <2> QED BY <2>1, FS_Subset, FS_CardinalityType, StoreAssumption
<1>5. \A x \in X : /\ w[x] \in NoteDoc
                   /\ left(x) = {} => w[x].st = "invalid"
                   /\ left(x) # {} => /\ w[x].st = "valid" /\ w[x].is_read = note[x].is_read
                                      /\ w[x].active = note[x].active
                                      /\ w[x].actor_count = Cardinality(left(x))
  <2> TAKE x \in X
  <2>1. w[x] = IF left(x) = {} THEN Emptied(x) ELSE [note[x] EXCEPT !.actor_count = Cardinality(left(x))]
    BY <1>2 DEF Shrunk
  <2> DEFINE k == Cardinality(left(x))
             v == [note[x] EXCEPT !.actor_count = k]
  <2>2. k \in Nat /\ x \in Note /\ TypeOK /\ note[x].st = "valid" BY <1>2, <1>4 DEF IInv
  <2>3. w[x] = IF left(x) = {} THEN Emptied(x) ELSE v BY <2>1
  <2>4. Emptied(x) \in NoteDoc /\ Emptied(x).st = "invalid" BY <2>2, Docs
  <2> HIDE DEF w, left, k
  <2>5. /\ v \in NoteDoc /\ v.st = note[x].st /\ v.is_read = note[x].is_read
        /\ v.active = note[x].active /\ v.actor_count = k
    BY <2>2, Docs
  <2> HIDE DEF v
  <2> QED BY <2>2, <2>3, <2>4, <2>5 DEF k
<1>6. DOMAIN w = X /\ d.note = w /\ d.edge = e /\ DOMAIN e = P BY <1>2
<1>7. WritesTo(w, Note, NoteDoc)
  <2>1. w = [x \in DOMAIN w |-> w[x]] OBVIOUS
  <2> HIDE DEF w
  <2> QED BY <1>2, <1>5, <1>6, <2>1 DEF WritesTo
<1>8. WritesTo(e, Edge, Source \cup {NoSource}) BY DEF WritesTo, Edge
<1>9. Edges(d, note, edge)
  <2>1. edge \in [Edge -> Source \cup {NoSource}] BY DEF IInv, TypeOK
  <2>2. ASSUME NEW x \in X PROVE ActorsIn(Overlay(e, edge), x) = left(x)
    <3>1. \A b \in Actor : Overlay(e, edge)[<<x, b>>] = IF <<x, b>> \in P THEN NoSource ELSE edge[<<x, b>>]
      BY <2>1 DEF Overlay, Edge
    <3> QED BY <3>1 DEF ActorsIn, ActorsOf
  <2>3. \A p \in P : p[1] \in X OBVIOUS
  <2> HIDE DEF w, e, left
  <2> QED BY <1>5, <1>6, <2>2, <2>3 DEF Edges
<1> HIDE DEF w, e, hit, left
<1>10. Opens(d, note)
  <2>1. \A x \in X : Open(x) => Unread(x) BY <1>2 DEF IInv, OneOpenWindow
  <2> QED BY <1>5, <1>6, <1>7, <2>1, OpensNone DEF OpenDoc, UnreadDoc, Open, Unread
<1>11. Rereads(d, note) BY <1>5, <1>6 DEF Rereads
<1>12. Moves(w, {}, down)
  <2>1. \A x \in down : x \in X /\ Unread(x) /\ w[x].st = "invalid" BY <1>2, <1>3, <1>5
  <2>2. \A x \in X : x \notin down => (UnreadDoc(w[x]) <=> UnreadDoc(note[x]))
    BY <1>2, <1>3, <1>5 DEF UnreadDoc, Unread
  <2> HIDE DEF down
  <2> QED BY <1>2, <1>6, <1>7, <2>1, <2>2 DEF Moves, UnreadDoc
<1> HIDE DEF d, c, down
<1>13. c \in {Adjusted({}, down), AdjustedAtOnce({}, down)} BY DEF c
<1>14. d = [note |-> w, edge |-> e, state |-> c, keys |-> {}, reply |-> c] BY DEF d
<1>15. Answers(c, c) BY DEF Answers
<1> QED BY <1>1, <1>8, <1>9, <1>10, <1>11, <1>12, <1>13, <1>14, <1>15, Drafted

LEMMA RemoveActorKeeps ==
    ASSUME IInv, NEW t \in Txn, NEW s \in Source, RemoveActor(t, s)
    PROVE  IInv'
<1>1. PICK p \in Edge : Open(p[1]) /\ RemoveEdges(t, {p}) BY DEF RemoveActor
<1>2. PICK x \in Window, a \in Actor : p = <<x, a>> BY DEF Edge
<1>3. {p} = {x} \X {a} /\ note[x].st = "valid" BY <1>1, <1>2 DEF Open
<1> QED BY <1>1, <1>3, RemoveEdgesKeeps

LEMMA StepKeeps == IInv /\ [Next]_vars => IInv'
<1> SUFFICES ASSUME IInv, [Next]_vars PROVE IInv' OBVIOUS
<1>1. CASE UNCHANGED vars
  <2>1. /\ note' = note /\ edge' = edge /\ state' = state /\ pc' = pc /\ draft' = draft
        /\ ask' = ask /\ seen' = seen /\ now' = now
    BY <1>1 DEF vars
  <2> QED BY <2>1 DEF IInv, TypeOK, Unborn, ActorsIn, UnreadCountExact, ActorCountExact, OneOpenWindow,
                      Emitted, Unread, Open, ActorsOf, IsDraft
<1>2. ASSUME NEW t \in Txn, Step(t) PROVE IInv'
  <2>1. ASSUME NEW C \in SUBSET Individual, NEW D \in SUBSET Individual, Persist(t, C, D) PROVE IInv'
    BY <2>1, PersistKeeps
  <2>2. ASSUME NEW C \in SUBSET Individual, PersistBatch(t, C) PROVE IInv'
    BY <2>2, PersistBatchKeeps
  <2>3. ASSUME NEW S \in SUBSET Note, InvalidatePage(t, S) PROVE IInv'
    BY <2>3, InvalidatePageKeeps
  <2>4. ASSUME NEW n \in Note, MarkAsRead(t, n) PROVE IInv' BY <2>4, MarkAsReadKeeps
  <2>5. ASSUME NEW r \in User, RequestReadAll(t, r) PROVE IInv' BY <2>5, RequestKeeps
  <2>6. CASE MarkAllAsRead(t) BY <2>6, MarkAllAsReadKeeps
  <2>7. ASSUME NEW s \in Source, NEW x \in Window, CreateWindow(t, s, x) PROVE IInv'
    BY <2>7, CreateWindowKeeps
  <2>8. ASSUME NEW s \in Source, NEW x \in Window, JoinWindow(t, s, x) PROVE IInv'
    BY <2>8, JoinWindowKeeps
  <2>9. ASSUME NEW s \in Source, RemoveActor(t, s) PROVE IInv' BY <2>9, RemoveActorKeeps
  <2>10. ASSUME NEW a \in Actor, NEW X \in SUBSET Window, RemoveActorFromNotifications(t, a, X) PROVE IInv'
    BY <2>10, RemoveEdgesKeeps DEF RemoveActorFromNotifications
  <2>11. CASE Commit(t) BY <2>11, CommitKeeps
  <2>12. CASE Deliver(t) \/ Lost(t) BY <2>12, EndKeeps
  <2> QED BY <1>2, <2>1, <2>2, <2>3, <2>4, <2>5, <2>6, <2>7, <2>8, <2>9, <2>10, <2>11, <2>12 DEF Step
<1> QED BY <1>1, <1>2 DEF Next

LEMMA Invariant == Spec => []IInv
<1> QED BY InitInvariant, StepKeeps, PTL DEF Spec

-----------------------------------------------------------------------------
(* The theorems.                                                           *)

\* Every document, draft and counter keeps its shape.
THEOREM TypeCorrect == Spec => []TypeOK
<1>1. IInv => TypeOK BY DEF IInv
<1> QED BY <1>1, Invariant, PTL

\* The stored count of every recipient is the number of unread notifications.
THEOREM UnreadCountsExact == Spec => []UnreadCountExact
<1>1. IInv => UnreadCountExact BY DEF IInv
<1> QED BY <1>1, Invariant, PTL

\* A shown window counts its actors right, and has one.
THEOREM ActorCountsExact == Spec => []ActorCountExact
<1>1. IInv => ActorCountExact BY DEF IInv
<1> QED BY <1>1, Invariant, PTL

\* One open window per key, and an unread one.
THEOREM WindowsSingle == Spec => []OneOpenWindow
<1>1. IInv => OneOpenWindow BY DEF IInv
<1> QED BY <1>1, Invariant, PTL

\* A client that shows the current version shows the current count.
THEOREM BadgesAgree == Spec => []BadgeAgrees
<1>1. IInv => BadgeAgrees BY DEF IInv, Emitted, Agrees, BadgeAgrees
<1> QED BY <1>1, Invariant, PTL

\* What a user has read stays read, unless it was invalidated and came again.
THEOREM ReadForGood == Spec => ReadStays
<1> DEFINE Stays == \A n \in Note :
        note[n].st = "valid" /\ note[n].is_read /\ note'[n].st = "valid" => note'[n].is_read
<1>1. ASSUME IInv, Next PROVE Stays
  <2>1. PICK t \in Txn : Step(t) BY <1>1 DEF Next
  <2>2. CASE Commit(t) BY <1>1, <2>2, Committed DEF Good, Rereads
  <2>3. CASE ~Commit(t)
    <3>1. note' = note
      BY <2>1, <2>3 DEF Step, Persist, PersistBatch, InvalidatePage, MarkAsRead, RequestReadAll, MarkAllAsRead,
           CreateWindow, JoinWindow, RemoveActor, RemoveActorFromNotifications, RemoveEdges, Run, Deliver, Lost
    <3> QED BY <3>1
  <2> QED BY <2>2, <2>3
<1>2. IInv /\ [Next]_vars => [Stays]_vars BY <1>1
<1>3. Spec => [][Stays]_vars BY <1>2, Invariant, PTL DEF Spec
<1> QED BY <1>3 DEF ReadStays
=============================================================================
