------------------------ MODULE MessageCommandsProofs ------------------------
(***************************************************************************)
(* Proofs about MessageCommands.  The inductive invariant says that no two *)
(* stored messages share a key, and of an open transaction that what it    *)
(* prepared is still what its request lacks, for the members of the moment *)
(* and with the sender among them: whoever changed either wrote a document *)
(* that the transaction writes as well, and spoiled it.  From it follow    *)
(* the counts, the single emission and the steps of the promise of         *)
(* IdempotentWrites.                                                       *)
(***************************************************************************)
EXTENDS MessageCommands, FiniteSetTheorems, SequenceTheorems, TLAPS

MessageKey == UNION {{Key(r, c) : c \in r.convs} : r \in Requests}
Message == [key: MessageKey, hash: [conv: Convs, text: Texts, origin: Sources \cup {None}], to: SUBSET Others]
Document == ({"conv"} \X Convs) \cup ({"key"} \X MessageKey)

Asked == [phase: {"check", "begin", "duplicate"}, of: Requests]
Transaction == [phase: {"open", "spoiled"}, of: Requests, docs: SUBSET Document,
                new: UNION {[D -> Message] : D \in SUBSET Convs}]
Outcome == [phase: {"deliver", "ack"}, of: Requests, ids: SUBSET Nat, created: SUBSET Nat]

Req == {Idle} \cup Asked \cup Transaction \cup Outcome

TypeOK ==
    /\ messages \in Seq(Message) /\ emitted \in Seq(Nat) /\ Len(emitted) = Len(messages)
    /\ members \in [Convs -> SUBSET Others] /\ inside \subseteq Convs /\ blocked \subseteq Convs
    /\ source \in [Sources -> [text: Texts, visible: BOOLEAN]]
    /\ req \in [Process -> Req]

KeysOnce == \A i, j \in Id : messages[i].key = messages[j].key => i = j

\* What message m says, as its request asked for it.
Says(m) == IF m.hash.origin = None THEN m.hash.text ELSE m.hash.origin
Right(r, c, m) == m.key = Key(r, c) /\ m.hash.conv = c /\ Says(m) = r.what

\* Nothing stored under the keys of r is anything else than what r asked for.
Kept(r) == \A c \in r.convs : \A i \in Find(Key(r, c)) : Right(r, c, messages[i])

\* Transaction x holds exactly what its request lacks.
Ready(x) ==
    /\ DOMAIN x.new = Missing(x.of) /\ Missing(x.of) # {}
    /\ x.docs = Documents(x.of) /\ Kept(x.of)
    /\ \A c \in Missing(x.of) : Right(x.of, c, x.new[c]) /\ c \in inside /\ x.new[c].to = members[c]

\* Outcome x asked for what is stored, all of it.
Settled(x) == Missing(x.of) = {} /\ Kept(x.of) /\ x.ids = Stored(x.of)

Phases ==
    \A p \in Process :
        /\ req[p].phase = "check" => req[p].of.kind = "send"
        /\ req[p].phase = "open" => Ready(req[p])
        /\ req[p].phase \in {"deliver", "ack"} => Settled(req[p])

\* A message yet to be emitted waits for one process at most.
Unsent ==
    /\ \A p \in Process : req[p].phase = "deliver" =>
            req[p].created \subseteq Id /\ \A i \in req[p].created : emitted[i] = 0
    /\ \A p, q \in Process : req[p].phase = "deliver" /\ req[q].phase = "deliver" /\ p # q =>
            req[p].created \cap req[q].created = {}

IInv == TypeOK /\ KeysOnce /\ Phases /\ Unsent /\ EmittedOnce

-----------------------------------------------------------------------------
(* Keys and orders.                                                        *)

\* Every element has its place in the order of a set.
LEMMA Ordered ==
    ASSUME NEW S, IsFiniteSet(S)
    PROVE  /\ SetToSeq(S) \in Seq(S) /\ Len(SetToSeq(S)) = Cardinality(S) /\ Cardinality(S) \in Nat
           /\ \A i, j \in 1..Len(SetToSeq(S)) : SetToSeq(S)[i] = SetToSeq(S)[j] => i = j
           /\ \A x \in S : \E i \in 1..Len(SetToSeq(S)) : SetToSeq(S)[i] = x
<1> DEFINE n == Cardinality(S)
           f == SetToSeq(S)
<1>1. n \in Nat /\ ExistsBijection(1..n, S)
    BY FS_CardinalityType
<1>2. \E g \in [1..n -> S] : IsInjective(g)
    BY <1>1 DEF ExistsBijection, Bijection, Injection
<1>3. f \in [1..n -> S] /\ IsInjective(f)
    BY <1>2 DEF SetToSeq
<1> HIDE DEF f
<1>4. f \in Seq(S)
    BY <1>1, <1>3, SeqDef
<1>5. Len(f) = n
    BY <1>1, <1>3, <1>4, LenProperties
<1>6. \A i, j \in 1..n : f[i] = f[j] => i = j
    BY <1>3 DEF IsInjective
<1>7. ASSUME NEW x \in S PROVE \E i \in 1..n : f[i] = x
    <2> DEFINE R == {f[i] : i \in 1..n}
    <2>1. R \subseteq S
        BY <1>3
    <2>2. f \in Bijection(1..n, R)
        BY <1>3, <1>6 DEF Bijection, Injection, Surjection, IsInjective
    <2>3. ExistsBijection(1..n, R)
        BY <2>2 DEF ExistsBijection
    <2>4. Cardinality(R) = n
        BY <1>1, <2>3, FS_CountingElements
    <2> HIDE DEF R
    <2>5. R = S
        BY <2>1, <2>4, FS_Subset
    <2> QED BY <2>5 DEF R
<1> QED BY <1>1, <1>4, <1>5, <1>6, <1>7 DEF f

\* r is s with the n members of t after it.
Joined(S, r, s, t, n) ==
    /\ r \in Seq(S) /\ Len(r) = Len(s) + n /\ Len(s) \in Nat
    /\ DOMAIN s = 1..Len(s) /\ DOMAIN r = 1..Len(s) + n
    /\ \A i \in 1..Len(s) : r[i] = s[i]
    /\ \A i \in 1..n : r[Len(s) + i] = t[i]

LEMMA Extended ==
    ASSUME NEW S, NEW s \in Seq(S), NEW n \in Nat, NEW t \in [1..n -> S], NEW r, r = s \o t
    PROVE  Joined(S, r, s, t, n)
<1>1. t \in Seq(S)
    BY SeqDef
<1>2. Len(t) = n /\ Len(s) \in Nat
    BY <1>1, LenProperties
<1>3. /\ s \o t \in Seq(S)
      /\ Len(s \o t) = Len(s) + Len(t)
      /\ \A i \in 1..Len(s) + Len(t) : (s \o t)[i] = IF i <= Len(s) THEN s[i] ELSE t[i - Len(s)]
    BY <1>1, ConcatProperties, Zenon
<1>4. \A i \in 1..Len(s) : (s \o t)[i] = s[i]
    BY <1>2, <1>3
<1>5. \A i \in 1..n : (s \o t)[Len(s) + i] = t[i]
    BY <1>2, <1>3
<1>6. DOMAIN s = 1..Len(s) /\ DOMAIN (s \o t) = 1..Len(s \o t)
    BY <1>3, LenProperties
<1> QED BY <1>2, <1>3, <1>4, <1>5, <1>6 DEF Joined

\* Within a request each conversation has a key of its own.
LEMMA KeyOnce ==
    ASSUME NEW r \in Requests
    PROVE  /\ r.convs \subseteq Convs /\ IsFiniteSet(r.convs)
           /\ \A c, d \in r.convs : Key(r, c) = Key(r, d) => c = d
           /\ r.kind = "send" => r.what \in Texts /\ \A c, d \in r.convs : c = d
           /\ r.kind = "send" \/ (r.kind = "forward" /\ r.what # None)
BY CommandsAssumption DEF Key

\* What passes the check of identities is what the request asked for.
LEMMA SameKept == ASSUME NEW r \in Requests, Same(r) PROVE Kept(r)
<1> SUFFICES ASSUME NEW c \in r.convs, NEW i \in Find(Key(r, c)) PROVE Right(r, c, messages[i])
    BY DEF Kept
<1>1. messages[i].key = Key(r, c) /\ messages[i].hash = [Hash(r, c) EXCEPT !.origin = None]
      /\ (r.kind = "forward" => messages[i].hash = Hash(r, c))
    BY DEF Same, Identity, ForwardIdentity, Find
<1>2. messages[i].hash.origin = None /\ messages[i].hash.conv = c /\ messages[i].hash.text = Hash(r, c).text
    BY <1>1 DEF Hash
<1>3. r.kind = "send"
    BY <1>1, <1>2, KeyOnce DEF Hash
<1> QED BY <1>1, <1>2, <1>3 DEF Right, Says, Hash

-----------------------------------------------------------------------------
(* Requests.                                                               *)

LEMMA DocumentsOf ==
    ASSUME NEW r, NEW c \in Missing(r)
    PROVE  <<"conv", c>> \in Documents(r) /\ <<"key", Key(r, c)>> \in Documents(r)
<1>1. <<"conv", c>> \in {<<"conv", c>>, <<"key", Key(r, c)>>} /\ <<"key", Key(r, c)>> \in {<<"conv", c>>, <<"key", Key(r, c)>>}
    OBVIOUS
<1>2. {<<"conv", c>>, <<"key", Key(r, c)>>} \in {{<<"conv", d>>, <<"key", Key(r, d)>>} : d \in Missing(r)}
    OBVIOUS
<1> QED BY <1>1, <1>2 DEF Documents

LEMMA ReqParts ==
    ASSUME NEW x \in Req
    PROVE  /\ x # Idle => x.of \in Requests
           /\ x.phase \in {"check", "begin", "duplicate"} <=> x \in Asked
           /\ x.phase \in {"open", "spoiled"} <=> x \in Transaction
           /\ x.phase \in {"deliver", "ack"} <=> x \in Outcome
           /\ x.phase = "idle" <=> x = Idle
BY DEF Req, Idle, Asked, Transaction, Outcome

\* A step of p that stores nothing and emits nothing.
LEMMA OwnInv ==
    ASSUME IInv, NEW p \in Process, NEW x \in Req, req' = [req EXCEPT ![p] = x],
           UNCHANGED <<messages, emitted, env>>,
           x.phase = "check" => x.of.kind = "send",
           x.phase = "open" => Ready(x),
           x.phase \in {"deliver", "ack"} => Settled(x),
           x.phase = "deliver" => x.created = {}
    PROVE  IInv'
<1> USE DEF IInv, env
<1>1. TypeOK'
    BY DEF TypeOK
<1>2. KeysOnce' /\ EmittedOnce'
    BY DEF KeysOnce, EmittedOnce, Id
<1>3. req'[p] = x /\ \A q \in Process : q # p => req'[q] = req[q]
    BY DEF TypeOK
<1>4. Phases'
    BY <1>3 DEF Phases, Ready, Settled, Kept, Missing, Find, Stored, Documents, Id
<1>5. Unsent'
    BY <1>3 DEF Unsent, Id
<1> QED BY <1>1, <1>2, <1>4, <1>5

LEMMA Stays ==
    ASSUME IInv, NEW p \in Process
    PROVE  /\ req[p] \in Req
           /\ \A x : Become(p, x) <=> req' = [req EXCEPT ![p] = x]
           /\ req[p] # Idle => req[p].of \in Requests
           /\ Idle \in Req /\ Idle.phase = "idle"
BY ReqParts DEF IInv, TypeOK, Become, Req, Idle

LEMMA IdleInv ==
    ASSUME IInv, NEW p \in Process, Become(p, Idle), UNCHANGED <<messages, emitted, env>>
    PROVE  IInv'
BY Stays, OwnInv

LEMMA RefuseInv == ASSUME IInv, NEW p \in Process, NEW why, Refuse(p, why) PROVE IInv'
BY IdleInv DEF Refuse

LEMMA AskInv == ASSUME IInv, NEW p \in Process, NEW r \in Requests, Ask(p, r) PROVE IInv'
<1> DEFINE ph == IF r.kind = "send" THEN "check" ELSE "begin"
           x == [phase |-> ph, of |-> r]
<1>1. x \in Req
    BY DEF Req, Asked
<1>2. x.phase = ph /\ x.of = r
    OBVIOUS
<1>3. req' = [req EXCEPT ![p] = x] /\ UNCHANGED <<messages, emitted, env>>
    BY DEF Ask, Become
<1> HIDE DEF x
<1> QED BY <1>1, <1>2, <1>3, OwnInv

LEMMA LoadInv ==
    ASSUME IInv, NEW p \in Process, req[p] # Idle, Missing(req[p].of) = {}, Load(p)
    PROVE  IInv'
<1>1. PICK r \in Requests : r = req[p].of
    BY Stays
<1>2. CASE Refuse(p, "conflict")
    BY <1>2, RefuseInv
<1>3. CASE Same(r) /\ Result(p, Stored(r), {}) /\ UNCHANGED <<messages, emitted, env>>
    <2> DEFINE x == [phase |-> "deliver", of |-> r, ids |-> Stored(r), created |-> {}]
    <2>1. Stored(r) \subseteq Nat
        BY LenProperties DEF Stored, Find, Id, IInv, TypeOK
    <2>2. x \in Req
        BY <2>1 DEF Req, Outcome
    <2>3. req' = [req EXCEPT ![p] = x] /\ x.phase = "deliver" /\ x.created = {} /\ x.of = r /\ x.ids = Stored(r)
        BY <1>1, <1>3 DEF Result, Become
    <2>4. Settled(x)
        BY <1>1, <1>3, <2>3, SameKept DEF Settled
    <2> HIDE DEF x
    <2> QED BY <1>3, <2>2, <2>3, <2>4, OwnInv
<1> QED BY <1>1, <1>2, <1>3 DEF Load

LEMMA CheckInv == ASSUME IInv, NEW p \in Process, Check(p) PROVE IInv'
<1>1. PICK r \in Requests : r = req[p].of
    BY Stays DEF Check, Idle
<1>2. r.kind = "send" /\ req[p] # Idle /\ req[p].phase = "check" /\ req[p] \in Asked
    BY <1>1, Stays, ReqParts DEF Check, Idle, IInv, Phases
<1>3. CASE Stored(r) # {} /\ Load(p)
    <2>1. Missing(r) = {}
        BY <1>2, <1>3, KeyOnce DEF Stored, Missing
    <2> QED BY <1>1, <1>2, <1>3, <2>1, LoadInv
<1>4. CASE Become(p, [req[p] EXCEPT !.phase = "begin"]) /\ UNCHANGED <<messages, emitted, env>>
    <2> DEFINE x == [req[p] EXCEPT !.phase = "begin"]
    <2>1. x \in Req /\ x.phase = "begin"
        BY <1>2 DEF Req, Asked
    <2>2. req' = [req EXCEPT ![p] = x]
        BY <1>4 DEF Become
    <2> HIDE DEF x
    <2> QED BY <1>4, <2>1, <2>2, OwnInv
<1> QED BY <1>1, <1>3, <1>4 DEF Check

\* What a transaction holds when it opens.
LEMMA Opened ==
    ASSUME IInv, NEW r \in Requests, Same(r), Missing(r) # {}, Visible(r),
           r.kind = "forward" => r.convs \subseteq inside, \A c \in Missing(r) : MayWrite(c),
           NEW x, x = [phase |-> "open", of |-> r, docs |-> Documents(r),
                       new |-> [c \in Missing(r) |-> [key |-> Key(r, c), hash |-> Hash(r, c), to |-> members[c]]]]
    PROVE  x \in Req /\ Ready(x)
<1>1. Missing(r) \subseteq r.convs /\ r.convs \subseteq Convs
    BY KeyOnce DEF Missing
<1>2. \A c \in Missing(r) : Key(r, c) \in MessageKey
    BY <1>1 DEF MessageKey
<1>3. \A c \in Missing(r) : Hash(r, c) \in [conv: Convs, text: Texts, origin: Sources \cup {None}]
    <2>1. CASE r.kind = "send"
        BY <1>1, <2>1, KeyOnce DEF Hash
    <2>2. CASE r.kind # "send"
        <3>1. r.kind = "forward" /\ r.what \in Sources
            BY <2>2, KeyOnce DEF Sources
        <3>2. source[r.what].text \in Texts
            BY <3>1 DEF IInv, TypeOK
        <3> QED BY <1>1, <2>2, <3>1, <3>2 DEF Hash
    <2> QED BY <2>1, <2>2
<1>4. \A c \in Missing(r) : members[c] \in SUBSET Others
    BY <1>1 DEF IInv, TypeOK
<1>5. x.new \in [Missing(r) -> Message]
    BY <1>2, <1>3, <1>4 DEF Message
<1>6. Documents(r) \subseteq Document
    BY <1>1, <1>2 DEF Documents, Document
<1>7. x \in Req
    <2>1. x.new \in UNION {[D -> Message] : D \in SUBSET Convs}
        BY <1>1, <1>5
    <2> QED BY <1>6, <2>1 DEF Req, Transaction
<1>8. \A c \in Missing(r) : Right(r, c, x.new[c])
    <2> SUFFICES ASSUME NEW c \in Missing(r) PROVE Right(r, c, [key |-> Key(r, c), hash |-> Hash(r, c), to |-> members[c]])
        OBVIOUS
    <2> QED BY KeyOnce DEF Right, Says, Hash
<1>9. Ready(x)
    BY <1>8, SameKept DEF Ready, MayWrite
<1> QED BY <1>7, <1>9

LEMMA BeginInv == ASSUME IInv, NEW p \in Process, Begin(p) PROVE IInv'
<1>1. PICK r \in Requests : r = req[p].of
    BY Stays DEF Begin, Idle
<1>2. req[p] # Idle
    BY DEF Begin, Idle
<1>3. CASE Refuse(p, "denied") \/ Refuse(p, "conflict")
    BY <1>3, RefuseInv
<1>4. CASE Missing(r) = {} /\ Load(p)
    BY <1>1, <1>2, <1>4, LoadInv
<1> DEFINE x == [phase |-> "open", of |-> r, docs |-> Documents(r),
                 new |-> [c \in Missing(r) |-> [key |-> Key(r, c), hash |-> Hash(r, c), to |-> members[c]]]]
           denied == ~Visible(r) \/ (r.kind = "forward" /\ ~r.convs \subseteq inside) \/ \E c \in Missing(r) : ~MayWrite(c)
<1>5. CASE ~denied /\ Same(r) /\ Missing(r) # {} /\ Become(p, x) /\ UNCHANGED <<messages, emitted, env>>
    <2>1. PICK y : y = x
        OBVIOUS
    <2>2. y.phase = "open" /\ y \in Req /\ Ready(y)
        BY <1>5, <2>1, Opened
    <2>3. req' = [req EXCEPT ![p] = y]
        BY <1>5, <2>1 DEF Become
    <2> HIDE DEF x
    <2> QED BY <1>5, <2>2, <2>3, OwnInv
<1> QED BY <1>1, <1>3, <1>4, <1>5 DEF Begin

LEMMA AgainInv == ASSUME IInv, NEW p \in Process, Again(p) PROVE IInv'
<1>1. PICK r \in Requests : r = req[p].of
    BY Stays DEF Again, Idle
<1>2. PICK x \in Asked : x.phase \in {"begin", "duplicate"} /\ req' = [req EXCEPT ![p] = x]
    BY <1>1 DEF Again, Become, Asked
<1> QED BY <1>2, OwnInv DEF Req, Again

LEMMA DuplicateInv == ASSUME IInv, NEW p \in Process, Duplicate(p) PROVE IInv'
<1>1. req[p] # Idle
    BY DEF Duplicate, Idle
<1> QED BY <1>1, LoadInv, RefuseInv DEF Duplicate

LEMMA DeliverInv == ASSUME IInv, NEW p \in Process, Deliver(p) PROVE IInv'
<1> USE DEF IInv
<1> DEFINE x == [req[p] EXCEPT !.phase = "ack"]
<1>1. req[p].phase = "deliver" /\ req[p] \in Outcome /\ UNCHANGED <<messages, env>>
    BY Stays, ReqParts DEF Deliver
<1>2. /\ req' = [req EXCEPT ![p] = x] /\ x \in Req
      /\ x.phase = "ack" /\ x.of = req[p].of /\ x.ids = req[p].ids
    BY <1>1 DEF Deliver, Become, Req, Outcome
<1> HIDE DEF x
<1>3. req'[p] = x /\ \A q \in Process : q # p => req'[q] = req[q]
    BY <1>2 DEF TypeOK
<1>4. Id = 1..Len(messages) /\ Len(messages) \in Nat /\ DOMAIN emitted = Id /\ \A i \in Id : emitted[i] \in Nat
    BY LenProperties, ElementOfSeq DEF TypeOK, Id
<1>5. emitted' = [i \in Id |-> emitted[i] + IF i \in req[p].created THEN 1 ELSE 0]
    BY DEF Deliver
<1>6. emitted' \in Seq(Nat) /\ Len(emitted') = Len(messages)
    <2>1. emitted' \in [1..Len(messages) -> Nat]
        BY <1>4, <1>5
    <2>2. emitted' \in Seq(Nat)
        BY <1>4, <2>1, SeqDef
    <2> QED BY <1>4, <2>1, <2>2, LenProperties
<1>7. TypeOK' /\ KeysOnce'
    BY <1>1, <1>2, <1>6 DEF TypeOK, KeysOnce, Id, env
<1>8. Phases'
    <2>1. Settled(x)
        BY <1>1, <1>2 DEF Phases, Settled
    <2> QED BY <1>1, <1>2, <1>3, <2>1
            DEF Phases, Ready, Settled, Kept, Missing, Find, Stored, Documents, Id, env
<1>9. Unsent'
    <2>1. ASSUME NEW q \in Process, req'[q].phase = "deliver"
          PROVE  /\ q # p /\ req'[q] = req[q] /\ req[q].created \subseteq Id
                 /\ \A i \in req[q].created : emitted'[i] = 0
        <3>1. q # p /\ req'[q] = req[q]
            BY <1>2, <1>3, <2>1
        <3>2. req[q].created \subseteq Id /\ req[q].created \cap req[p].created = {}
              /\ \A i \in req[q].created : emitted[i] = 0
            BY <1>1, <2>1, <3>1 DEF Unsent
        <3> QED BY <1>5, <3>1, <3>2
    <2> QED BY <1>1, <2>1 DEF Unsent, Id
<1>10. EmittedOnce'
    BY <1>1, <1>4, <1>5 DEF EmittedOnce, Unsent, Id
<1> QED BY <1>7, <1>8, <1>9, <1>10

LEMMA AcknowledgeInv == ASSUME IInv, NEW p \in Process, Acknowledge(p) PROVE IInv'
BY IdleInv DEF Acknowledge

LEMMA CrashInv == ASSUME IInv, NEW p \in Process, Crash(p) PROVE IInv'
BY IdleInv DEF Crash

-----------------------------------------------------------------------------
(* Changes by others, and the commit.                                      *)

\* A transaction that goes on after a commit shares no document with it.
LEMMA Spoiled ==
    ASSUME IInv, NEW docs
    PROVE  /\ Spoil(docs) \in [Process -> Req]
           /\ \A p \in Process :
                \/ Spoil(docs)[p] = req[p] /\ (req[p].phase = "open" => req[p].docs \cap docs = {})
                \/ /\ req[p].phase = "open" /\ Spoil(docs)[p].phase = "spoiled"
                   /\ Spoil(docs)[p] \in Transaction
<1>1. ASSUME NEW p \in Process, req[p].phase = "open"
      PROVE  [req[p] EXCEPT !.phase = "spoiled"] \in Transaction /\ [req[p] EXCEPT !.phase = "spoiled"].phase = "spoiled"
    <2>1. req[p] \in Transaction
        BY <1>1, Stays, ReqParts
    <2> QED BY <2>1 DEF Transaction
<1>2. \A p \in Process : Spoil(docs)[p] = IF req[p].phase = "open" /\ req[p].docs \cap docs # {}
                                          THEN [req[p] EXCEPT !.phase = "spoiled"] ELSE req[p]
    BY DEF Spoil
<1>3. \A p \in Process : Spoil(docs)[p] \in Req
    BY <1>1, <1>2, Stays DEF Req
<1>4. Spoil(docs) \in [Process -> Req]
    BY <1>3 DEF Spoil
<1> QED BY <1>1, <1>2, <1>4

\* Members change in the conversations of cs, and spoil who writes there.
LEMMA MembershipInv ==
    ASSUME IInv, NEW c \in Convs, req' = Spoil({<<"conv", c>>}),
           members' \in [Convs -> SUBSET Others], \A d \in Convs : d # c => members'[d] = members[d],
           inside' \subseteq Convs, inside \ {c} \subseteq inside',
           UNCHANGED <<messages, emitted, blocked, source>>
    PROVE  IInv'
<1> USE DEF IInv
<1>1. TypeOK'
    BY Spoiled DEF TypeOK
<1>2. KeysOnce' /\ EmittedOnce'
    BY DEF KeysOnce, EmittedOnce, Id
<1>3. ASSUME NEW p \in Process
      PROVE  /\ req'[p].phase = "check" => req'[p].of.kind = "send"
             /\ req'[p].phase = "open" => Ready(req[p])' /\ req'[p] = req[p]
             /\ req'[p].phase \in {"deliver", "ack"} => Settled(req[p])' /\ req'[p] = req[p]
    <2>1. CASE req'[p] = req[p] /\ (req[p].phase = "open" => req[p].docs \cap {<<"conv", c>>} = {})
        <3>1. CASE req[p].phase = "open"
            <4>1. PICK x : x = req[p]
                OBVIOUS
            <4>2. Ready(x) /\ Missing(x.of) \subseteq Convs
                BY <3>1, <4>1, Stays, KeyOnce DEF Phases, Missing, Idle
            <4>3. c \notin Missing(x.of)
                <5> SUFFICES ASSUME c \in Missing(x.of) PROVE FALSE
                    OBVIOUS
                <5>1. <<"conv", c>> \in Documents(x.of)
                    BY DocumentsOf, Zenon
                <5>2. x.docs = Documents(x.of)
                    BY <4>2 DEF Ready
                <5>3. {<<"conv", c>>} \cap x.docs # {}
                    BY <5>1, <5>2
                <5> QED BY <2>1, <3>1, <4>1, <5>3
            <4>4. Ready(x)'
                BY <4>2, <4>3 DEF Ready, Documents, Missing, Kept, Find, Id
            <4> QED BY <2>1, <3>1, <4>1, <4>4 DEF Ready
        <3>2. CASE req[p].phase \in {"deliver", "ack"}
            <4>1. PICK x : x = req[p]
                OBVIOUS
            <4>2. Settled(x)
                BY <3>2, <4>1 DEF Phases
            <4>3. Settled(x)'
                BY <4>2 DEF Settled, Missing, Kept, Find, Stored, Id
            <4> QED BY <2>1, <3>2, <4>1, <4>3
        <3> QED BY <2>1, <3>1, <3>2 DEF Phases
    <2>2. CASE req'[p].phase = "spoiled"
        BY <2>2
    <2> QED BY <2>1, <2>2, Spoiled
<1>4. Phases'
    BY <1>3 DEF Phases
<1>5. Unsent'
    <2>1. \A p \in Process : req'[p].phase = "deliver" => req'[p] = req[p]
        BY <1>3
    <2> QED BY <2>1 DEF Unsent, Id
<1> QED BY <1>1, <1>2, <1>4, <1>5

LEMMA ChangeMemberInv ==
    ASSUME IInv, NEW c \in Convs, NEW u \in Others, ChangeMember(c, u)
    PROVE  IInv'
<1>1. members' \in [Convs -> SUBSET Others] /\ \A d \in Convs : d # c => members'[d] = members[d]
    BY DEF ChangeMember, IInv, TypeOK
<1>2. inside \subseteq Convs
    BY DEF IInv, TypeOK
<1> QED BY <1>1, <1>2, MembershipInv DEF ChangeMember, Change

LEMMA ExpelInv == ASSUME IInv, NEW c \in Convs, Expel(c) PROVE IInv'
<1>1. inside' \subseteq Convs /\ inside' = inside \ {c} /\ members \in [Convs -> SUBSET Others]
    BY DEF Expel, IInv, TypeOK
<1> QED BY <1>1, MembershipInv DEF Expel, Change

\* Blocks and sources are only read.
LEMMA ReadOnlyInv ==
    ASSUME IInv, blocked' \subseteq Convs, source' \in [Sources -> [text: Texts, visible: BOOLEAN]],
           UNCHANGED <<messages, emitted, members, inside, req>>
    PROVE  IInv'
<1> USE DEF IInv
<1>1. TypeOK'
    BY DEF TypeOK
<1>2. KeysOnce' /\ EmittedOnce' /\ Unsent'
    BY DEF KeysOnce, EmittedOnce, Unsent, Id
<1>3. Phases'
    BY DEF Phases, Ready, Settled, Kept, Missing, Find, Stored, Documents, Id
<1> QED BY <1>1, <1>2, <1>3

LEMMA ChangesInv ==
    ASSUME IInv, \/ \E c \in Convs : ToggleBlock(c)
                 \/ \E o \in Sources : HideSource(o) \/ \E t \in Texts : EditSource(o, t)
    PROVE  IInv'
<1>1. ASSUME NEW c \in Convs, ToggleBlock(c) PROVE IInv'
    BY <1>1, ReadOnlyInv, CommandsAssumption DEF ToggleBlock, Change, IInv, TypeOK
<1>2. ASSUME NEW o \in Sources, HideSource(o) PROVE IInv'
    <2>1. source' \in [Sources -> [text: Texts, visible: BOOLEAN]] /\ blocked \subseteq Convs
        BY <1>2 DEF HideSource, IInv, TypeOK
    <2> QED BY <1>2, <2>1, ReadOnlyInv DEF HideSource, Change
<1>3. ASSUME NEW o \in Sources, NEW t \in Texts, EditSource(o, t) PROVE IInv'
    <2>1. source' \in [Sources -> [text: Texts, visible: BOOLEAN]] /\ blocked \subseteq Convs
        BY <1>3 DEF EditSource, IInv, TypeOK
    <2> QED BY <1>3, <2>1, ReadOnlyInv DEF EditSource, Change
<1> QED BY <1>1, <1>2, <1>3

\* The commit of transaction x appends one message for each conversation that
\* lacked one.
Created == Len(messages) + 1..Len(messages')

Grown(x) ==
    /\ messages' \in Seq(Message) /\ emitted' \in Seq(Nat) /\ Len(emitted') = Len(messages')
    /\ Id' = Id \cup Created /\ Id \cap Created = {} /\ Created # {} /\ Id' \subseteq Nat
    /\ \A i \in Id : messages'[i] = messages[i] /\ emitted'[i] = emitted[i]
    /\ \A i \in Created : emitted'[i] = 0 /\ \E c \in Missing(x.of) : messages'[i] = x.new[c]
    /\ \A c \in Missing(x.of) : \E i \in Created : messages'[i] = x.new[c]
    /\ \A i, j \in Created : messages'[i].key = messages'[j].key => i = j

LEMMA Appended ==
    ASSUME IInv, NEW p \in Process, Commit(p), NEW x, x = req[p]
    PROVE  /\ Grown(x)
           /\ req' = [Spoil(x.docs) EXCEPT ![p] = [phase |-> "deliver", of |-> x.of,
                                                   ids |-> Stored(x.of) \cup Created, created |-> Created]]
<1> DEFINE order == SetToSeq(DOMAIN x.new)
           n == Len(order)
           more == [i \in 1..n |-> x.new[order[i]]]
           zeros == [i \in 1..n |-> 0]
           D == Missing(x.of)
<1>1. /\ x.phase = "open" /\ x \in Transaction /\ x.of \in Requests /\ Ready(x)
    BY Stays, ReqParts DEF Commit, Idle, IInv, Phases
<1>2. /\ IsFiniteSet(D) /\ D # {} /\ DOMAIN x.new = D /\ D \subseteq x.of.convs
    BY <1>1, KeyOnce, FS_Subset DEF Ready, Missing
<1>3. x.new \in [D -> Message]
    BY <1>1, <1>2 DEF Transaction
<1>4. /\ order \in Seq(D) /\ n = Cardinality(D) /\ n \in Nat
      /\ \A i, j \in 1..n : order[i] = order[j] => i = j
      /\ \A c \in D : \E i \in 1..n : order[i] = c
    BY <1>2, Ordered
<1>5. n # 0
    BY <1>2, <1>4
<1>6. /\ messages' = messages \o more /\ emitted' = emitted \o zeros
      /\ req' = [Spoil(x.docs) EXCEPT ![p] = [phase |-> "deliver", of |-> x.of,
                    ids |-> Stored(x.of) \cup (Len(messages) + 1..Len(messages) + n),
                    created |-> Len(messages) + 1..Len(messages) + n]]
    BY DEF Commit
<1>7. \A i \in 1..n : order[i] \in D
    <2> HIDE DEF order, D
    <2> QED BY <1>4, ElementOfSeq
<1>8. more \in [1..n -> Message] /\ \A i \in 1..n : more[i] = x.new[order[i]]
    <2> HIDE DEF order, n, D
    <2> QED BY <1>3, <1>7
<1>9. zeros \in [1..n -> Nat] /\ \A i \in 1..n : zeros[i] = 0
    OBVIOUS
<1>10. messages \in Seq(Message) /\ emitted \in Seq(Nat) /\ Len(emitted) = Len(messages)
    BY DEF IInv, TypeOK
<1> HIDE DEF order, n, more, zeros, D
<1>11. /\ messages' \in Seq(Message) /\ Len(messages') = Len(messages) + n /\ Len(messages) \in Nat
       /\ Id = 1..Len(messages) /\ Id' = 1..Len(messages) + n
       /\ \A i \in 1..Len(messages) : messages'[i] = messages[i]
       /\ \A i \in 1..n : messages'[Len(messages) + i] = more[i]
    <2>1. n \in Nat /\ more \in [1..n -> Message] /\ messages \in Seq(Message) /\ messages' = messages \o more
        BY <1>4, <1>6, <1>8, <1>10
    <2>2. PICK s : s = messages \o more
        OBVIOUS
    <2>3. Joined(Message, s, messages, more, n)
        BY <2>1, <2>2, Extended
    <2>4. messages' = s
        BY <2>1, <2>2
    <2>5. Id = 1..Len(messages) /\ Id' = 1..Len(messages) + n
        BY <2>3, <2>4, Zenon DEF Id, Joined
    <2> QED BY <2>3, <2>4, <2>5, Zenon DEF Joined
<1>12. /\ emitted' \in Seq(Nat) /\ Len(emitted') = Len(messages) + n
       /\ \A i \in 1..Len(messages) : emitted'[i] = emitted[i]
       /\ \A i \in 1..n : emitted'[Len(messages) + i] = zeros[i]
    <2>1. n \in Nat /\ zeros \in [1..n -> Nat] /\ emitted \in Seq(Nat) /\ emitted' = emitted \o zeros
        BY <1>4, <1>6, <1>9, <1>10
    <2>2. PICK s : s = emitted \o zeros
        OBVIOUS
    <2>3. Joined(Nat, s, emitted, zeros, n)
        BY <2>1, <2>2, Extended
    <2>4. emitted' = s
        BY <2>1, <2>2
    <2> QED BY <1>10, <2>3, <2>4, Zenon DEF Joined
<1>13. Created = Len(messages) + 1..Len(messages) + n
    BY <1>11 DEF Created
<1>14. PICK len \in Nat : len = Len(messages)
    BY <1>11
<1>15. \A i \in Created : i - len \in 1..n /\ len + (i - len) = i
    BY <1>4, <1>13, <1>14
<1>16. \A i \in Created : messages'[i] = x.new[order[i - len]] /\ order[i - len] \in D /\ emitted'[i] = 0
    <2> SUFFICES ASSUME NEW i \in Created
                 PROVE  messages'[i] = x.new[order[i - len]] /\ order[i - len] \in D /\ emitted'[i] = 0
        OBVIOUS
    <2>1. PICK k \in 1..n : k = i - len /\ len + k = i
        BY <1>15
    <2>2. messages'[len + k] = more[k] /\ emitted'[len + k] = zeros[k]
        BY <1>11, <1>12, <1>14
    <2> QED BY <1>7, <1>8, <1>9, <2>1, <2>2
<1>17. \A i \in Id : messages'[i] = messages[i] /\ emitted'[i] = emitted[i]
    BY <1>11, <1>12
<1>18. ASSUME NEW c \in D PROVE \E i \in Created : messages'[i] = x.new[c]
    <2>1. PICK k \in 1..n : order[k] = c
        BY <1>4
    <2>2. len + k \in Created
        BY <1>4, <1>13, <1>14
    <2>3. messages'[len + k] = more[k]
        BY <1>11, <1>14
    <2> QED BY <1>8, <2>1, <2>2, <2>3
<1>19. ASSUME NEW i \in Created, NEW j \in Created, messages'[i].key = messages'[j].key PROVE i = j
    <2>1. order[i - len] \in x.of.convs /\ order[j - len] \in x.of.convs
        BY <1>2, <1>16
    <2>2. \A c \in D : x.new[c].key = Key(x.of, c)
        BY <1>1 DEF Ready, Right, D
    <2>3. Key(x.of, order[i - len]) = Key(x.of, order[j - len])
        BY <1>16, <1>19, <2>2
    <2>4. order[i - len] = order[j - len]
        BY <1>1, <2>1, <2>3, KeyOnce
    <2>5. i - len = j - len
        BY <1>4, <1>15, <2>4
    <2>6. len + (i - len) = i /\ len + (j - len) = j
        BY <1>15
    <2> QED BY <2>5, <2>6
<1>20. Id \cap Created = {} /\ Id' \subseteq Nat
    BY <1>4, <1>11, <1>13, <1>14
<1>21. Id' = Id \cup Created
    <2>1. Created = len + 1..len + n /\ Id = 1..len /\ Id' = 1..len + n
        BY <1>11, <1>13, <1>14
    <2> QED BY <1>4, <2>1
<1>22. Created # {}
    <2>1. len + 1 \in Created
        BY <1>4, <1>5, <1>13, <1>14
    <2> QED BY <2>1
<1>23. req' = [Spoil(x.docs) EXCEPT ![p] = [phase |-> "deliver", of |-> x.of,
                                             ids |-> Stored(x.of) \cup Created, created |-> Created]]
    BY <1>6, <1>13
<1>24. \A i \in Created : emitted'[i] = 0 /\ \E c \in D : messages'[i] = x.new[c]
    BY <1>16
<1> QED BY <1>11, <1>12, <1>17, <1>18, <1>19, <1>20, <1>21, <1>22, <1>23, <1>24 DEF D, Grown

\* A commit finds a message for every key it brings, and for no other.
LEMMA FindAfter ==
    ASSUME IInv, NEW p \in Process, Commit(p), NEW x, x = req[p]
    PROVE  /\ \A k : Find(k)' = Find(k) \cup {i \in Created : messages'[i].key = k}
           /\ \A k : Find(k) # {} => Find(k)' = Find(k)
           /\ \A k : (\A c \in Missing(x.of) : Key(x.of, c) # k) => Find(k)' = Find(k)
<1>1. /\ Id' = Id \cup Created /\ \A i \in Id : messages'[i] = messages[i]
      /\ \A i \in Created : \E c \in Missing(x.of) : messages'[i] = x.new[c]
    <2>1. Grown(x)
        BY Appended, Zenon
    <2> QED BY <2>1 DEF Grown
<1>2. \A k : Find(k)' = Find(k) \cup {i \in Created : messages'[i].key = k}
    BY <1>1 DEF Find
<1>3. Ready(x)
    BY DEF Commit, IInv, Phases
<1>4. \A i \in Created : \E c \in Missing(x.of) : messages'[i].key = Key(x.of, c) /\ Find(Key(x.of, c)) = {}
    BY <1>1, <1>3 DEF Ready, Right, Missing
<1>5. ASSUME NEW k, Find(k) # {} \/ \A c \in Missing(x.of) : Key(x.of, c) # k
      PROVE  Find(k)' = Find(k)
    BY <1>2, <1>4, <1>5
<1> QED BY <1>2, <1>5

\* What p committed is what its request asked for, and completes it.
LEMMA CommitSettles ==
    ASSUME IInv, NEW p \in Process, Commit(p), NEW x, x = req[p], NEW y, y.of = x.of,
           y.ids = Stored(x.of) \cup Created
    PROVE  Settled(y)'
<1> PICK r \in Requests : r = x.of
    BY Stays DEF Commit, Idle
<1>1. /\ Ready(x) /\ Missing(r) \subseteq r.convs
    BY DEF Commit, IInv, Phases, Missing
<1>2. /\ \A i \in Id : messages'[i] = messages[i]
      /\ \A i \in Created : \E c \in Missing(r) : messages'[i] = x.new[c]
      /\ \A c \in Missing(r) : \E i \in Created : messages'[i] = x.new[c]
    <2>1. Grown(x)
        BY Appended, Zenon
    <2> QED BY <2>1 DEF Grown
<1>3. \A c \in r.convs : Find(Key(r, c))' = Find(Key(r, c)) \cup {i \in Created : messages'[i].key = Key(r, c)}
    BY FindAfter
<1>4. \A c \in Missing(r) : Right(r, c, x.new[c]) /\ x.new[c].key = Key(r, c)
    BY <1>1 DEF Ready, Right
<1>5. \A c \in r.convs : Find(Key(r, c))' # {}
    BY <1>2, <1>3, <1>4 DEF Missing
<1>6. ASSUME NEW c \in r.convs, NEW i \in Find(Key(r, c))'
      PROVE  Right(r, c, messages'[i])
    <2>1. CASE i \in Find(Key(r, c))
        <3>1. Right(r, c, messages[i]) /\ i \in Id
            BY <1>1, <2>1 DEF Ready, Kept, Find
        <3> QED BY <1>2, <3>1
    <2>2. CASE i \in Created /\ messages'[i].key = Key(r, c)
        <3>1. PICK d \in Missing(r) : messages'[i] = x.new[d]
            BY <1>2, <2>2
        <3>2. d = c
            BY <1>1, <1>4, <2>2, <3>1, KeyOnce
        <3> QED BY <1>4, <3>1, <3>2
    <2> QED BY <1>3, <1>6, <2>1, <2>2
<1>7. \A i \in Created : \E c \in r.convs : messages'[i].key = Key(r, c)
    BY <1>1, <1>2, <1>4
<1>8. Stored(r)' = Stored(r) \cup Created
    BY <1>3, <1>7 DEF Stored
<1>9. Missing(r)' = {} /\ Kept(r)'
    BY <1>5, <1>6 DEF Missing, Kept
<1> QED BY <1>8, <1>9 DEF Settled

\* What others prepared or settled stands, unless the commit spoiled it.
LEMMA CommitSpares ==
    ASSUME IInv, NEW p \in Process, Commit(p), NEW x, x = req[p],
           NEW q \in Process, NEW z, z = req[q]
    PROVE  /\ z.phase = "open" /\ z.docs \cap x.docs = {} => Ready(z)'
           /\ z.phase \in {"deliver", "ack"} => Settled(z)'
<1>1. Ready(x) /\ UNCHANGED <<members, inside>>
    BY DEF Commit, IInv, Phases, env
<1>2. \A i \in Id : messages'[i] = messages[i]
    <2>1. Grown(x)
        BY Appended, Zenon
    <2> QED BY <2>1 DEF Grown
<1>3. ASSUME NEW r, \A c \in Missing(r) : \A d \in Missing(x.of) : Key(x.of, d) # Key(r, c)
      PROVE  /\ \A c \in r.convs : Find(Key(r, c))' = Find(Key(r, c))
             /\ Missing(r)' = Missing(r) /\ Stored(r)' = Stored(r) /\ Documents(r)' = Documents(r)
             /\ Kept(r) => Kept(r)'
    <2>1. ASSUME NEW c \in r.convs PROVE Find(Key(r, c))' = Find(Key(r, c))
        <3>1. CASE Find(Key(r, c)) # {}
            BY <3>1, FindAfter
        <3>2. CASE Find(Key(r, c)) = {}
            <4>1. \A d \in Missing(x.of) : Key(x.of, d) # Key(r, c)
                BY <1>3, <3>2 DEF Missing
            <4> QED BY <4>1, FindAfter
        <3> QED BY <3>1, <3>2
    <2>2. Missing(r)' = Missing(r) /\ Stored(r)' = Stored(r)
        BY <2>1 DEF Missing, Stored
    <2>3. Documents(r)' = Documents(r)
        BY <2>2 DEF Documents
    <2>4. Kept(r) => Kept(r)'
        <3> SUFFICES ASSUME Kept(r), NEW c \in r.convs, NEW i \in Find(Key(r, c))
                     PROVE  Right(r, c, messages'[i])
            BY <2>1 DEF Kept
        <3> QED BY <1>2 DEF Kept, Find
    <2> QED BY <2>1, <2>2, <2>3, <2>4
<1>4. CASE z.phase = "open" /\ z.docs \cap x.docs = {}
    <2>1. Ready(z)
        BY <1>4 DEF IInv, Phases
    <2>2. ASSUME NEW c \in Missing(z.of), NEW d \in Missing(x.of) PROVE Key(x.of, d) # Key(z.of, c)
        <3>1. <<"key", Key(x.of, d)>> \in Documents(x.of) /\ <<"key", Key(z.of, c)>> \in Documents(z.of)
            BY DocumentsOf, Zenon
        <3>2. Documents(x.of) \cap Documents(z.of) = {}
            BY <1>1, <1>4, <2>1 DEF Ready
        <3> QED BY <3>1, <3>2
    <2>3. Missing(z.of)' = Missing(z.of) /\ Documents(z.of)' = Documents(z.of) /\ (Kept(z.of) => Kept(z.of)')
        BY <1>3, <2>2
    <2> QED BY <1>1, <1>4, <2>1, <2>3 DEF Ready
<1>5. CASE z.phase \in {"deliver", "ack"}
    <2>1. Settled(z)
        BY <1>5 DEF IInv, Phases
    <2>2. \A c \in Missing(z.of) : \A d \in Missing(x.of) : Key(x.of, d) # Key(z.of, c)
        BY <2>1 DEF Settled
    <2>3. Missing(z.of)' = Missing(z.of) /\ Stored(z.of)' = Stored(z.of) /\ (Kept(z.of) => Kept(z.of)')
        BY <1>3, <2>2
    <2> QED BY <1>5, <2>1, <2>3 DEF Settled
<1> QED BY <1>4, <1>5

LEMMA CommitInv == ASSUME IInv, NEW p \in Process, Commit(p) PROVE IInv'
<1>1. PICK x : x = req[p]
    OBVIOUS
<1>2. PICK y : y = [phase |-> "deliver", of |-> x.of, ids |-> Stored(x.of) \cup Created, created |-> Created]
    OBVIOUS
<1>3. /\ messages' \in Seq(Message) /\ emitted' \in Seq(Nat) /\ Len(emitted') = Len(messages')
      /\ Id' = Id \cup Created /\ Id \cap Created = {} /\ Id' \subseteq Nat
      /\ \A i \in Id : messages'[i] = messages[i] /\ emitted'[i] = emitted[i]
      /\ \A i \in Created : emitted'[i] = 0 /\ \E c \in Missing(x.of) : messages'[i] = x.new[c]
      /\ \A i, j \in Created : messages'[i].key = messages'[j].key => i = j
      /\ req' = [Spoil(x.docs) EXCEPT ![p] = y]
    BY <1>1, <1>2, Appended DEF Grown
<1>4. Spoil(x.docs) \in [Process -> Req] /\ y.phase = "deliver" /\ y.of = x.of /\ y.created = Created
      /\ y.ids = Stored(x.of) \cup Created
    BY <1>2, Spoiled
<1>5. req'[p] = y /\ \A q \in Process : q # p => req'[q] = Spoil(x.docs)[q]
    BY <1>3, <1>4
<1>6. y \in Req
    <2>1. x.of \in Requests
        BY <1>1, Stays DEF Commit, Idle
    <2>2. Stored(x.of) \subseteq Id
        BY DEF Stored, Find
    <2>3. Stored(x.of) \cup Created \subseteq Nat
        BY <1>3, <2>2
    <2> QED BY <1>2, <1>3, <2>1, <2>3 DEF Req, Outcome
<1>7. TypeOK'
    <2>1. req' \in [Process -> Req]
        BY <1>3, <1>4, <1>6
    <2> QED BY <1>3, <2>1 DEF IInv, TypeOK, Commit, env
<1>8. KeysOnce'
    <2> SUFFICES ASSUME NEW i \in Id', NEW j \in Id', messages'[i].key = messages'[j].key PROVE i = j
        BY DEF KeysOnce
    <2>1. \A k \in Created : \E c \in Missing(x.of) : messages'[k].key = Key(x.of, c)
        <3>1. \A c \in Missing(x.of) : x.new[c].key = Key(x.of, c)
            BY <1>1 DEF Commit, IInv, Phases, Ready, Right
        <3> QED BY <1>3, <3>1
    <2>2. \A k \in Id, l \in Created : messages[k].key # messages'[l].key
        BY <2>1 DEF Missing, Find
    <2>3. \A k, l \in Id : messages[k].key = messages[l].key => k = l
        BY DEF IInv, KeysOnce
    <2> QED BY <1>3, <2>2, <2>3
<1>9. ASSUME NEW q \in Process, q # p
      PROVE  \/ req'[q] = req[q] /\ (req[q].phase = "open" => req[q].docs \cap x.docs = {})
             \/ req'[q].phase = "spoiled"
    BY <1>5, <1>9, Spoiled
<1>10. Phases'
    <2> SUFFICES ASSUME NEW q \in Process
                 PROVE  /\ req'[q].phase = "check" => req'[q].of.kind = "send"
                        /\ req'[q].phase = "open" => Ready(req[q])'
                        /\ req'[q].phase \in {"deliver", "ack"} => Settled(req[q])'
        BY DEF Phases
    <2>1. CASE q = p
        <3>1. Settled(y)'
            BY <1>1, <1>4, CommitSettles
        <3> QED BY <1>4, <1>5, <2>1, <3>1
    <2>2. CASE q # p /\ req'[q].phase = "spoiled"
        BY <2>2
    <2>3. CASE q # p /\ req'[q] = req[q] /\ (req[q].phase = "open" => req[q].docs \cap x.docs = {})
        <3>1. PICK z : z = req[q]
            OBVIOUS
        <3>2. /\ z.phase = "open" => Ready(z)'
              /\ z.phase \in {"deliver", "ack"} => Settled(z)'
            BY <1>1, <2>3, <3>1, CommitSpares
        <3>3. req'[q] = z /\ (z.phase = "check" => z.of.kind = "send")
            BY <2>3, <3>1 DEF IInv, Phases
        <3> QED BY <3>2, <3>3
    <2> QED BY <1>9, <2>1, <2>2, <2>3
<1>11. Unsent'
    <2>1. ASSUME NEW q \in Process, q # p, req'[q].phase = "deliver"
          PROVE  /\ req'[q] = req[q] /\ req[q].created \subseteq Id
                 /\ \A i \in req[q].created : emitted'[i] = 0
        <3>1. req'[q] = req[q]
            BY <1>9, <2>1
        <3>2. req[q].created \subseteq Id /\ \A i \in req[q].created : emitted[i] = 0
            BY <2>1, <3>1 DEF IInv, Unsent
        <3> QED BY <1>3, <3>1, <3>2
    <2>2. \A q \in Process : req'[q].phase = "deliver" =>
              req'[q].created \subseteq Id' /\ \A i \in req'[q].created : emitted'[i] = 0
        BY <1>3, <1>4, <1>5, <2>1
    <2>3. \A q, v \in Process : req'[q].phase = "deliver" /\ req'[v].phase = "deliver" /\ q # v =>
              req'[q].created \cap req'[v].created = {}
        BY <1>3, <1>4, <1>5, <2>1 DEF IInv, Unsent
    <2> QED BY <2>2, <2>3 DEF Unsent
<1>12. EmittedOnce'
    BY <1>3 DEF IInv, EmittedOnce
<1> QED BY <1>7, <1>8, <1>10, <1>11, <1>12 DEF IInv

-----------------------------------------------------------------------------
(* Every step, and what follows.                                           *)

LEMMA InitInv == Init => IInv
<1> SUFFICES ASSUME Init PROVE IInv
    OBVIOUS
<1>1. messages = <<>> /\ emitted = <<>> /\ Id = {}
    BY DEF Init, Id
<1>2. messages \in Seq(Message) /\ emitted \in Seq(Nat) /\ Len(emitted) = Len(messages)
    BY <1>1, EmptySeq
<1>3. \A p \in Process : req[p] = Idle /\ req[p] \in Req /\ req[p].phase = "idle"
    BY DEF Init, Req, Idle
<1>4. TypeOK
    BY <1>2, <1>3 DEF TypeOK, Init
<1>5. KeysOnce /\ EmittedOnce /\ Phases /\ Unsent
    BY <1>1, <1>3 DEF KeysOnce, EmittedOnce, Phases, Unsent
<1> QED BY <1>4, <1>5 DEF IInv

LEMMA StepInv == IInv /\ [Next]_vars => IInv'
<1> SUFFICES ASSUME IInv, [Next]_vars PROVE IInv'
    OBVIOUS
<1>1. CASE UNCHANGED vars
    <2>1. TypeOK' /\ KeysOnce' /\ Unsent' /\ EmittedOnce'
        BY <1>1 DEF vars, IInv, TypeOK, KeysOnce, Unsent, EmittedOnce, Id
    <2>2. Phases'
        BY <1>1 DEF vars, IInv, Phases, Ready, Settled, Kept, Missing, Find, Stored, Documents, Id
    <2> QED BY <2>1, <2>2 DEF IInv
<1>2. ASSUME NEW c \in Convs, Expel(c) \/ \E u \in Others : ChangeMember(c, u) PROVE IInv'
    BY <1>2, ExpelInv, ChangeMemberInv
<1>3. CASE \/ \E c \in Convs : ToggleBlock(c)
           \/ \E o \in Sources : HideSource(o) \/ \E t \in Texts : EditSource(o, t)
    BY <1>3, ChangesInv
<1>4. ASSUME NEW p \in Process, NEW r \in Requests, Ask(p, r) PROVE IInv'
    BY <1>4, AskInv
<1>5. ASSUME NEW p \in Process,
             \/ Check(p) \/ Begin(p) \/ Commit(p) \/ Again(p) \/ Duplicate(p)
             \/ Deliver(p) \/ Acknowledge(p) \/ Crash(p)
      PROVE  IInv'
    BY <1>5, CheckInv, BeginInv, CommitInv, AgainInv, DuplicateInv, DeliverInv, AcknowledgeInv, CrashInv
<1> QED BY <1>1, <1>2, <1>3, <1>4, <1>5 DEF Next

LEMMA Invariant == Spec => []IInv
BY InitInv, StepInv, PTL DEF Spec

\* However often requests are repeated and wherever the server dies, a message
\* is emitted to its rooms at most once (ConversationMessageDeliveryService).
THEOREM EmittedAtMostOnce == Spec => []EmittedOnce
<1>1. IInv => EmittedOnce
    BY DEF IInv
<1> QED BY <1>1, Invariant, PTL

\* Only a commit stores a message.
LEMMA OnlyCommits ==
    ASSUME Next, messages' # messages
    PROVE  \E p \in Process : Commit(p)
BY DEF Next, Expel, ToggleBlock, ChangeMember, HideSource, EditSource, Change, Ask, Check, Begin, Load,
       Refuse, Again, Duplicate, Deliver, Acknowledge, Crash

LEMMA CountedStep ==
    ASSUME IInv, [Next]_vars, NEW i \in DOMAIN messages' \ Id
    PROVE  messages'[i].hash.conv \in inside /\ messages'[i].to = members[messages'[i].hash.conv]
<1>1. messages' # messages
    BY DEF Id
<1>2. PICK p \in Process : Commit(p)
    BY <1>1, OnlyCommits DEF vars
<1>3. PICK x : x = req[p]
    OBVIOUS
<1>4. Grown(x)
    BY <1>2, <1>3, Appended, Zenon
<1>5. PICK c \in Missing(x.of) : messages'[i] = x.new[c]
    BY <1>4 DEF Grown, Id
<1>6. Ready(x)
    BY <1>2, <1>3 DEF Commit, IInv, Phases
<1> QED BY <1>5, <1>6 DEF Ready, Right

\* A message is counted for exactly those who are members when it commits, and
\* its sender is one of them (persistPrepared writes the conversation).
THEOREM CountedWhenCommitted == Spec => CountedForMembers
<1>1. IInv /\ [Next]_vars =>
        [\A i \in DOMAIN messages' \ Id :
            LET m == messages'[i] IN m.hash.conv \in inside /\ m.to = members[m.hash.conv]]_vars
    BY CountedStep
<1> QED BY <1>1, Invariant, PTL DEF Spec, CountedForMembers

-----------------------------------------------------------------------------
(* Refinement: each step is a step of the promise or a stutter.            *)

LEMMA StoredRight ==
    ASSUME NEW r, NEW c, NEW i, Right(r, c, messages[i])
    PROVE  StoredAs(i) = [key |-> Key(r, c), what |-> <<c, r.what>>, id |-> i]
BY DEF Right, Says, StoredAs

LEMMA WriteRefines ==
    ASSUME IInv, IInv', NEW p \in Process, Commit(p)
    PROVE  \E r \in Requests : Promise!Write(r)
<1> PICK x : x = req[p]
    OBVIOUS
<1> PICK r \in Requests : r = x.of
    BY Stays DEF Commit, Idle
<1> DEFINE New == {StoredAs(i)' : i \in Created}
<1>1. Grown(x) /\ Ready(x)
    BY Appended, Zenon DEF Commit, IInv, Phases
<1>2. \A i \in Id : StoredAs(i)' = StoredAs(i)
    BY <1>1 DEF Grown, StoredAs
<1>3. writtenBar' = writtenBar \cup New
    BY <1>1, <1>2 DEF writtenBar, Grown
<1>4. \A i \in Id, j \in Created : StoredAs(i) # StoredAs(j)'
    BY <1>1 DEF Grown, StoredAs
<1>5. writtenBar' \ writtenBar = New /\ New # {}
    <2>1. PICK j \in Created : TRUE
        BY <1>1 DEF Grown
    <2>2. StoredAs(j)' \in New
        BY <2>1
    <2>3. \A w \in New : w \notin writtenBar
        BY <1>4 DEF writtenBar
    <2> HIDE DEF New
    <2> QED BY <1>3, <2>2, <2>3
<1>6. ASSUME NEW i \in Created
      PROVE  \E c \in Missing(r) : StoredAs(i)' = [key |-> Key(r, c), what |-> <<c, r.what>>, id |-> i]
    <2>1. PICK c \in Missing(r) : messages'[i] = x.new[c]
        BY <1>1 DEF Grown
    <2>2. Right(r, c, messages'[i])
        BY <1>1, <2>1 DEF Ready
    <2> QED BY <2>2 DEF Right, Says, StoredAs
<1>7. ASSUME NEW c \in Missing(r)
      PROVE  \E i \in Created : StoredAs(i)' = [key |-> Key(r, c), what |-> <<c, r.what>>, id |-> i]
    <2>1. PICK i \in Created : messages'[i] = x.new[c]
        BY <1>1 DEF Grown
    <2>2. Right(r, c, messages'[i])
        BY <1>1, <2>1 DEF Ready
    <2> QED BY <2>2 DEF Right, Says, StoredAs
<1>8. \A c \in r.convs : Key(r, c) \in Promise!Keys(writtenBar) <=> c \notin Missing(r)
    <2>1. \A i \in Id : StoredAs(i).key = messages[i].key
        BY DEF StoredAs
    <2>2. \A k : k \in Promise!Keys(writtenBar) <=> \E i \in Id : messages[i].key = k
        BY <2>1 DEF Promise!Keys, writtenBar
    <2>3. \A c \in r.convs : c \notin Missing(r) <=> \E i \in Id : messages[i].key = Key(r, c)
        BY DEF Missing, Find
    <2> QED BY <2>2, <2>3
<1>9. Promise!Asked(New) = {[key |-> Key(r, c), what |-> <<c, r.what>>] : c \in Missing(r)}
    BY <1>6, <1>7 DEF Promise!Asked
<1>10. {d \in Demanded(r) : d.key \notin Promise!Keys(writtenBar)}
            = {[key |-> Key(r, c), what |-> <<c, r.what>>] : c \in Missing(r)}
    BY <1>8 DEF Demanded, Missing
<1>11. \A v, w \in writtenBar' : v.key = w.key \/ v.id = w.id => v = w
    BY DEF IInv, KeysOnce, writtenBar, StoredAs
<1>12. toldBar' = toldBar
    BY DEF Commit, toldBar
<1>13. writtenBar \subseteq writtenBar' /\ writtenBar # writtenBar'
    BY <1>3, <1>5
<1>14. Promise!Asked(writtenBar' \ writtenBar) = {d \in Demanded(r) : d.key \notin Promise!Keys(writtenBar)}
    <2> HIDE DEF New
    <2> QED BY <1>5, <1>9, <1>10
<1>15. Promise!Write(r)
    BY <1>11, <1>12, <1>13, <1>14 DEF Promise!Write
<1> QED BY <1>15

LEMMA TellRefines ==
    ASSUME IInv, NEW p \in Process, Acknowledge(p)
    PROVE  \E r \in Requests : Promise!Tell(r)
<1> PICK r \in Requests : r = req[p].of
    BY Stays DEF Acknowledge, Idle
<1>1. Missing(r) = {} /\ Kept(r) /\ req[p].ids = Stored(r)
    BY DEF Acknowledge, IInv, Phases, Settled
<1>2. Demanded(r) \subseteq Promise!Asked(writtenBar)
    <2> SUFFICES ASSUME NEW c \in r.convs
                 PROVE  [key |-> Key(r, c), what |-> <<c, r.what>>] \in Promise!Asked(writtenBar)
        BY DEF Demanded
    <2>1. PICK i \in Id : i \in Find(Key(r, c))
        BY <1>1 DEF Missing, Find
    <2>2. StoredAs(i) = [key |-> Key(r, c), what |-> <<c, r.what>>, id |-> i]
        BY <1>1, <2>1, StoredRight DEF Kept
    <2>3. StoredAs(i) \in writtenBar
        BY DEF writtenBar
    <2> QED BY <2>2, <2>3 DEF Promise!Asked
<1>3. {w.id : w \in {w \in writtenBar : w.key \in Promise!Keys(Demanded(r))}} = Stored(r)
    <2>1. \A i \in Id : StoredAs(i).id = i /\ StoredAs(i).key = messages[i].key
        BY DEF StoredAs
    <2>2. \A k : k \in Promise!Keys(Demanded(r)) <=> \E c \in r.convs : k = Key(r, c)
        <3>1. \A c : [key |-> Key(r, c), what |-> <<c, r.what>>].key = Key(r, c)
            OBVIOUS
        <3> QED BY <3>1, Zenon DEF Promise!Keys, Demanded
    <2>3. \A i : i \in Stored(r) <=> i \in Id /\ \E c \in r.convs : messages[i].key = Key(r, c)
        BY DEF Stored, Find
    <2>4. \A i : (\E w \in writtenBar : w.key \in Promise!Keys(Demanded(r)) /\ i = w.id)
                    <=> i \in Id /\ messages[i].key \in Promise!Keys(Demanded(r))
        BY <2>1 DEF writtenBar
    <2> QED BY <2>2, <2>3, <2>4
<1>4. toldBar' = toldBar \cup {[to |-> r, ids |-> Stored(r)]}
    <2>1. answers' = answers \cup {[to |-> r, ok |-> TRUE, ids |-> Stored(r), why |-> "ok"]}
        BY <1>1 DEF Acknowledge
    <2> DEFINE a == [to |-> r, ok |-> TRUE, ids |-> Stored(r), why |-> "ok"]
    <2>2. a.ok /\ [to |-> a.to, ids |-> a.ids] = [to |-> r, ids |-> Stored(r)]
        OBVIOUS
    <2>3. answers' = answers \cup {a}
        BY <2>1
    <2> HIDE DEF a
    <2>4. {b \in answers' : b.ok} = {b \in answers : b.ok} \cup {a}
        BY <2>2, <2>3
    <2>5. toldBar' = toldBar \cup {[to |-> a.to, ids |-> a.ids]}
        BY <2>4 DEF toldBar
    <2> QED BY <2>2, <2>5
<1>5. writtenBar' = writtenBar
    BY DEF Acknowledge, writtenBar, StoredAs, Id
<1>6. Promise!Tell(r)
    BY <1>2, <1>3, <1>4, <1>5 DEF Promise!Tell
<1> QED BY <1>6

\* Whatever neither stores nor acknowledges changes neither side of the promise.
LEMMA OthersStutter ==
    ASSUME [Next]_vars, ~\E p \in Process : Commit(p) \/ Acknowledge(p)
    PROVE  UNCHANGED <<writtenBar, toldBar>>
<1>1. messages' = messages
    BY OnlyCommits DEF vars
<1>2. answers' = answers \/ \E p \in Process, why \in {"conflict", "denied", "error"} : Refuse(p, why)
    BY DEF vars, Next, Expel, ToggleBlock, ChangeMember, HideSource, EditSource, Change, Ask, Check, Begin, Load,
           Again, Duplicate, Deliver, Crash
<1>3. toldBar' = toldBar
    <2>1. CASE answers' = answers
        BY <2>1 DEF toldBar
    <2>2. ASSUME NEW p \in Process, NEW why, Refuse(p, why) PROVE toldBar' = toldBar
        <3>1. answers' = answers \cup {[to |-> req[p].of, ok |-> FALSE, ids |-> {}, why |-> why]}
            BY <2>2 DEF Refuse
        <3>2. {a \in answers' : a.ok} = {a \in answers : a.ok}
            BY <3>1
        <3> QED BY <3>2 DEF toldBar
    <2> QED BY <1>2, <2>1, <2>2
<1>4. writtenBar' = writtenBar
    BY <1>1 DEF writtenBar, StoredAs, Id
<1> QED BY <1>3, <1>4

\* Through repeats, overlaps and crashes, what a request asks for is stored once,
\* whole, and its answers name it (ConversationMessageCommandService).
THEOREM KeysKeepTheirPromise == Spec => WritesOnce
<1>1. Init => Promise!Init
    BY DEF Init, Promise!Init, writtenBar, toldBar, Id
<1>2. IInv /\ IInv' /\ [Next]_vars => [Promise!Next]_(<<writtenBar, toldBar>>)
    BY WriteRefines, TellRefines, OthersStutter DEF Promise!Next
<1> QED BY <1>1, <1>2, Invariant, PTL DEF Spec, WritesOnce, Promise!Spec

=============================================================================
