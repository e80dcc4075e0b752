----------------------------- MODULE ThreadsProofs -----------------------------
(***************************************************************************)
(* Proofs about Threads.  What the list of conversations shows is a copy,  *)
(* and an open revocation or deletion holds the copies it is going to      *)
(* write: the invariant says of these what it says of the copies that are  *)
(* stored.  They stay true while the transaction is open, because whatever *)
(* would make them stale writes the conversation and spoils it.  What does *)
(* not is a revocation whose message no stored copy shows: of it the       *)
(* invariant says so, and where a transaction then shows the message after *)
(* all, the message counts as raced.                                       *)
(***************************************************************************)
EXTENDS Threads, SequenceTheorems, WellFoundedInduction, TLAPS

Shown == [of: Nat, text: BOOLEAN]
Overrides == UNION {[D -> Shown] : D \in SUBSET Users}
Message == [by: Users \cup {System}, status: {"sent", "revoked"}, text: BOOLEAN,
            reactions: SUBSET Users, deleted: SUBSET Users]
Revocation == [kind: {"revoke"}, m: Nat, docs: SUBSET Nat, preview: Shown, own: Overrides]
Deletion == [kind: {"delete"}, m: Nat, by: Users, through: Nat, docs: SUBSET Nat,
             preview: Shown, own: Overrides]

TypeOK ==
    /\ msg \in Seq(Message) /\ preview \in Shown /\ own \in Overrides
    /\ cutoff \in [Users -> Nat] /\ \A u \in Users : cutoff[u] <= Len(msg)
    /\ members \subseteq Users /\ edited \subseteq Id /\ raced \subseteq Id
    /\ tx \in [Process -> {Idle} \cup Revocation \cup Deletion]
    /\ \A p \in Process : tx[p] # Idle => tx[p].m \in Id

\* What u is shown by a preview and its overrides.
Shows(shared, personal, u) == IF u \in DOMAIN personal THEN personal[u] ELSE shared

Prepared(t) == t # Idle /\ Conversation \in t.docs

\* Message i is sent, and t is not about to revoke it.
Stays(t, i) == i \in Id /\ msg[i].status = "sent" /\ (t.kind = "revoke" => i # t.m)

\* Message i is one that u may see, and t is not about to take it from u.
StaysFor(t, u, i) ==
    /\ Stays(t, i) /\ i > cutoff[u] /\ u \notin msg[i].deleted
    /\ t.kind = "delete" /\ u = t.by => i # t.m

\* Nothing later than these copies is to be seen once t is done.
Covers(t, shared, personal) ==
    /\ \A i \in Id : Stays(t, i) => shared.of >= i
    /\ \A u \in DOMAIN personal : \A i \in Id : StaysFor(t, u, i) => personal[u].of >= i

Covered == Covers(Idle, preview, own)

\* A copy that has a content is one of a message still sent.
Sent(t, shown) == shown.text => Stays(t, shown.of) \/ shown.of \in raced

\* What u is shown of is neither deleted nor cleared, or a later one is revoked.
Fits(t, u, shown) ==
    shown.of # 0 /\ shown.text =>
        \/ /\ shown.of > cutoff[u] /\ u \notin msg[shown.of].deleted
           /\ t.kind = "delete" /\ u = t.by => shown.of # t.m
        \/ \E j \in Id : j > shown.of /\ (msg[j].status = "revoked" \/ (t.kind = "revoke" /\ j = t.m))

\* t is a deletion of u's that goes by a cut-off from before a clearing.
Misled(t, u) == t.kind = "delete" /\ u = t.by /\ t.through # cutoff[u]

Truthful(t, shared, personal) ==
    \A u \in Users :
        /\ Sent(t, Shows(shared, personal, u))
        /\ u \in stale \/ Misled(t, u) \/ Fits(t, u, Shows(shared, personal, u))

\* No copy has the content of the message that t revokes.
Unshown(t) ==
    \A u \in Users : LET shown == Shows(preview, own, u) IN
        shown.text => shown.of # t.m \/ t.m \in raced

\* What an open revocation or deletion holds.
ReadyTx(t) ==
    t # Idle =>
        /\ t.kind = "delete" => t.through <= cutoff[t.by]
        /\ t.docs # {} => t.m \in t.docs
        /\ t.kind = "delete" /\ t.docs # {} => Prepared(t) /\ t.by \in DOMAIN t.own
        /\ Prepared(t) => Covers(t, t.preview, t.own)

Ready == \A p \in Process : ReadyTx(tx[p])

\* What it writes is true once it is done; one that leaves the conversation
\* alone has no need to write it.
CalmTx(t) ==
    t # Idle =>
        /\ Prepared(t) => Truthful(t, t.preview, t.own)
        /\ t.kind = "revoke" /\ ~Prepared(t) => Unshown(t)

Calm == Truthful(Idle, preview, own) /\ \A p \in Process : CalmTx(tx[p])

Revoked == \A i \in Id : msg[i].status = "revoked" => msg[i].reactions = {} /\ (msg[i].text => i \in edited)

IInv == TypeOK /\ Covered /\ Ready /\ Calm /\ Revoked

-----------------------------------------------------------------------------
(* The latest of some messages.                                            *)

LEMMA Least ==
    ASSUME NEW S \in SUBSET Nat, S # {}
    PROVE  \E x \in S : \A y \in S : x <= y
<1> DEFINE R == OpToRel(<, Nat)
<1>1. IsWellFoundedOn(R, Nat)
    BY NatLessThanWellFounded
<1>2. R = {ss \in Nat \X Nat : ss[1] < ss[2]}
    BY DEF OpToRel
<1> HIDE DEF R
<1>3. PICK x \in S : \A y \in S : ~(<<y, x>> \in R)
    BY <1>1, WFMin
<1>4. ASSUME NEW y \in S PROVE x <= y
    <2>1. ~(<<y, x>> \in R) /\ x \in Nat /\ y \in Nat
        BY <1>3
    <2>2. y < x => <<y, x>> \in R
        BY <1>2, <2>1
    <2> QED BY <2>1, <2>2
<1> QED BY <1>4

LEMMA Greatest ==
    ASSUME NEW S \in SUBSET Nat, S # {}, NEW n \in Nat, \A x \in S : x <= n
    PROVE  Max(S) \in S /\ \A x \in S : x <= Max(S)
<1> DEFINE B == {b \in Nat : \A x \in S : x <= b}
<1>1. PICK m \in B : \A b \in B : m <= b
    BY Least
<1>2. m \in S
    <2> SUFFICES ASSUME m \notin S PROVE FALSE
        OBVIOUS
    <2>1. \A x \in S : x <= m /\ x # m /\ x \in Nat
        OBVIOUS
    <2>2. m \in Nat /\ m # 0
        <3>1. PICK x \in S : TRUE
            OBVIOUS
        <3> QED BY <2>1, <3>1
    <2>3. m - 1 \in B
        BY <2>1, <2>2
    <2> HIDE DEF B
    <2> QED BY <1>1, <2>2, <2>3
<1> QED BY <1>1, <1>2 DEF Max

LEMMA LatestIs ==
    ASSUME TypeOK, NEW S \in SUBSET Id
    PROVE  /\ Latest(S) \in Nat /\ \A i \in S : Latest(S) >= i
           /\ S # {} => Latest(S) \in S
           /\ S = {} => Latest(S) = 0
<1>1. Id = 1..Len(msg) /\ Len(msg) \in Nat
    BY LenProperties DEF TypeOK, Id
<1>2. CASE S = {}
    BY <1>2 DEF Latest
<1>3. CASE S # {}
    <2>1. S \in SUBSET Nat /\ \A x \in S : x <= Len(msg)
        BY <1>1
    <2>2. Max(S) \in S /\ \A x \in S : x <= Max(S)
        BY <1>1, <1>3, <2>1, Greatest
    <2>3. Latest(S) = Max(S)
        BY <1>3 DEF Latest
    <2> QED BY <1>3, <2>1, <2>2, <2>3
<1> QED BY <1>2, <1>3

-----------------------------------------------------------------------------
(* What processes are doing.                                               *)

LEMMA MessagesAre ==
    ASSUME TypeOK
    PROVE  /\ Id = 1..Len(msg) /\ Len(msg) \in Nat /\ Id \subseteq Nat
           /\ \A i \in Id : msg[i] \in Message /\ i >= 1
BY LenProperties, ElementOfSeq DEF TypeOK, Id

LEMMA Kinds ==
    ASSUME TypeOK, NEW p \in Process
    PROVE  /\ tx[p] = Idle \/ tx[p] \in Revocation \/ tx[p] \in Deletion
           /\ tx[p] = Idle <=> tx[p].kind = "idle"
           /\ tx[p] \in Revocation <=> tx[p].kind = "revoke"
           /\ tx[p] \in Deletion <=> tx[p].kind = "delete"
BY DEF TypeOK, Idle, Revocation, Deletion

\* After a write of docs, process p does what it did or begins again.
Loosed(p, docs) ==
    \/ tx'[p] = tx[p] /\ (tx[p] # Idle => tx[p].docs \cap docs = {})
    \/ tx'[p] = Idle
    \/ /\ tx[p] \in Deletion /\ tx'[p] \in Deletion /\ tx'[p].docs = {}
       /\ tx'[p].m = tx[p].m /\ tx'[p].by = tx[p].by /\ tx'[p].through = tx[p].through

LEMMA SpoilLooses ==
    ASSUME TypeOK, NEW docs, NEW p \in Process, tx'[p] = Spoil(docs)[p]
    PROVE  Loosed(p, docs)
<1>1. CASE tx[p] # Idle /\ tx[p].docs \cap docs # {}
    <2>1. tx'[p] = Begun(tx[p])
        BY <1>1 DEF Spoil
    <2>2. CASE tx[p] \in Revocation
        BY <2>1, <2>2, Kinds DEF Begun, Loosed, Revocation
    <2>3. CASE tx[p] \in Deletion
        BY <2>1, <2>3 DEF Begun, Loosed, Deletion
    <2> QED BY <1>1, <2>2, <2>3, Kinds
<1>2. CASE ~(tx[p] # Idle /\ tx[p].docs \cap docs # {})
    BY <1>2 DEF Spoil, Loosed
<1> QED BY <1>1, <1>2

LEMMA TxTyped ==
    ASSUME TypeOK, NEW docs, \/ tx' = Spoil(docs)
                             \/ \E p \in Process : tx' = [Spoil(docs) EXCEPT ![p] = Idle],
           Id \subseteq Id'
    PROVE  /\ tx' \in [Process -> {Idle} \cup Revocation \cup Deletion]
           /\ \A p \in Process : tx'[p] # Idle => tx'[p].m \in Id'
<1>1. ASSUME NEW p \in Process
      PROVE  tx'[p] \in {Idle} \cup Revocation \cup Deletion /\ (tx'[p] # Idle => tx'[p].m \in Id')
    <2>1. Loosed(p, docs)
        <3>1. CASE tx'[p] = Spoil(docs)[p]
            BY <3>1, SpoilLooses
        <3>2. CASE tx'[p] = Idle
            BY <3>2 DEF Loosed
        <3> QED BY <3>1, <3>2 DEF Spoil
    <2>2. tx[p] \in Deletion => tx[p] # Idle
        BY Kinds DEF Deletion, Idle
    <2> QED BY <2>1, <2>2 DEF Loosed, TypeOK
<1>2. tx' = [p \in Process |-> tx'[p]]
    BY DEF Spoil
<1> QED BY <1>1, <1>2

-----------------------------------------------------------------------------
(* What the copies are good for stays so.                                  *)

\* No message is added or seen again.
Mild ==
    /\ Id' = Id /\ \A u \in Users : cutoff[u] <= cutoff'[u]
    /\ \A i \in Id : (msg'[i].status = "sent" => msg[i].status = "sent") /\ msg[i].deleted \subseteq msg'[i].deleted

\* Nothing changes of who may see what.
Framed ==
    /\ Id' = Id /\ cutoff' = cutoff
    /\ \A i \in Id : msg'[i].status = msg[i].status /\ msg'[i].deleted = msg[i].deleted

LEMMA FramedIsMild == ASSUME TypeOK, Framed PROVE Mild
BY DEF Framed, Mild, TypeOK

LEMMA CoversKept ==
    ASSUME TypeOK, TypeOK', Mild, NEW t, NEW shared, NEW personal \in Overrides, Covers(t, shared, personal)
    PROVE  Covers(t, shared, personal)'
<1>1. DOMAIN personal \subseteq Users
    BY DEF Overrides
<1>2. \A i \in Id : Stays(t, i)' => Stays(t, i)
    BY DEF Mild, Stays
<1>3. \A u \in Users, i \in Id : StaysFor(t, u, i)' => StaysFor(t, u, i)
    <2> SUFFICES ASSUME NEW u \in Users, NEW i \in Id, StaysFor(t, u, i)' PROVE StaysFor(t, u, i)
        OBVIOUS
    <2>1. i \in Nat /\ cutoff[u] \in Nat /\ cutoff'[u] \in Nat
        BY MessagesAre DEF TypeOK
    <2> QED BY <1>2, <2>1 DEF StaysFor, Mild
<1> QED BY <1>1, <1>2, <1>3 DEF Covers, Mild

LEMMA TruthKept ==
    ASSUME TypeOK, Framed, stale' = stale, raced' = raced, NEW t, NEW shared, NEW personal,
           Truthful(t, shared, personal)
    PROVE  Truthful(t, shared, personal)'
<1> SUFFICES ASSUME NEW u \in Users
             PROVE  /\ Sent(t, Shows(shared, personal, u))'
                    /\ (u \in stale \/ Misled(t, u) \/ Fits(t, u, Shows(shared, personal, u)))'
    BY DEF Truthful
<1> PICK shown : shown = Shows(shared, personal, u)
    OBVIOUS
<1>1. shown = Shows(shared, personal, u)'
    BY DEF Shows
<1>2. Sent(t, shown) /\ (u \in stale \/ Misled(t, u) \/ Fits(t, u, shown))
    BY DEF Truthful
<1>3. Sent(t, shown)'
    BY <1>2 DEF Sent, Stays, Framed
<1>4. Fits(t, u, shown) => Fits(t, u, shown)'
    <2>1. shown.text => shown.of \in Id
        BY <1>2 DEF Sent, Stays, TypeOK
    <2> QED BY <2>1 DEF Fits, Framed
<1>5. Misled(t, u)' <=> Misled(t, u)
    BY DEF Misled, Framed
<1> QED BY <1>1, <1>2, <1>3, <1>4, <1>5

LEMMA ReadyKept ==
    ASSUME TypeOK, TypeOK', Mild, NEW t, t = Idle \/ t \in Revocation \/ t \in Deletion, ReadyTx(t)
    PROVE  ReadyTx(t)'
<1> SUFFICES ASSUME t # Idle PROVE ReadyTx(t)'
    BY DEF ReadyTx
<1>1. t.own \in Overrides
    BY DEF Revocation, Deletion
<1>2. Prepared(t)' <=> Prepared(t)
    BY DEF Prepared
<1>3. Prepared(t) => Covers(t, t.preview, t.own)'
    BY <1>1, CoversKept DEF ReadyTx
<1>4. t.kind = "delete" => t.through <= cutoff'[t.by]
    <2> SUFFICES ASSUME t.kind = "delete" PROVE t.through <= cutoff'[t.by]
        OBVIOUS
    <2>1. t.by \in Users /\ t.through \in Nat
        BY DEF Revocation, Deletion
    <2>2. cutoff[t.by] \in Nat /\ cutoff'[t.by] \in Nat /\ cutoff[t.by] <= cutoff'[t.by]
        BY <2>1 DEF Mild, TypeOK
    <2> QED BY <2>1, <2>2 DEF ReadyTx
<1> QED BY <1>2, <1>3, <1>4 DEF ReadyTx

\* Whoever writes the conversation spoils what is prepared.
LEMMA ReadyLoosed ==
    ASSUME TypeOK, TypeOK', Ready, NEW docs, Mild \/ Conversation \in docs,
           \A u \in Users : cutoff[u] <= cutoff'[u], NEW p \in Process, Loosed(p, docs), NEW t, t = tx'[p]
    PROVE  ReadyTx(t)'
<1>1. CASE tx'[p] = Idle
    BY <1>1 DEF ReadyTx, Idle
<1>2. CASE tx'[p] = tx[p] /\ tx[p] # Idle /\ tx[p].docs \cap docs = {}
    <2>1. t = tx[p]
        BY <1>2
    <2>2. ReadyTx(t)
        BY <2>1 DEF Ready
    <2>3. CASE Mild
        BY <2>1, <2>2, <2>3, Kinds, ReadyKept
    <2>4. CASE Conversation \in docs
        <3>1. ~Prepared(t) /\ ~Prepared(t)'
            BY <1>2, <2>1, <2>4 DEF Prepared
        <3>2. t.kind = "delete" => t.docs = {} /\ t.by \in Users /\ t.through \in Nat
            BY <2>1, <2>2, <3>1, Kinds, <1>2 DEF ReadyTx, Deletion
        <3>3. t.kind = "delete" => t.through <= cutoff'[t.by]
            BY <2>1, <2>2, <3>2, <1>2 DEF ReadyTx, TypeOK
        <3> QED BY <2>2, <3>1, <3>2, <3>3, <2>1 DEF ReadyTx
    <2> QED BY <2>3, <2>4
<1>3. CASE /\ tx[p] \in Deletion /\ tx'[p] \in Deletion /\ tx'[p].docs = {}
           /\ tx'[p].m = tx[p].m /\ tx'[p].by = tx[p].by /\ tx'[p].through = tx[p].through
    <2>1. t = tx'[p]
        OBVIOUS
    <2>2. t.by \in Users /\ t.through \in Nat /\ ~Prepared(t)'
        BY <1>3, <2>1 DEF Deletion, Prepared
    <2>3. t.through <= cutoff[t.by]
        BY <1>3, <2>1, Kinds DEF Ready, ReadyTx, Deletion, Idle
    <2>4. t.through <= cutoff'[t.by]
        BY <2>2, <2>3 DEF TypeOK
    <2> QED BY <1>3, <2>1, <2>2, <2>4 DEF ReadyTx
<1> QED BY <1>1, <1>2, <1>3 DEF Loosed

\* What the copies are may stay as well.
LEMMA CalmKept ==
    ASSUME TypeOK, Framed, UNCHANGED <<preview, own, stale, raced>>, NEW t, CalmTx(t)
    PROVE  CalmTx(t)'
<1>1. Prepared(t)' <=> Prepared(t)
    BY DEF Prepared
<1>2. Truthful(t, t.preview, t.own) => Truthful(t, t.preview, t.own)'
    BY TruthKept
<1>3. Unshown(t) => Unshown(t)'
    BY DEF Unshown, Shows
<1> QED BY <1>1, <1>2, <1>3 DEF CalmTx

LEMMA CalmLoosed ==
    ASSUME TypeOK, NEW docs, NEW p \in Process, Loosed(p, docs), NEW t, t = tx'[p],
           t = tx[p] /\ t # Idle /\ t.docs \cap docs = {} => CalmTx(t)'
    PROVE  CalmTx(t)'
<1>1. CASE tx'[p] = Idle
    BY <1>1 DEF CalmTx, Idle
<1>2. CASE tx'[p] = tx[p] /\ tx[p] # Idle /\ tx[p].docs \cap docs = {}
    BY <1>2
<1>3. CASE tx'[p] \in Deletion /\ tx'[p].docs = {}
    <2>1. t.kind = "delete" /\ ~Prepared(t)'
        BY <1>3 DEF Deletion, Prepared
    <2> QED BY <2>1 DEF CalmTx
<1> QED BY <1>1, <1>2, <1>3 DEF Loosed

\* A revocation that leaves the conversation alone, when it is written.
LEMMA UnshownLoosed ==
    ASSUME TypeOK, Calm, NEW p \in Process, NEW t, t = tx[p], t # Idle, t.docs \cap {Conversation} = {},
           raced \subseteq raced',
           \A u \in Users : LET shown == Shows(preview', own', u) IN
                shown.text => shown = Shows(preview, own, u) \/ shown.of # t.m
    PROVE  CalmTx(t)'
<1>1. ~Prepared(t)' /\ ~Prepared(t)
    BY DEF Prepared
<1>2. ASSUME t.kind = "revoke" PROVE Unshown(t)'
    <2>1. Unshown(t)
        BY <1>1, <1>2 DEF Calm, CalmTx
    <2>2. \A u \in Users : Shows(preview, own, u)' = Shows(preview', own', u)
        BY DEF Shows
    <2> QED BY <2>1, <2>2 DEF Unshown
<1> QED BY <1>1, <1>2 DEF CalmTx

-----------------------------------------------------------------------------
(* The invariant, step by step.                                            *)

LEMMA NoneTyped == NoOverrides \in Overrides /\ DOMAIN NoOverrides = {}
<1>1. NoOverrides \in [{} -> Shown]
    BY DEF NoOverrides
<1> QED BY <1>1 DEF NoOverrides, Overrides

LEMMA InitInv == Init => IInv
<1> SUFFICES ASSUME Init PROVE IInv
    OBVIOUS
<1>1. msg \in Seq(Message) /\ Len(msg) = 0 /\ Id = {}
    BY EmptySeq DEF Init, Id
<1>2. TypeOK
    <2>1. preview \in Shown /\ own \in Overrides
        BY NoneTyped DEF Init, Nothing, Shown
    <2>2. cutoff \in [Users -> Nat] /\ \A u \in Users : cutoff[u] <= Len(msg)
        BY <1>1 DEF Init
    <2>3. tx \in [Process -> {Idle} \cup Revocation \cup Deletion] /\ \A p \in Process : tx[p] = Idle
        BY DEF Init
    <2>4. members \subseteq Users /\ edited \subseteq Id /\ raced \subseteq Id
        BY DEF Init
    <2> QED BY <1>1, <2>1, <2>2, <2>3, <2>4 DEF TypeOK
<1>3. Covered /\ Revoked
    BY <1>1, NoneTyped DEF Init, Covered, Covers, Revoked
<1>4. Ready
    BY DEF Init, Ready, ReadyTx
<1>5. Truthful(Idle, preview, own)
    <2>1. \A u \in Users : Shows(preview, own, u) = Nothing /\ ~Nothing.text
        BY NoneTyped DEF Init, Shows, Nothing
    <2> QED BY <2>1 DEF Truthful, Sent, Fits
<1>6. Calm
    BY <1>5 DEF Init, Calm, CalmTx
<1> QED BY <1>2, <1>3, <1>4, <1>6 DEF IInv

LEMMA Added ==
    ASSUME TypeOK, NEW by \in Users \cup {System}, Add(by), NEW n, n = Len(msg) + 1
    PROVE  /\ msg' \in Seq(Message) /\ Len(msg') = n /\ n \in Nat /\ n # 0 /\ Id' = Id \cup {n} /\ n \notin Id
           /\ \A i \in Id : msg'[i] = msg[i] /\ i <= n
           /\ msg'[n] = [by |-> by, status |-> "sent", text |-> TRUE, reactions |-> {}, deleted |-> {}]
           /\ preview' = [of |-> n, text |-> TRUE]
<1> DEFINE new == [by |-> by, status |-> "sent", text |-> TRUE, reactions |-> {}, deleted |-> {}]
<1>1. new \in Message
    BY DEF Message
<1>2. msg' = Append(msg, new) /\ preview' = [of |-> n, text |-> TRUE]
    BY DEF Add
<1> HIDE DEF new
<1>3. /\ msg' \in Seq(Message) /\ Len(msg') = n
      /\ \A i \in 1..Len(msg) : msg'[i] = msg[i]
      /\ msg'[n] = new
    BY <1>1, <1>2, AppendProperties DEF TypeOK
<1>4. DOMAIN msg' = 1..n
    BY <1>3, LenProperties
<1> QED BY <1>2, <1>3, <1>4, MessagesAre DEF Id, new

LEMMA AddInv ==
    ASSUME IInv, NEW by \in Users \cup {System}, Add(by), own' = NoOverrides,
           UNCHANGED <<cutoff, edited, raced>>, members' \subseteq Users
    PROVE  IInv'
<1> PICK n : n = Len(msg) + 1
    OBVIOUS
<1>1. /\ msg' \in Seq(Message) /\ Len(msg') = n /\ n \in Nat /\ n # 0 /\ Id' = Id \cup {n} /\ n \notin Id
      /\ \A i \in Id : msg'[i] = msg[i] /\ i <= n
      /\ msg'[n] = [by |-> by, status |-> "sent", text |-> TRUE, reactions |-> {}, deleted |-> {}]
      /\ preview' = [of |-> n, text |-> TRUE]
    BY Added DEF IInv
<1>2. tx' = Spoil({Conversation}) /\ \A p \in Process : Loosed(p, {Conversation})
    BY SpoilLooses DEF Add, IInv
<1>3. TypeOK'
    <2>1. own' \in Overrides /\ preview' \in Shown
        BY <1>1, NoneTyped DEF Shown
    <2>2. cutoff' \in [Users -> Nat] /\ \A u \in Users : cutoff'[u] <= Len(msg')
        BY <1>1, MessagesAre DEF IInv, TypeOK
    <2>3. edited' \subseteq Id' /\ raced' \subseteq Id'
        BY <1>1 DEF IInv, TypeOK
    <2>4. /\ tx' \in [Process -> {Idle} \cup Revocation \cup Deletion]
          /\ \A p \in Process : tx'[p] # Idle => tx'[p].m \in Id'
        BY <1>1, <1>2, TxTyped DEF IInv
    <2> QED BY <1>1, <2>1, <2>2, <2>3, <2>4 DEF TypeOK
<1>4. Covered'
    BY <1>1, NoneTyped DEF Covered, Covers
<1>5. Ready'
    <2>1. \A u \in Users : cutoff[u] <= cutoff'[u]
        BY DEF IInv, TypeOK
    <2> SUFFICES ASSUME NEW p \in Process, NEW t, t = tx'[p] PROVE ReadyTx(t)'
        BY DEF Ready
    <2> QED BY <1>2, <1>3, <2>1, ReadyLoosed DEF IInv
<1>6. Truthful(Idle, preview, own)'
    <2> SUFFICES ASSUME NEW u \in Users
                 PROVE  Sent(Idle, Shows(preview, own, u))' /\ Fits(Idle, u, Shows(preview, own, u))'
        BY DEF Truthful
    <2>1. Shows(preview, own, u)' = [of |-> n, text |-> TRUE]
        BY <1>1, NoneTyped DEF Shows
    <2>2. cutoff'[u] < n
        BY <1>1, MessagesAre DEF IInv, TypeOK
    <2> QED BY <1>1, <2>1, <2>2 DEF Sent, Stays, Fits, Idle
<1>7. Calm'
    <2> SUFFICES ASSUME NEW p \in Process, NEW t, t = tx'[p] PROVE CalmTx(t)'
        BY <1>6 DEF Calm
    <2>1. \A u \in Users : Shows(preview', own', u).of \notin Id
        BY <1>1, NoneTyped DEF Shows
    <2>2. t = tx[p] /\ t # Idle /\ t.docs \cap {Conversation} = {} => CalmTx(t)'
        <3>1. t = tx[p] /\ t # Idle => t.m \in Id
            BY DEF IInv, TypeOK
        <3> QED BY <2>1, <3>1, UnshownLoosed DEF IInv
    <2> QED BY <1>2, <2>2, CalmLoosed DEF IInv
<1>8. Revoked'
    BY <1>1 DEF IInv, Revoked
<1> QED BY <1>3, <1>4, <1>5, <1>7, <1>8 DEF IInv

LEMMA ClearInv == ASSUME IInv, NEW u \in Users, Clear(u) PROVE IInv'
<1>1. Id' = Id /\ msg' = msg /\ preview' = preview
    BY DEF Clear, Id
<1>2. /\ cutoff' = [cutoff EXCEPT ![u] = Len(msg)]
      /\ own' = [v \in DOMAIN own \cup {u} |-> IF v = u THEN Nothing ELSE own[v]]
      /\ tx' = Spoil({Conversation}) /\ raced' = raced /\ stale' = stale \ {u}
    BY DEF Clear
<1>3. \A p \in Process : Loosed(p, {Conversation})
    BY <1>2, SpoilLooses DEF IInv
<1>4. TypeOK'
    <2>1. PICK D \in SUBSET Users : own \in [D -> Shown]
        BY DEF IInv, TypeOK, Overrides
    <2>2. own' \in [D \cup {u} -> Shown]
        BY <1>2, <2>1 DEF Nothing, Shown
    <2>3. own' \in Overrides
        BY <2>2 DEF Overrides
    <2>4. cutoff' \in [Users -> Nat] /\ \A v \in Users : cutoff'[v] <= Len(msg')
        BY <1>1, <1>2, MessagesAre DEF IInv, TypeOK
    <2>5. /\ tx' \in [Process -> {Idle} \cup Revocation \cup Deletion]
          /\ \A p \in Process : tx'[p] # Idle => tx'[p].m \in Id'
        BY <1>1, <1>2, TxTyped DEF IInv
    <2> QED BY <1>1, <1>2, <2>3, <2>4, <2>5 DEF TypeOK, IInv, Clear
<1>5. Mild /\ \A v \in Users : cutoff[v] <= cutoff'[v]
    BY <1>1, <1>2, MessagesAre DEF IInv, TypeOK, Mild
<1>6. Covered'
    <2>1. Covers(Idle, preview, own) /\ Idle.kind = "idle"
        BY DEF IInv, Covered, Idle
    <2>2. \A i \in Id : preview'.of >= i \/ msg'[i].status # "sent"
        BY <1>1, <2>1 DEF Covers, Stays
    <2>3. ASSUME NEW v \in DOMAIN own', NEW i \in Id, msg[i].status = "sent", i > cutoff'[v], v \notin msg[i].deleted
          PROVE  own'[v].of >= i
        <3>1. v # u
            BY <1>2, <2>3, MessagesAre DEF IInv, TypeOK
        <3>2. v \in DOMAIN own /\ own'[v] = own[v] /\ cutoff'[v] = cutoff[v]
            BY <1>2, <3>1 DEF IInv, TypeOK
        <3> QED BY <2>1, <2>3, <3>2 DEF Covers, StaysFor, Stays
    <2> QED BY <1>1, <2>1, <2>2, <2>3 DEF Covered, Covers, StaysFor, Stays
<1>7. Ready'
    <2> SUFFICES ASSUME NEW p \in Process, NEW t, t = tx'[p] PROVE ReadyTx(t)'
        BY DEF Ready
    <2> QED BY <1>3, <1>4, <1>5, ReadyLoosed DEF IInv
<1>8. Calm'
    <2>1. \A v \in Users : v = u => Shows(preview', own', v) = Nothing /\ ~Nothing.text
        BY <1>2 DEF Shows, Nothing
    <2>2. \A v \in Users : v # u => Shows(preview', own', v) = Shows(preview, own, v)
        BY <1>1, <1>2 DEF Shows
    <2>3. ASSUME NEW p \in Process, NEW t, t = tx'[p] PROVE CalmTx(t)'
        <3>1. t = tx[p] /\ t # Idle /\ t.docs \cap {Conversation} = {} => CalmTx(t)'
            BY <1>2, <2>1, <2>2, UnshownLoosed DEF IInv
        <3> QED BY <1>3, <2>3, <3>1, CalmLoosed DEF IInv
    <2>4. ASSUME NEW v \in Users
          PROVE  /\ Sent(Idle, Shows(preview, own, v))'
                 /\ (v \in stale \/ Misled(Idle, v) \/ Fits(Idle, v, Shows(preview, own, v)))'
        <3>0. Shows(preview, own, v)' = Shows(preview', own', v)
            BY DEF Shows
        <3>1. CASE v = u
            BY <2>1, <3>0, <3>1 DEF Sent, Fits
        <3>2. CASE v # u
            <4>1. PICK shown : shown = Shows(preview, own, v)
                OBVIOUS
            <4>2. shown = Shows(preview, own, v)' /\ cutoff'[v] = cutoff[v]
                BY <1>2, <2>2, <3>0, <3>2, <4>1 DEF IInv, TypeOK
            <4>3. Sent(Idle, shown) /\ (v \in stale \/ Fits(Idle, v, shown))
                BY <4>1 DEF IInv, Calm, Truthful, Misled, Idle
            <4>4. Sent(Idle, shown)' /\ (v \in stale' \/ Fits(Idle, v, shown)')
                BY <1>1, <1>2, <3>2, <4>2, <4>3 DEF Sent, Stays, Fits
            <4> QED BY <4>2, <4>4
        <3> QED BY <3>1, <3>2
    <2> QED BY <2>3, <2>4 DEF Calm, Truthful
<1>9. Revoked'
    BY <1>1 DEF IInv, Revoked, Clear
<1> QED BY <1>4, <1>6, <1>7, <1>8, <1>9 DEF IInv

\* What is done to the conversation for one member only.
LEMMA PersonalInv ==
    ASSUME IInv, tx' = Spoil({Conversation}), UNCHANGED <<msg, preview, own, cutoff, edited, raced, stale>>,
           members' \subseteq Users
    PROVE  IInv'
<1>1. Id' = Id
    BY DEF Id
<1>2. \A p \in Process : Loosed(p, {Conversation})
    BY SpoilLooses DEF IInv
<1>3. TypeOK'
    <2>1. /\ tx' \in [Process -> {Idle} \cup Revocation \cup Deletion]
          /\ \A p \in Process : tx'[p] # Idle => tx'[p].m \in Id'
        BY <1>1, TxTyped DEF IInv
    <2> QED BY <1>1, <2>1 DEF TypeOK, IInv
<1>4. Framed /\ Mild
    BY <1>1, FramedIsMild DEF IInv, Framed
<1>5. Covered'
    BY <1>1 DEF IInv, Covered, Covers, StaysFor, Stays
<1>6. Ready'
    <2> SUFFICES ASSUME NEW p \in Process, NEW t, t = tx'[p] PROVE ReadyTx(t)'
        BY DEF Ready
    <2> QED BY <1>2, <1>3, <1>4, ReadyLoosed DEF IInv, Mild
<1>7. Calm'
    <2>1. ASSUME NEW p \in Process, NEW t, t = tx'[p] PROVE CalmTx(t)'
        <3>1. t = tx[p] => CalmTx(t)'
            BY <1>4, CalmKept DEF IInv, Calm
        <3> QED BY <1>2, <2>1, <3>1, CalmLoosed DEF IInv
    <2>2. Truthful(Idle, preview, own)'
        BY <1>1 DEF IInv, Calm, Truthful, Sent, Fits, Stays, Shows, Misled
    <2> QED BY <2>1, <2>2 DEF Calm
<1>8. Revoked'
    BY <1>1 DEF IInv, Revoked
<1> QED BY <1>3, <1>5, <1>6, <1>7, <1>8 DEF IInv

\* A reaction or an edit.
LEMMA WriteInv ==
    ASSUME IInv, NEW m \in Id, NEW new \in Message, Write(m, new), Id' = Id,
           new.status = msg[m].status, new.deleted = msg[m].deleted,
           new.status = "revoked" => new.reactions = {} /\ (new.text => m \in edited'),
           edited \subseteq edited', edited' \subseteq Id
    PROVE  IInv'
<1>1. /\ msg' = [msg EXCEPT ![m] = new] /\ preview' = preview /\ own' = own /\ cutoff' = cutoff
      /\ raced' = raced /\ stale' = stale /\ members' = members /\ tx' = Spoil({m})
    BY DEF Write, mine
<1>2. \A p \in Process : Loosed(p, {m})
    BY <1>1, SpoilLooses DEF IInv
<1>3. /\ msg' \in Seq(Message) /\ Len(msg') = Len(msg)
      /\ \A i \in Id : msg'[i] = IF i = m THEN new ELSE msg[i]
    BY <1>1, ExceptSeq, MessagesAre DEF IInv, TypeOK, Id
<1>4. TypeOK'
    <2>1. /\ tx' \in [Process -> {Idle} \cup Revocation \cup Deletion]
          /\ \A p \in Process : tx'[p] # Idle => tx'[p].m \in Id'
        BY <1>1, TxTyped DEF IInv
    <2> QED BY <1>1, <1>3, <2>1 DEF TypeOK, IInv
<1>5. Framed /\ Mild
    BY <1>1, <1>3, FramedIsMild DEF IInv, Framed
<1>6. PICK shared, personal : shared = preview /\ personal = own
    OBVIOUS
<1>7. Covered'
    <2>1. personal \in Overrides /\ Covers(Idle, shared, personal)
        BY <1>6 DEF IInv, Covered, TypeOK
    <2>2. Covers(Idle, shared, personal)'
        BY <1>4, <1>5, <2>1, CoversKept DEF IInv
    <2> QED BY <1>1, <1>6, <2>2 DEF Covered
<1>8. Ready'
    <2> SUFFICES ASSUME NEW p \in Process, NEW t, t = tx'[p] PROVE ReadyTx(t)'
        BY DEF Ready
    <2> QED BY <1>2, <1>4, <1>5, ReadyLoosed DEF IInv, Mild
<1>9. Calm'
    <2>1. ASSUME NEW p \in Process, NEW t, t = tx'[p] PROVE CalmTx(t)'
        <3>1. t = tx[p] => CalmTx(t)'
            BY <1>1, <1>5, CalmKept DEF IInv, Calm
        <3> QED BY <1>2, <2>1, <3>1, CalmLoosed DEF IInv
    <2>2. Truthful(Idle, shared, personal)'
        BY <1>1, <1>5, <1>6, TruthKept DEF IInv, Calm
    <2>3. Truthful(Idle, preview, own)'
        BY <1>1, <1>6, <2>2 DEF Truthful
    <2> QED BY <2>1, <2>3 DEF Calm
<1>10. Revoked'
    BY <1>3 DEF IInv, Revoked
<1> QED BY <1>4, <1>7, <1>8, <1>9, <1>10 DEF IInv

LEMMA EditInv == ASSUME IInv, NEW m \in Id, Edit(m) PROVE IInv'
<1> DEFINE new == [msg[m] EXCEPT !.text = TRUE]
<1>1. msg[m] \in Message
    BY MessagesAre DEF IInv
<1>2. new \in Message /\ new.status = msg[m].status /\ new.deleted = msg[m].deleted /\ new.reactions = msg[m].reactions
    BY <1>1 DEF Message
<1>3. Write(m, new) /\ edited' = edited \cup {m}
    BY DEF Edit
<1>4. edited \subseteq Id
    BY DEF IInv, TypeOK
<1>5. new.status = "revoked" => new.reactions = {}
    BY <1>2 DEF IInv, Revoked
<1>6. Id' = Id
    BY DEF Edit, Write, Id
<1> HIDE DEF new
<1> QED BY <1>2, <1>3, <1>4, <1>5, <1>6, WriteInv

LEMMA ReactInv == ASSUME IInv, NEW u \in Users, NEW m \in Id, React(u, m) PROVE IInv'
<1> DEFINE new == [msg[m] EXCEPT !.reactions = IF u \in @ THEN @ \ {u} ELSE @ \cup {u}]
<1>1. msg[m] \in Message
    BY MessagesAre DEF IInv
<1>2. new \in Message /\ new.status = msg[m].status /\ new.deleted = msg[m].deleted
    BY <1>1 DEF Message
<1>3. Write(m, new) /\ edited' = edited /\ new.status = "sent"
    BY <1>2 DEF React, Visible
<1>4. edited \subseteq Id
    BY DEF IInv, TypeOK
<1>5. Id' = Id
    BY DEF React, Write, Id
<1> HIDE DEF new
<1> QED BY <1>2, <1>3, <1>4, <1>5, WriteInv

\* Whatever is done to open a transaction or to end it without a write.
LEMMA OpenInv ==
    ASSUME IInv, NEW p \in Process, NEW t, Open(p, t),
           t = Idle \/ t \in Revocation \/ t \in Deletion, t # Idle => t.m \in Id,
           ReadyTx(t), CalmTx(t)
    PROVE  IInv'
<1>1. /\ tx' = [tx EXCEPT ![p] = t] /\ Id' = Id /\ msg' = msg /\ preview' = preview /\ own' = own
      /\ cutoff' = cutoff /\ raced' = raced /\ stale' = stale /\ members' = members /\ edited' = edited
    BY DEF Open, mine, Id
<1>2. TypeOK'
    BY <1>1 DEF TypeOK, IInv
<1>3. Covered' /\ Revoked'
    BY <1>1 DEF IInv, Covered, Covers, StaysFor, Stays, Revoked
<1>4. \A q \in Process : tx'[q] = IF q = p THEN t ELSE tx[q]
    BY <1>1 DEF IInv, TypeOK
<1>5. Ready'
    <2> SUFFICES ASSUME NEW q \in Process, NEW s, s = tx'[q] PROVE ReadyTx(s)'
        BY DEF Ready
    <2>1. ReadyTx(s)
        BY <1>4 DEF IInv, Ready
    <2> QED BY <1>1, <2>1 DEF ReadyTx, Prepared, Covers, StaysFor, Stays
<1>6. Calm'
    <2>1. Truthful(Idle, preview, own)'
        BY <1>1 DEF IInv, Calm, Truthful, Sent, Fits, Stays, Shows, Misled
    <2>2. ASSUME NEW q \in Process, NEW s, s = tx'[q] PROVE CalmTx(s)'
        <3>1. CalmTx(s)
            BY <1>4, <2>2 DEF IInv, Calm
        <3>2. Framed
            BY <1>1 DEF Framed
        <3> QED BY <1>1, <3>1, <3>2, CalmKept DEF IInv
    <2> QED BY <2>1, <2>2 DEF Calm
<1> QED BY <1>2, <1>3, <1>5, <1>6 DEF IInv

LEMMA PreviewIs ==
    ASSUME NEW i, NEW s, NEW c, c = Preview(i, s)
    PROVE  c.of = i /\ (c.text => i # 0 /\ s[i] = "sent")
<1>1. PICK b \in BOOLEAN : b <=> i # 0 /\ s[i] = "sent"
    OBVIOUS
<1>2. c = [of |-> i, text |-> b]
    BY <1>1, Zenon DEF Preview
<1> QED BY <1>1, <1>2

\* The statuses once m is revoked, and the last message still sent then.
Without(m, s, last) ==
    /\ \A i \in Id : s[i] = IF i = m THEN "revoked" ELSE msg[i].status
    /\ last \in Nat /\ \A i \in Id : i # m /\ msg[i].status = "sent" => last >= i
    /\ last # 0 => last \in Id /\ last # m /\ msg[last].status = "sent"

LEMMA LastSent ==
    ASSUME TypeOK, NEW m \in Id, NEW s, s = [Status EXCEPT ![m] = "revoked"],
           NEW last, last = Latest({i \in Id : s[i] = "sent"})
    PROVE  Without(m, s, last)
<1>1. \A i \in Id : s[i] = IF i = m THEN "revoked" ELSE msg[i].status
    BY DEF Status
<1> PICK S : S = {i \in Id : s[i] = "sent"}
    OBVIOUS
<1>2. /\ Latest(S) \in Nat /\ \A i \in S : Latest(S) >= i
      /\ S # {} => Latest(S) \in S
      /\ S = {} => Latest(S) = 0
    BY LatestIs
<1> QED BY <1>1, <1>2 DEF Without

\* Message r is the latest of those in S, which remain to u beyond c.
Remains(u, c, S, r) ==
    /\ r \in Nat /\ \A i \in S : r >= i
    /\ r # 0 => r \in S /\ r \in Id /\ r > c /\ u \notin msg[r].deleted

LEMMA RemainingIs ==
    ASSUME TypeOK, NEW u, NEW c, NEW S, S \subseteq Remaining(u, c), NEW r, r = Latest(S)
    PROVE  Remains(u, c, S, r)
<1>1. S \in SUBSET Id
    BY DEF Remaining
<1>2. /\ Latest(S) \in Nat /\ \A i \in S : Latest(S) >= i
      /\ S # {} => Latest(S) \in S
      /\ S = {} => Latest(S) = 0
    BY <1>1, LatestIs
<1> QED BY <1>2 DEF Remaining, Remains

LEMMA RevokeInv == ASSUME IInv, NEW p \in Process, NEW m \in Id, Revoke(p, m) PROVE IInv'
<1> PICK s : s = [Status EXCEPT ![m] = "revoked"]
    OBVIOUS
<1>0. \A k : Preview(k, s).text => s[k] = "sent"
    BY PreviewIs
<1> PICK last : last = Latest({i \in Id : s[i] = "sent"})
    OBVIOUS
<1> PICK affected : affected = {u \in DOMAIN own : own[u].of = m}
    OBVIOUS
<1> PICK docs : docs = {m} \cup IF last <= m \/ affected # {} THEN {Conversation} ELSE {}
    OBVIOUS
<1> PICK shared : shared = IF last > m THEN preview ELSE Preview(IF last = 0 THEN m ELSE last, s)
    OBVIOUS
<1> PICK personal : personal = [u \in DOMAIN own |->
                        IF u \in affected THEN Preview(Latest(Remaining(u, cutoff[u])), s) ELSE own[u]]
    OBVIOUS
<1> DEFINE t == [kind |-> "revoke", m |-> m, docs |-> docs, preview |-> shared, own |-> personal]
<1>1. Open(p, t)
    BY DEF Revoke
<1>2. /\ t # Idle /\ t.kind = "revoke" /\ t.m = m /\ t.docs = docs /\ t.preview = shared /\ t.own = personal
    BY DEF Idle
<1>3. /\ \A i \in Id : s[i] = IF i = m THEN "revoked" ELSE msg[i].status
      /\ last \in Nat /\ \A i \in Id : i # m /\ msg[i].status = "sent" => last >= i
      /\ last # 0 => last \in Id /\ last # m /\ msg[last].status = "sent"
    <2>1. Without(m, s, last)
        BY LastSent DEF IInv
    <2> QED BY <2>1, Zenon DEF Without
<1>4. m \in Nat /\ m # 0 /\ Id \subseteq Nat /\ DOMAIN own \subseteq Users
    BY MessagesAre DEF IInv, TypeOK, Overrides
<1>5. preview \in Shown /\ \A u \in DOMAIN own : own[u] \in Shown
    BY DEF IInv, TypeOK, Overrides
<1>6. \A u \in affected : \E r :
        u \in DOMAIN own /\ personal[u] = Preview(r, s) /\ Remains(u, cutoff[u], Remaining(u, cutoff[u]), r)
    <2> SUFFICES ASSUME NEW u \in affected, NEW r, r = Latest(Remaining(u, cutoff[u]))
                 PROVE  u \in DOMAIN own /\ personal[u] = Preview(r, s) /\ Remains(u, cutoff[u], Remaining(u, cutoff[u]), r)
        OBVIOUS
    <2>1. Remains(u, cutoff[u], Remaining(u, cutoff[u]), r)
        BY RemainingIs DEF IInv
    <2> QED BY <2>1
<1>7. \A u \in DOMAIN own \ affected : personal[u] = own[u] /\ own[u].of # m
    OBVIOUS
<1>8. shared \in Shown
    BY <1>3, <1>4, <1>5 DEF Preview, Shown
<1>9. DOMAIN personal = DOMAIN own /\ \A u \in DOMAIN own : personal[u] \in Shown
    <2>1. \A u \in affected : personal[u] \in Shown
        BY <1>6 DEF Shown, Preview, Remains
    <2> QED BY <1>5, <1>7, <2>1
<1>10. personal \in Overrides
    <2>1. personal = [u \in DOMAIN own |-> personal[u]]
        OBVIOUS
    <2>2. personal \in [DOMAIN own -> Shown]
        BY <1>9, <2>1
    <2> QED BY <1>4, <2>2 DEF Overrides
<1>11. Covers(Idle, preview, own) /\ Idle.kind = "idle"
    BY DEF IInv, Covered, Idle
<1>12. \A i \in Id : msg[i].status = "sent" => preview.of >= i
    BY <1>11 DEF Covers, Stays
<1> HIDE DEF t
<1>13. Covers(t, shared, personal)
    <2>1. \A i \in Id : Stays(t, i) => shared.of >= i
        BY <1>2, <1>3, <1>4, <1>12 DEF Stays, Preview
    <2>2. ASSUME NEW u \in DOMAIN own, NEW i \in Id, StaysFor(t, u, i) PROVE personal[u].of >= i
        <3>1. StaysFor(Idle, u, i) /\ i \in Remaining(u, cutoff[u])
            BY <1>11, <2>2 DEF StaysFor, Stays, Remaining
        <3>2. CASE u \in affected
            BY <1>6, <3>1, <3>2 DEF Preview, Remains
        <3>3. CASE u \notin affected
            BY <1>7, <1>11, <3>1, <3>3 DEF Covers
        <3> QED BY <3>2, <3>3
    <2> QED BY <1>9, <2>1, <2>2 DEF Covers
<1>14. ReadyTx(t)
    BY <1>2, <1>13 DEF ReadyTx
<1>15. ASSUME NEW u \in Users
       PROVE  Sent(t, Shows(shared, personal, u)) /\ (u \in stale \/ Fits(t, u, Shows(shared, personal, u)))
    <2>1. CASE u \in affected
        <3>1. PICK r : /\ u \in DOMAIN own /\ personal[u] = Preview(r, s)
                       /\ Remains(u, cutoff[u], Remaining(u, cutoff[u]), r)
            BY <1>6, <2>1
        <3> PICK shown : shown = Shows(shared, personal, u)
            OBVIOUS
        <3>2. shown.of = r /\ (shown.text => r # 0 /\ s[r] = "sent")
            <4>1. shown = Preview(r, s)
                BY <1>9, <3>1 DEF Shows
            <4> QED BY <4>1, PreviewIs
        <3>3. Sent(t, shown)
            <4>1. r # 0 => r \in Id
                BY <3>1 DEF Remains
            <4>2. shown.text => r \in Id /\ r # m /\ msg[r].status = "sent"
                BY <1>3, <3>2, <4>1
            <4> QED BY <1>2, <3>2, <4>2 DEF Sent, Stays
        <3>4. Fits(t, u, shown)
            BY <1>2, <3>1, <3>2 DEF Fits, Remains
        <3> QED BY <3>3, <3>4
    <2>2. Sent(Idle, Shows(preview, own, u)) /\ (u \in stale \/ Fits(Idle, u, Shows(preview, own, u)))
        BY <1>11 DEF IInv, Calm, Truthful, Misled
    <2>3. CASE u \in DOMAIN own \ affected
        <3>1. Shows(shared, personal, u) = own[u] /\ Shows(preview, own, u) = own[u]
            BY <1>7, <1>9, <2>3 DEF Shows
        <3> QED BY <1>2, <1>7, <2>2, <2>3, <3>1, <1>11 DEF Sent, Stays, Fits
    <2>4. CASE u \notin DOMAIN own
        <3>1. Shows(shared, personal, u) = shared /\ Shows(preview, own, u) = preview
            BY <1>9, <2>4 DEF Shows
        <3>2. CASE last > m
            <4>1. shared = preview /\ preview.of # m
                BY <1>3, <1>4, <1>5, <1>12, <3>2 DEF Shown
            <4> QED BY <1>2, <1>11, <2>2, <3>1, <4>1 DEF Sent, Stays, Fits
        <3>3. CASE last <= m
            <4>1. shared = Preview(IF last = 0 THEN m ELSE last, s)
                BY <1>3, <1>4, <3>3
            <4>2. last = 0 => ~shared.text
                <5> PICK k : k = IF last = 0 THEN m ELSE last
                    OBVIOUS
                <5>1. shared = Preview(k, s)
                    BY <4>1
                <5>2. shared.text => s[k] = "sent"
                    BY <5>1, <1>0
                <5> QED BY <1>3, <5>2
            <4>3. last # 0 => shared.of = last /\ last < m
                BY <1>3, <1>4, <3>3, <4>1 DEF Preview
            <4>4. Sent(t, shared)
                BY <1>2, <1>3, <4>2, <4>3 DEF Sent, Stays
            <4>5. Fits(t, u, shared)
                BY <1>2, <1>4, <4>2, <4>3 DEF Fits
            <4> QED BY <3>1, <4>4, <4>5
        <3>4. last > m \/ last <= m
            BY <1>3, <1>4
        <3> QED BY <3>2, <3>3, <3>4
    <2> QED BY <2>1, <2>3, <2>4
<1>16. ~Prepared(t) => \A u \in Users : Shows(preview, own, u).of # m
    <2> SUFFICES ASSUME ~Prepared(t), NEW u \in Users PROVE Shows(preview, own, u).of # m
        OBVIOUS
    <2>1. last > m /\ affected = {}
        BY <1>2, <1>3, <1>4 DEF Prepared
    <2>2. preview.of # m
        BY <1>3, <1>4, <1>5, <1>12, <2>1 DEF Shown
    <2> QED BY <1>7, <2>1, <2>2 DEF Shows
<1>17. CalmTx(t)
    BY <1>2, <1>15, <1>16 DEF CalmTx, Truthful, Unshown
<1>18. t \in Revocation
    BY <1>4, <1>8, <1>10 DEF t, Revocation, Conversation
<1> QED BY <1>1, <1>2, <1>14, <1>17, <1>18, OpenInv

LEMMA AccessInv == ASSUME IInv, NEW p \in Process, NEW u \in Users, NEW m \in Id, Access(p, u, m) PROVE IInv'
<1> DEFINE t == [kind |-> "delete", m |-> m, by |-> u, through |-> cutoff[u], docs |-> {},
                 preview |-> preview, own |-> own]
<1>1. Open(p, t)
    BY DEF Access
<1>2. t \in Deletion
    BY MessagesAre DEF IInv, TypeOK, Deletion
<1>3. t.kind = "delete" /\ t.docs = {} /\ t.through = cutoff[t.by] /\ t.m \in Id /\ t.through \in Nat
    BY DEF IInv, TypeOK
<1> HIDE DEF t
<1>4. ReadyTx(t) /\ CalmTx(t)
    BY <1>3 DEF ReadyTx, CalmTx, Prepared
<1> QED BY <1>1, <1>2, <1>3, <1>4, OpenInv

LEMMA DeleteInv == ASSUME IInv, NEW p \in Process, Delete(p) PROVE IInv'
<1> PICK t : t = tx[p]
    OBVIOUS
<1>1. t \in Deletion /\ t # Idle /\ t.kind = "delete" /\ t.docs = {} /\ t.m \in Id /\ t.by \in Users /\ t.through \in Nat
    BY Kinds DEF Delete, IInv, TypeOK, Deletion, Idle
<1>2. CASE Open(p, Idle)
    <2>1. ReadyTx(Idle) /\ CalmTx(Idle)
        BY DEF ReadyTx, CalmTx
    <2> QED BY <1>2, <2>1, OpenInv
<1>3. CASE ~Open(p, Idle)
    <2> PICK S : S = Remaining(t.by, t.through) \ {t.m}
        OBVIOUS
    <2> PICK r : r = Latest(S)
        OBVIOUS
    <2> PICK personal : personal = [u \in DOMAIN own \cup {t.by} |-> IF u = t.by THEN Preview(r, Status) ELSE own[u]]
        OBVIOUS
    <2> PICK n : n = [t EXCEPT !.docs = {t.m, Conversation}, !.preview = preview, !.own = personal]
        OBVIOUS
    <2>1. Open(p, n)
        BY <1>3 DEF Delete
    <2>2. /\ r \in Nat /\ \A i \in S : r >= i
          /\ r # 0 => r \in S /\ r \in Id /\ r > t.through /\ t.by \notin msg[r].deleted
        <3>1. Remains(t.by, t.through, S, r)
            BY RemainingIs DEF IInv
        <3> QED BY <3>1, Zenon DEF Remains
    <2>3. Preview(r, Status) = [of |-> r, text |-> r # 0 /\ Status[r] = "sent"] /\ Preview(r, Status) \in Shown
        BY <2>2 DEF Preview, Shown
    <2>4. personal \in Overrides
        <3>1. PICK D \in SUBSET Users : own \in [D -> Shown]
            BY DEF IInv, TypeOK, Overrides
        <3>2. personal \in [D \cup {t.by} -> Shown]
            BY <2>3, <3>1
        <3>3. D \cup {t.by} \in SUBSET Users
            BY <1>1
        <3> QED BY <3>2, <3>3 DEF Overrides
    <2>5. n \in Deletion
        <3>1. preview \in Shown /\ {t.m, Conversation} \in SUBSET Nat
            BY <1>1, MessagesAre DEF IInv, TypeOK, Conversation
        <3> QED BY <1>1, <2>4, <3>1 DEF Deletion
    <2>6. /\ n.kind = "delete" /\ n.m = t.m /\ n.by = t.by /\ n.through = t.through
          /\ n.docs = {t.m, Conversation} /\ n.preview = preview /\ n.own = personal
        BY <1>1 DEF Deletion
    <2>7. n # Idle /\ Prepared(n)
        BY <2>6 DEF Idle, Prepared
    <2>8. t.through <= cutoff[t.by]
        BY <1>1 DEF IInv, Ready, ReadyTx
    <2>9. Covers(Idle, preview, own) /\ Idle.kind = "idle"
        BY DEF IInv, Covered, Idle
    <2>10. DOMAIN personal = DOMAIN own \cup {t.by} /\ DOMAIN own \subseteq Users
        BY DEF IInv, TypeOK, Overrides
    <2>11. Covers(n, preview, personal)
        <3>1. \A i \in Id : Stays(n, i) => preview.of >= i
            BY <2>9 DEF Covers, Stays
        <3>2. ASSUME NEW u \in DOMAIN own, u # t.by, NEW i \in Id, StaysFor(n, u, i) PROVE personal[u].of >= i
            BY <2>9, <3>2 DEF Covers, StaysFor, Stays
        <3>3. ASSUME NEW i \in Id, StaysFor(n, t.by, i) PROVE personal[t.by].of >= i
            <4>1. i # t.m /\ i > cutoff[t.by] /\ t.by \notin msg[i].deleted
                BY <2>6, <3>3 DEF StaysFor
            <4>2. i > t.through
                BY <1>1, <2>8, <4>1, MessagesAre DEF IInv, TypeOK
            <4>3. i \in S
                BY <4>1, <4>2 DEF Remaining
            <4> QED BY <2>2, <2>3, <4>3
        <3> QED BY <2>10, <3>1, <3>2, <3>3 DEF Covers
    <2>12. ReadyTx(n)
        BY <2>6, <2>7, <2>8, <2>10, <2>11 DEF ReadyTx
    <2>13. ASSUME NEW u \in Users
           PROVE  /\ Sent(n, Shows(preview, personal, u))
                  /\ u \in stale \/ Misled(n, u) \/ Fits(n, u, Shows(preview, personal, u))
        <3>1. CASE u = t.by
            <4>1. Shows(preview, personal, u) = Preview(r, Status)
                BY <2>10, <3>1 DEF Shows
            <4>2. \A i \in Id : Status[i] = msg[i].status
                BY DEF Status
            <4>3. r # 0 => r \in Id /\ r # n.m /\ (Misled(n, u) \/ r > cutoff[u]) /\ u \notin msg[r].deleted
                BY <2>2, <2>6, <3>1 DEF Misled
            <4> PICK shown : shown = Shows(preview, personal, u)
                OBVIOUS
            <4>4. shown.of = r /\ (shown.text => r # 0 /\ Status[r] = "sent")
                BY <4>1, PreviewIs
            <4>5. Sent(n, shown)
                BY <2>6, <4>2, <4>3, <4>4 DEF Sent, Stays
            <4>6. Misled(n, u) \/ Fits(n, u, shown)
                BY <4>3, <4>4 DEF Fits
            <4> QED BY <4>5, <4>6
        <3>2. CASE u # t.by
            <4>1. Shows(preview, personal, u) = Shows(preview, own, u)
                BY <2>10, <3>2 DEF Shows
            <4>2. Sent(Idle, Shows(preview, own, u)) /\ (u \in stale \/ Fits(Idle, u, Shows(preview, own, u)))
                BY <2>9 DEF IInv, Calm, Truthful, Misled
            <4> QED BY <2>6, <2>9, <3>2, <4>1, <4>2 DEF Sent, Stays, Fits
        <3> QED BY <3>1, <3>2
    <2>14. CalmTx(n)
        BY <2>6, <2>7, <2>13 DEF CalmTx, Truthful
    <2> QED BY <1>1, <2>1, <2>5, <2>6, <2>12, <2>14, OpenInv
<1> QED BY <1>2, <1>3

LEMMA ShownIs ==
    ASSUME NEW shared \in Shown, NEW personal \in Overrides, NEW u \in Users,
           NEW shown, shown = Shows(shared, personal, u), shown.text
    PROVE  [of |-> shown.of, text |-> TRUE] \in {shared} \cup {personal[v] : v \in DOMAIN personal}
<1>1. shown \in {shared} \cup {personal[v] : v \in DOMAIN personal}
    BY DEF Shows
<1>2. shown \in Shown
    BY DEF Shows, Overrides
<1>3. shown = [of |-> shown.of, text |-> TRUE]
    BY <1>2 DEF Shown
<1> QED BY <1>1, <1>3

LEMMA CommitInv == ASSUME IInv, NEW p \in Process, Commit(p) PROVE IInv'
<1> PICK t : t = tx[p]
    OBVIOUS
<1> PICK m : m = t.m
    OBVIOUS
<1>1. /\ t # Idle /\ t.docs # {} /\ m \in Id /\ m \in t.docs
      /\ \/ t.kind = "revoke" /\ t \in Revocation
         \/ t.kind = "delete" /\ t \in Deletion /\ Prepared(t)
    BY Kinds DEF Commit, IInv, TypeOK, Ready, ReadyTx
<1>2. /\ preview' = IF Prepared(t) THEN t.preview ELSE preview
      /\ own' = IF Prepared(t) THEN t.own ELSE own
      /\ tx' = [Spoil(t.docs) EXCEPT ![p] = Idle]
      /\ cutoff' = cutoff /\ members' = members /\ edited' = edited
    BY <1>1 DEF Commit, mine, Prepared
<1> PICK new : new = IF t.kind = "delete" THEN [msg[m] EXCEPT !.deleted = @ \cup {t.by}]
                     ELSE [msg[m] EXCEPT !.status = "revoked", !.text = FALSE, !.reactions = {}]
    OBVIOUS
<1>3. new \in Message
    <2>1. msg[m] \in Message /\ (t.kind = "delete" => t.by \in Users)
        BY <1>1, MessagesAre DEF IInv, Deletion, Revocation
    <2> QED BY <2>1 DEF Message
<1>4. /\ t.kind = "delete" => /\ new.status = msg[m].status /\ new.deleted = msg[m].deleted \cup {t.by}
                              /\ new.text = msg[m].text /\ new.reactions = msg[m].reactions
      /\ t.kind # "delete" => /\ new.status = "revoked" /\ new.deleted = msg[m].deleted
                              /\ new.text = FALSE /\ new.reactions = {}
    <2>1. msg[m] \in Message
        BY <1>1, MessagesAre DEF IInv
    <2> QED BY <2>1 DEF Message
<1>5. msg' = [msg EXCEPT ![m] = new]
    BY DEF Commit
<1>6. /\ msg' \in Seq(Message) /\ Len(msg') = Len(msg) /\ Id' = Id
      /\ \A i \in Id : msg'[i] = IF i = m THEN new ELSE msg[i]
    <2>1. msg \in Seq(Message) /\ m \in 1..Len(msg) /\ Id = 1..Len(msg)
        BY <1>1, MessagesAre DEF IInv, TypeOK
    <2>2. /\ msg' \in Seq(Message) /\ Len(msg') = Len(msg)
          /\ \A i \in 1..Len(msg) : msg'[i] = IF i = m THEN new ELSE msg[i]
        BY <1>3, <1>5, <2>1, ExceptSeq
    <2> QED BY <1>5, <2>1, <2>2 DEF Id
<1>7. ASSUME NEW q \in Process PROVE tx'[q] = Idle \/ Loosed(q, t.docs)
    <2>1. CASE q = p
        BY <1>2, <2>1 DEF Spoil
    <2>2. CASE q # p
        <3>1. tx'[q] = Spoil(t.docs)[q]
            BY <1>2, <2>2 DEF Spoil
        <3> QED BY <3>1, SpoilLooses DEF IInv
    <2> QED BY <2>1, <2>2
<1>17. /\ raced \subseteq raced' /\ raced' \subseteq Id
       /\ \A q \in Process \ {p} : tx[q] # Idle =>
            (Missed(tx[q], t) => tx[q].m \in raced') /\ (Missed(t, tx[q]) => m \in raced')
    <2>1. raced' = raced \cup {tx[q].m : q \in {q \in Process \ {p} : tx[q] # Idle /\ Missed(tx[q], t)}}
                         \cup {i \in {m} : \E q \in Process \ {p} : tx[q] # Idle /\ Missed(t, tx[q])}
        BY DEF Commit
    <2>2. raced \subseteq Id /\ \A q \in Process : tx[q] # Idle => tx[q].m \in Id
        BY DEF IInv, TypeOK
    <2>3. \A q \in Process \ {p} : tx[q] # Idle /\ Missed(tx[q], t) => tx[q].m \in raced'
        BY <2>1
    <2>4. \A q \in Process \ {p} : tx[q] # Idle /\ Missed(t, tx[q]) => m \in raced'
        BY <2>1
    <2>5. raced \subseteq raced' /\ raced' \subseteq Id
        BY <1>1, <2>1, <2>2
    <2> QED BY <2>3, <2>4, <2>5
<1>18. stale \subseteq stale' /\ \A u : Misled(t, u) => u \in stale'
    BY DEF Commit, Misled
<1>8. TypeOK'
    <2>1. preview' \in Shown /\ own' \in Overrides
        BY <1>1, <1>2 DEF IInv, TypeOK, Revocation, Deletion
    <2>2. /\ tx' \in [Process -> {Idle} \cup Revocation \cup Deletion]
          /\ \A q \in Process : tx'[q] # Idle => tx'[q].m \in Id'
        BY <1>2, <1>6, TxTyped DEF IInv
    <2> QED BY <1>2, <1>6, <1>17, <2>1, <2>2 DEF TypeOK, IInv
<1>9. Mild
    <2>1. \A u \in Users : cutoff[u] <= cutoff'[u]
        BY <1>2 DEF IInv, TypeOK
    <2> QED BY <1>4, <1>6, <2>1 DEF Mild
<1> PICK shared, personal : shared = preview' /\ personal = own'
    OBVIOUS
<1>10. personal \in Overrides
    BY <1>8 DEF TypeOK
<1>11. Covers(Idle, shared, personal)'
    <2>1. CASE Prepared(t)
        <3>1. Covers(t, shared, personal)
            BY <1>1, <1>2, <2>1 DEF IInv, Ready, ReadyTx
        <3>2. \A i \in Id : Stays(Idle, i)' => Stays(t, i)
            BY <1>1, <1>4, <1>6 DEF Stays
        <3>3. \A u : \A i \in Id : StaysFor(Idle, u, i)' => StaysFor(t, u, i)
            BY <1>1, <1>2, <1>4, <1>6, <3>2 DEF StaysFor
        <3> QED BY <1>6, <3>1, <3>2, <3>3 DEF Covers
    <2>2. CASE ~Prepared(t)
        <3>1. Covers(Idle, shared, personal)
            BY <1>2, <2>2 DEF IInv, Covered
        <3> QED BY <1>8, <1>9, <1>10, <3>1, CoversKept DEF IInv
    <2> QED BY <2>1, <2>2
<1>12. Covered'
    BY <1>11 DEF Covered
<1>13. Ready'
    <2> SUFFICES ASSUME NEW q \in Process, NEW s, s = tx'[q] PROVE ReadyTx(s)'
        BY DEF Ready
    <2>1. CASE s = Idle
        BY <2>1 DEF ReadyTx
    <2>2. CASE Loosed(q, t.docs)
        BY <1>8, <1>9, <2>2, ReadyLoosed DEF IInv, Mild
    <2> QED BY <1>7, <2>1, <2>2
<1>14. ASSUME NEW u \in Users, NEW shown, shown.text => shown.of \in Id, Fits(t, u, shown)
       PROVE  Fits(Idle, u, shown)'
    <2> SUFFICES ASSUME shown.of # 0, shown.text PROVE Fits(Idle, u, shown)'
        BY DEF Fits
    <2>1. CASE /\ shown.of > cutoff[u] /\ u \notin msg[shown.of].deleted
               /\ t.kind = "delete" /\ u = t.by => shown.of # t.m
        <3>1. u \notin msg'[shown.of].deleted
            <4>1. PICK i \in Id : i = shown.of
                BY <1>14
            <4>2. CASE i # m
                BY <1>6, <2>1, <4>1, <4>2
            <4>3. CASE i = m
                <5>1. msg'[i].deleted = new.deleted /\ u \notin msg[m].deleted
                    BY <1>6, <2>1, <4>1, <4>3
                <5>2. new.deleted = msg[m].deleted \/ (u # t.by /\ new.deleted = msg[m].deleted \cup {t.by})
                    BY <1>1, <1>4, <2>1, <4>1, <4>3
                <5> QED BY <4>1, <5>1, <5>2
            <4> QED BY <4>2, <4>3
        <3> QED BY <1>2, <2>1, <3>1 DEF Fits, Idle
    <2>2. CASE \E j \in Id : j > shown.of /\ (msg[j].status = "revoked" \/ (t.kind = "revoke" /\ j = t.m))
        <3>1. PICK j \in Id : j > shown.of /\ (msg[j].status = "revoked" \/ (t.kind = "revoke" /\ j = t.m))
            BY <2>2
        <3>2. msg'[j].status = "revoked"
            BY <1>4, <1>6, <3>1
        <3> QED BY <1>6, <3>1, <3>2 DEF Fits
    <2> QED BY <1>14, <2>1, <2>2 DEF Fits
<1>19. Truthful(Idle, shared, personal)'
    <2> SUFFICES ASSUME NEW u \in Users, NEW shown, shown = Shows(shared, personal, u)
                 PROVE  Sent(Idle, shown)' /\ (u \in stale' \/ Fits(Idle, u, shown)')
        <3>1. \A u \in Users : Shows(shared, personal, u)' = Shows(shared, personal, u)
            BY DEF Shows
        <3> QED BY <3>1 DEF Truthful
    <2>1. CASE Prepared(t)
        <3>1. Sent(t, shown) /\ (u \in stale \/ Misled(t, u) \/ Fits(t, u, shown))
            BY <1>1, <1>2, <2>1 DEF IInv, Calm, CalmTx, Truthful
        <3>2. Sent(Idle, shown)'
            BY <1>1, <1>4, <1>6, <1>17, <3>1 DEF Sent, Stays, Idle
        <3>3. shown.text => shown.of \in Id
            BY <3>1 DEF Sent, Stays, IInv, TypeOK
        <3> QED BY <1>14, <1>18, <3>1, <3>2, <3>3
    <2>2. CASE ~Prepared(t)
        <3>1. Sent(Idle, shown) /\ (u \in stale \/ Fits(Idle, u, shown))
            BY <1>2, <2>2 DEF IInv, Calm, Truthful, Misled, Idle
        <3>2. t.kind = "revoke" /\ (shown.text => shown.of # m \/ m \in raced)
            BY <1>1, <1>2, <2>2 DEF IInv, Calm, CalmTx, Unshown
        <3>3. Sent(Idle, shown)'
            BY <1>6, <1>17, <3>1, <3>2 DEF Sent, Stays, Idle
        <3>4. shown.text => shown.of \in Id
            BY <3>1 DEF Sent, Stays, IInv, TypeOK
        <3>5. Fits(Idle, u, shown) => Fits(t, u, shown)
            BY <3>2 DEF Fits, Idle
        <3> QED BY <1>14, <1>18, <3>1, <3>3, <3>4, <3>5
    <2> QED BY <2>1, <2>2
<1>20. ASSUME NEW q \in Process \ {p}, NEW s, s = tx[q], s # Idle, s.docs \cap t.docs = {}
       PROVE  CalmTx(s)'
    <2>1. CalmTx(s) /\ s.m \in Id /\ (s \in Revocation \/ s \in Deletion)
        BY <1>20, Kinds DEF IInv, Calm, TypeOK
    <2>2. Prepared(s)' <=> Prepared(s)
        BY DEF Prepared
    <2>3. ASSUME Prepared(s), NEW u \in Users, NEW shown, shown = Shows(s.preview, s.own, u)
          PROVE  Sent(s, shown)' /\ (u \in stale' \/ Misled(s, u)' \/ Fits(s, u, shown)')
        <3>1. t.kind = "revoke" /\ Conversation \in s.docs
            BY <1>1, <1>20, <2>3 DEF Prepared
        <3>2. Sent(s, shown) /\ (u \in stale \/ Misled(s, u) \/ Fits(s, u, shown))
            BY <1>20, <2>1, <2>3 DEF CalmTx, Truthful
        <3>3. shown.text /\ shown.of = m => m \in raced'
            <4> SUFFICES ASSUME shown.text, shown.of = m PROVE m \in raced'
                OBVIOUS
            <4>1. s.preview \in Shown /\ s.own \in Overrides
                BY <2>1 DEF Revocation, Deletion
            <4>2. [of |-> m, text |-> TRUE] \in {s.preview} \cup {s.own[v] : v \in DOMAIN s.own}
                BY <2>3, <4>1, ShownIs
            <4>3. Missed(t, s)
                BY <1>20, <3>1, <4>2 DEF Missed
            <4> QED BY <1>17, <1>20, <4>3
        <3>4. Sent(s, shown)'
            BY <1>6, <1>17, <3>2, <3>3 DEF Sent, Stays
        <3>5. Misled(s, u)' <=> Misled(s, u)
            BY <1>2 DEF Misled
        <3>6. shown.text => shown.of \in Id
            BY <3>2 DEF Sent, Stays, IInv, TypeOK
        <3>7. \A i \in Id : /\ msg'[i].deleted = msg[i].deleted
                            /\ msg[i].status = "revoked" => msg'[i].status = "revoked"
            BY <1>4, <1>6, <3>1
        <3>8. Fits(s, u, shown) => Fits(s, u, shown)'
            <4> SUFFICES ASSUME Fits(s, u, shown), shown.of # 0, shown.text PROVE Fits(s, u, shown)'
                BY DEF Fits
            <4>1. CASE \E j \in Id : j > shown.of /\ (msg[j].status = "revoked" \/ (s.kind = "revoke" /\ j = s.m))
                <5>1. PICK j \in Id : j > shown.of /\ (msg[j].status = "revoked" \/ (s.kind = "revoke" /\ j = s.m))
                    BY <4>1
                <5>2. j \in Id' /\ (msg[j].status = "revoked" => msg'[j].status = "revoked")
                    BY <1>6, <3>7
                <5> QED BY <5>1, <5>2 DEF Fits
            <4>2. CASE ~\E j \in Id : j > shown.of /\ (msg[j].status = "revoked" \/ (s.kind = "revoke" /\ j = s.m))
                <5>1. /\ shown.of > cutoff[u] /\ u \notin msg[shown.of].deleted
                      /\ s.kind = "delete" /\ u = s.by => shown.of # s.m
                    BY <4>2 DEF Fits
                <5>2. msg'[shown.of].deleted = msg[shown.of].deleted /\ cutoff' = cutoff
                    BY <1>2, <3>6, <3>7
                <5> QED BY <5>1, <5>2 DEF Fits
            <4> QED BY <4>1, <4>2
        <3> QED BY <1>18, <3>2, <3>4, <3>5, <3>8
    <2>4. Prepared(s) => Truthful(s, s.preview, s.own)'
        <3>1. \A u \in Users : Shows(s.preview, s.own, u)' = Shows(s.preview, s.own, u)
            BY DEF Shows
        <3> QED BY <2>3, <3>1 DEF Truthful
    <2>5. ASSUME s.kind = "revoke", ~Prepared(s), NEW u \in Users, NEW shown, shown = Shows(shared, personal, u),
                 shown.text, shown.of = s.m
          PROVE  s.m \in raced'
        <3>1. CASE Prepared(t)
            <4>1. t.preview \in Shown /\ t.own \in Overrides /\ shared = t.preview /\ personal = t.own
                BY <1>1, <1>2, <3>1 DEF Revocation, Deletion
            <4>2. [of |-> s.m, text |-> TRUE] \in {t.preview} \cup {t.own[v] : v \in DOMAIN t.own}
                BY <2>5, <4>1, ShownIs
            <4>3. Missed(s, t)
                BY <1>20, <2>5, <3>1, <4>2 DEF Missed, Prepared
            <4> QED BY <1>17, <1>20, <4>3
        <3>2. CASE ~Prepared(t)
            <4>1. shown = Shows(preview, own, u)
                BY <1>2, <2>5, <3>2
            <4>2. Unshown(s)
                BY <1>20, <2>1, <2>5 DEF CalmTx
            <4> QED BY <1>17, <2>5, <4>1, <4>2 DEF Unshown
        <3> QED BY <3>1, <3>2
    <2>6. s.kind = "revoke" /\ ~Prepared(s) => Unshown(s)'
        <3>1. \A u \in Users : Shows(preview, own, u)' = Shows(shared, personal, u)
            BY DEF Shows
        <3> QED BY <2>5, <3>1 DEF Unshown
    <2> QED BY <2>2, <2>4, <2>6 DEF CalmTx
<1>15. Calm'
    <2>1. ASSUME NEW q \in Process, NEW s, s = tx'[q] PROVE CalmTx(s)'
        <3>1. CASE s = Idle
            BY <3>1 DEF CalmTx
        <3>2. CASE s # Idle
            <4>1. q # p /\ Loosed(q, t.docs)
                BY <1>2, <1>7, <2>1, <3>2 DEF Spoil
            <4>2. s = tx[q] /\ s # Idle /\ s.docs \cap t.docs = {} => CalmTx(s)'
                BY <1>20, <4>1
            <4> QED BY <2>1, <4>1, <4>2, CalmLoosed DEF IInv
        <3> QED BY <3>1, <3>2
    <2>2. Truthful(Idle, preview, own)'
        BY <1>19 DEF Truthful
    <2> QED BY <2>1, <2>2 DEF Calm
<1>16. Revoked'
    <2> SUFFICES ASSUME NEW i \in Id, msg'[i].status = "revoked"
                 PROVE  msg'[i].reactions = {} /\ (msg'[i].text => i \in edited)
        BY <1>2, <1>6 DEF Revoked
    <2>1. msg[i].status = "revoked" => msg[i].reactions = {} /\ (msg[i].text => i \in edited)
        BY DEF IInv, Revoked
    <2>2. CASE i # m
        BY <1>6, <2>1, <2>2
    <2>3. CASE i = m
        BY <1>4, <1>6, <2>1, <2>3
    <2> QED BY <2>2, <2>3
<1> QED BY <1>8, <1>12, <1>13, <1>15, <1>16 DEF IInv

LEMMA StepInv == IInv /\ [Next]_vars => IInv'
<1> SUFFICES ASSUME IInv, [Next]_vars PROVE IInv'
    OBVIOUS
<1>1. CASE UNCHANGED vars
    BY <1>1 DEF vars, IInv, TypeOK, Covered, Covers, Stays, StaysFor, Ready, ReadyTx, Calm, CalmTx, Truthful, Sent, Fits,
                Misled, Unshown, Shows, Prepared, Revoked, Id
<1>2. ASSUME NEW u \in Users, Send(u) \/ Leave(u) PROVE IInv'
    <2>1. PICK by \in Users \cup {System} : Add(by)
        BY <1>2 DEF Send, Leave
    <2>2. own' = NoOverrides /\ UNCHANGED <<cutoff, edited, raced>> /\ members' \subseteq Users
        BY <1>2 DEF Send, Leave, IInv, TypeOK
    <2> QED BY <2>1, <2>2, AddInv
<1>10. ASSUME NEW u \in Users, NEW S \in SUBSET Users, Join(u, S) PROVE IInv'
    <2>1. UNCHANGED <<cutoff, edited, raced>> /\ members' \subseteq Users
        BY <1>10 DEF Join, IInv, TypeOK
    <2>2. CASE tx' = Spoil({Conversation}) /\ UNCHANGED <<msg, preview, own, stale>>
        BY <2>1, <2>2, PersonalInv
    <2>3. CASE Add(System) /\ own' = NoOverrides
        BY <2>1, <2>3, AddInv
    <2> QED BY <1>10, <2>2, <2>3 DEF Join
<1>3. ASSUME NEW u \in Users, Clear(u) PROVE IInv'
    BY <1>3, ClearInv
<1>4. ASSUME NEW u \in Users, Hide(u) \/ Unhide(u) \/ Mute(u) \/ Unmute(u) PROVE IInv'
    <2>1. Personal /\ members \subseteq Users
        BY <1>4 DEF Hide, Unhide, Mute, Unmute, IInv, TypeOK
    <2> QED BY <2>1, PersonalInv DEF Personal
<1>5. ASSUME NEW m \in Id, Edit(m) PROVE IInv'
    BY <1>5, EditInv
<1>6. ASSUME NEW m \in Id, NEW u \in Users, React(u, m) PROVE IInv'
    BY <1>6, ReactInv
<1>7. ASSUME NEW m \in Id, NEW p \in Process, Revoke(p, m) PROVE IInv'
    BY <1>7, RevokeInv
<1>8. ASSUME NEW m \in Id, NEW p \in Process, NEW u \in Users, Access(p, u, m) PROVE IInv'
    BY <1>8, AccessInv
<1>9. ASSUME NEW p \in Process, Delete(p) \/ Commit(p) PROVE IInv'
    BY <1>9, DeleteInv, CommitInv
<1> QED BY <1>1, <1>2, <1>3, <1>4, <1>5, <1>6, <1>7, <1>8, <1>9, <1>10 DEF Next

LEMMA Invariant == Spec => []IInv
BY InitInv, StepInv, PTL DEF Spec

-----------------------------------------------------------------------------
(* What members do for themselves.                                         *)

\* What is hidden was hidden by the member or by a clearing, which left its
\* marker, and after which nobody but the system has written.
Marks ==
    /\ restore \cup hidden \cup muted \cup hid \cup back \cup stale \subseteq Users
    /\ hid \subseteq hidden /\ hidden \ hid \subseteq restore
    /\ RestoredAsMeant

LEMMA MarksInit == Init => Marks
BY DEF Init, Marks, RestoredAsMeant

\* A step that adds no message and none to what is hidden.
LEMMA SameAuthors ==
    ASSUME TypeOK, NEW m \in Id, NEW new \in Message, new.by = msg[m].by, msg' = [msg EXCEPT ![m] = new]
    PROVE  Id' = Id /\ \A i \in Id : msg'[i].by = msg[i].by
<1>1. /\ msg' \in Seq(Message) /\ Len(msg') = Len(msg)
      /\ \A i \in Id : msg'[i] = IF i = m THEN new ELSE msg[i]
    BY ExceptSeq, MessagesAre DEF TypeOK, Id
<1> QED BY <1>1 DEF Id

LEMMA MarksKept ==
    ASSUME Marks, UNCHANGED <<restore, hidden, muted, hid, back, cutoff>>, stale' \subseteq Users,
           Id' = Id, \A i \in Id : msg'[i].by = msg[i].by
    PROVE  Marks'
BY DEF Marks, RestoredAsMeant

\* A message is added: nothing by another than the system is to be found
\* after the cut-off of one whose conversation stays hidden.
LEMMA MarksAdded ==
    ASSUME IInv, Marks, NEW by \in Users \cup {System}, Add(by), cutoff' = cutoff,
           restore' \cup hidden' \cup muted' \cup hid' \cup back' \subseteq Users,
           hid' \subseteq hidden', hidden' \ hid' \subseteq restore',
           \A u \in restore' \ back' : u \in hidden' /\ u \notin hid' \cup muted',
           hidden' \ hid' \subseteq hidden \ hid, by = System \/ hidden' \ hid' = {}
    PROVE  Marks'
<1>1. PICK n : n = Len(msg) + 1
    OBVIOUS
<1>2. Id' = Id \cup {n} /\ (\A i \in Id : msg'[i] = msg[i]) /\ msg'[n].by = by
    <2>1. /\ Id' = Id \cup {n} /\ \A i \in Id : msg'[i] = msg[i] /\ i <= n
          /\ msg'[n] = [by |-> by, status |-> "sent", text |-> TRUE, reactions |-> {}, deleted |-> {}]
        BY <1>1, Added, Zenon DEF IInv
    <2> QED BY <2>1
<1>3. stale' = {}
    BY DEF Add
<1>4. ASSUME NEW u \in hidden' \ hid', NEW i \in Id', i > cutoff'[u] PROVE msg'[i].by = System
    BY <1>2, <1>4 DEF Marks, RestoredAsMeant
<1> QED BY <1>3, <1>4 DEF Marks, RestoredAsMeant

\* A step of the member's own that adds no message.
LEMMA MarksAlone ==
    ASSUME IInv, Marks, UNCHANGED msg, stale' \subseteq stale,
           restore' \cup hidden' \cup muted' \cup hid' \cup back' \subseteq Users,
           hid' \subseteq hidden', hidden' \ hid' \subseteq restore',
           \A u \in restore' \ back' : u \in hidden' /\ u \notin hid' \cup muted',
           \A u \in hidden' \ hid' : \/ u \in hidden \ hid /\ cutoff'[u] = cutoff[u]
                                     \/ cutoff'[u] = Len(msg)
    PROVE  Marks'
<1>1. Id' = Id
    BY DEF Id
<1>2. ASSUME NEW u \in hidden' \ hid', NEW i \in Id, i > cutoff'[u] PROVE msg'[i].by = System
    <2>1. CASE u \in hidden \ hid /\ cutoff'[u] = cutoff[u]
        BY <1>2, <2>1 DEF Marks, RestoredAsMeant
    <2>2. CASE cutoff'[u] = Len(msg)
        BY <1>2, <2>2, MessagesAre DEF IInv, Id
    <2> QED BY <2>1, <2>2
<1> QED BY <1>1, <1>2 DEF Marks, RestoredAsMeant

\* Of the steps that write one message or none, none touches the marks.
LEMMA MarksOfWrites ==
    ASSUME IInv, Marks, UNCHANGED mine, NEW m \in Id, NEW new \in Message, new.by = msg[m].by,
           msg' = [msg EXCEPT ![m] = new] \/ UNCHANGED msg, stale' \subseteq Users
    PROVE  Marks'
<1>1. Id' = Id /\ \A i \in Id : msg'[i].by = msg[i].by
    <2>1. CASE msg' = [msg EXCEPT ![m] = new]
        BY <2>1, SameAuthors DEF IInv
    <2>2. CASE UNCHANGED msg
        BY <2>2 DEF Id
    <2> QED BY <2>1, <2>2
<1> QED BY <1>1, MarksKept DEF mine

LEMMA MarksStep == IInv /\ Marks /\ [Next]_vars => Marks'
<1> SUFFICES ASSUME IInv, Marks, [Next]_vars PROVE Marks'
    OBVIOUS
<1> USE DEF Marks, RestoredAsMeant
<1>1. CASE UNCHANGED vars
    BY <1>1 DEF vars, Id
<1>2. ASSUME NEW u \in Users, Send(u) PROVE Marks'
    <2>1. u \in Users \cup {System} /\ Add(u) /\ cutoff' = cutoff /\ Restore
        BY <1>2 DEF Send
    <2> QED BY <2>1, MarksAdded DEF Restore
<1>3. ASSUME NEW u \in Users, Leave(u) PROVE Marks'
    <2>1. /\ System \in Users \cup {System} /\ Add(System) /\ cutoff' = cutoff /\ restore' = restore
          /\ hidden' = hidden \ {u} /\ muted' = muted \ {u} /\ hid' = hid \ {u} /\ back' = back \cup ({u} \cap restore)
        BY <1>3 DEF Leave
    <2> QED BY <2>1, MarksAdded
<1>4. ASSUME NEW u \in Users, NEW S \in SUBSET Users, Join(u, S) PROVE Marks'
    <2>1. /\ cutoff' = cutoff /\ restore' = restore /\ muted' = muted
          /\ hidden' = hidden \ S /\ hid' = hid \ S /\ back' = back \cup (S \cap restore)
        BY <1>4 DEF Join
    <2>2. CASE UNCHANGED <<msg, stale>>
        BY <2>1, <2>2, MarksAlone
    <2>3. CASE Add(System)
        BY <2>1, <2>3, MarksAdded
    <2> QED BY <1>4, <2>2, <2>3 DEF Join
<1>5. ASSUME NEW u \in Users, Clear(u) PROVE Marks'
    <2>1. /\ cutoff' = [cutoff EXCEPT ![u] = Len(msg)] /\ cutoff \in [Users -> Nat]
          /\ restore' = restore \cup {u} /\ hidden' = hidden \cup {u} /\ muted' = muted \ {u}
          /\ hid' = hid \ {u} /\ back' = back \ {u} /\ stale' \subseteq stale /\ UNCHANGED msg
        BY <1>5 DEF Clear, IInv, TypeOK
    <2>2. \A v \in hidden' \ hid' : v = u \/ (v \in hidden \ hid /\ v \in Users)
        BY <2>1
    <2> QED BY <2>1, <2>2, MarksAlone
<1>6. ASSUME NEW u \in Users, Hide(u) PROVE Marks'
    BY <1>6, MarksAlone DEF Hide, Personal
<1>7. ASSUME NEW u \in Users, Unhide(u) PROVE Marks'
    BY <1>7, MarksAlone DEF Unhide, Personal
<1>8. ASSUME NEW u \in Users, Mute(u) \/ Unmute(u) PROVE Marks'
    BY <1>8, MarksAlone DEF Mute, Unmute, Personal
<1>9. ASSUME NEW m \in Id, Edit(m) PROVE Marks'
    <2>1. [msg[m] EXCEPT !.text = TRUE] \in Message /\ [msg[m] EXCEPT !.text = TRUE].by = msg[m].by
        BY MessagesAre DEF IInv, Message
    <2> QED BY <1>9, <2>1, MarksOfWrites DEF Edit, Write
<1>10. ASSUME NEW m \in Id, NEW u \in Users, React(u, m) PROVE Marks'
    <2>1. PICK new : new = [msg[m] EXCEPT !.reactions = IF u \in @ THEN @ \ {u} ELSE @ \cup {u}]
        OBVIOUS
    <2>2. new \in Message /\ new.by = msg[m].by
        BY <2>1, MessagesAre DEF IInv, Message
    <2> QED BY <1>10, <2>1, <2>2, MarksOfWrites DEF React, Write
<1>11. ASSUME NEW p \in Process, NEW m \in Id, Revoke(p, m) \/ (\E u \in Users : Access(p, u, m)) PROVE Marks'
    <2>1. UNCHANGED <<msg, stale, mine>>
        BY <1>11 DEF Revoke, Access, Open
    <2> QED BY <2>1, MarksKept DEF mine, Id
<1>12. ASSUME NEW p \in Process, Commit(p) PROVE Marks'
    <2>1. PICK t, new : /\ t = tx[p] /\ t # Idle /\ msg' = [msg EXCEPT ![t.m] = new]
                        /\ new = IF t.kind = "delete" THEN [msg[t.m] EXCEPT !.deleted = @ \cup {t.by}]
                                 ELSE [msg[t.m] EXCEPT !.status = "revoked", !.text = FALSE, !.reactions = {}]
                        /\ UNCHANGED mine
                        /\ stale' = IF t.kind = "delete" /\ t.through # cutoff[t.by] THEN stale \cup {t.by} ELSE stale
        BY <1>12 DEF Commit
    <2>2. t.m \in Id /\ msg[t.m] \in Message /\ (t.kind = "delete" => t.by \in Users)
        BY <2>1, Kinds, MessagesAre DEF IInv, TypeOK, Deletion
    <2>3. new \in Message /\ new.by = msg[t.m].by
        BY <2>1, <2>2 DEF Message
    <2>4. stale' \subseteq Users
        BY <2>1, <2>2
    <2> QED BY <2>1, <2>2, <2>3, <2>4, MarksOfWrites
<1>13. ASSUME NEW p \in Process, Delete(p) PROVE Marks'
    <2>1. UNCHANGED <<msg, stale, mine>>
        BY <1>13 DEF Delete, Open
    <2> QED BY <2>1, MarksKept DEF mine, Id
<1> QED BY <1>1, <1>2, <1>3, <1>4, <1>5, <1>6, <1>7, <1>8, <1>9, <1>10, <1>11, <1>12, <1>13 DEF Next

-----------------------------------------------------------------------------
(* The theorems.                                                           *)

\* The variables keep their types.
THEOREM TypeCorrect == Spec => []TypeOK
<1>1. IInv => TypeOK
    BY DEF IInv
<1> QED BY <1>1, Invariant, PTL

\* The list of conversations shows each member the latest message the member
\* may see, or a later one (syncLastMessagePreviewAfterRevoke and
\* setLastMessageOverride against the sends and clearings they overlap).
THEOREM PreviewIsCurrent == Spec => []PreviewCurrent
<1>1. IInv => PreviewCurrent
    <2> SUFFICES ASSUME IInv, NEW u \in members PROVE ShownTo(u).of >= Latest({i \in Id : Visible(u, i)})
        BY DEF PreviewCurrent
    <2> PICK S : S = {i \in Id : Visible(u, i)}
        OBVIOUS
    <2> PICK r : r = Latest(S)
        OBVIOUS
    <2>1. /\ Latest(S) \in Nat /\ \A i \in S : Latest(S) >= i
          /\ S # {} => Latest(S) \in S
          /\ S = {} => Latest(S) = 0
        BY LatestIs DEF IInv
    <2>2. Covers(Idle, preview, own) /\ Idle.kind = "idle"
        BY DEF IInv, Covered, Idle
    <2>3. ShownTo(u).of \in Nat
        BY DEF ShownTo, IInv, TypeOK, Overrides, Shown
    <2>4. ASSUME NEW i \in S PROVE ShownTo(u).of >= i
        BY <2>2 DEF ShownTo, Visible, Covers, StaysFor, Stays
    <2> QED BY <2>1, <2>3, <2>4
<1> QED BY <1>1, Invariant, PTL

\* A revoked message keeps neither reactions nor, but for an edit, a content,
\* and no preview shows its content, whatever overlaps, unless it was revoked
\* while another transaction was about to show it (revokeMessage).
THEOREM RevokedIsWithdrawn == Spec => []Withdrawn
<1>1. IInv => Withdrawn
    BY DEF IInv, Withdrawn, Revoked, Calm, Truthful, Sent, Stays, Shows, ShownTo, TypeOK
<1> QED BY <1>1, Invariant, PTL

\* What a member has deleted or cleared is not shown to him, whatever
\* overlaps, unless a later message was revoked or his deletion went by a
\* cut-off from before he cleared the history (deleteMessage,
\* clearConversationHistory).
THEOREM DeletedIsForgotten == Spec => []Forgotten
<1>1. IInv => Forgotten
    <2> SUFFICES ASSUME IInv, NEW u \in members \ stale, NEW shown, shown = ShownTo(u), shown.of # 0, shown.text
                 PROVE  \/ shown.of > cutoff[u] /\ u \notin msg[shown.of].deleted
                        \/ \E j \in Id : j > shown.of /\ msg[j].status = "revoked"
        BY DEF Forgotten
    <2>1. u \in Users /\ shown = Shows(preview, own, u)
        BY DEF IInv, TypeOK, Shows, ShownTo
    <2>2. Fits(Idle, u, shown)
        BY <2>1 DEF IInv, Calm, Truthful, Misled, Idle
    <2> QED BY <2>2 DEF Fits, Idle
<1> QED BY <1>1, Invariant, PTL

\* The next message restores what a clearing has hidden, and nothing that a
\* member hides or mutes himself, as long as he is neither gone nor added
\* while he is there (clearConversationHistory, buildNewMessageState,
\* unhideConversation).
THEOREM OnlyClearedRestored == Spec => []RestoredAsMeant
<1>1. Spec => []Marks
    BY Invariant, MarksInit, MarksStep, PTL DEF Spec
<1>2. Marks => RestoredAsMeant
    BY DEF Marks
<1> QED BY <1>1, <1>2, PTL

=============================================================================
