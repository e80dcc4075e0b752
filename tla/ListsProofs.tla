----------------------------- MODULE ListsProofs -----------------------------
(***************************************************************************)
(* Proofs about MCLists, whose three parts each keep an invariant of their *)
(* own: PInv of the pages, TInv of the timelines and counters, NInv of the *)
(* notifications of a conversation and UInv of its unread messages.  A     *)
(* counter is the size of a set, so that a step that adds or takes one     *)
(* element moves both by one; a walk through the pages has behind it all   *)
(* the rows there were; who handles or reads a message holds what the      *)
(* others have to write first; and a read that is going to write a count   *)
(* found one that covers what it leaves unread.                            *)
(***************************************************************************)
EXTENDS MCLists, FiniteSetTheorems, WellFoundedInduction, TLAPS

-----------------------------------------------------------------------------
(* The first and the last of a finite set of numbers.                      *)

LEMMA Least ==
    ASSUME NEW S \in SUBSET Nat, S # {}
    PROVE  \E x \in S : \A y \in S : x <= y
<1> DEFINE R == OpToRel(<, Nat)
<1>1. IsWellFoundedOn(R, Nat)
    BY NatLessThanWellFounded
<1>2. R = {ss \in Nat \X Nat : ss[1] < ss[2]}
    BY DEF OpToRel
<1> HIDE DEF R
<1>3. PICK x \in S : \A y \in S : ~(<<y, x>> \in R)
    BY <1>1, WFMin
<1>4. ASSUME NEW y \in S PROVE x <= y
    <2>1. ~(<<y, x>> \in R) /\ x \in Nat /\ y \in Nat
        BY <1>3
    <2>2. y < x => <<y, x>> \in R
        BY <1>2, <2>1
    <2> QED BY <2>1, <2>2
<1> QED BY <1>4

LEMMA Greatest ==
    ASSUME NEW S \in SUBSET Nat, S # {}, NEW n \in Nat, \A x \in S : x <= n
    PROVE  \E x \in S : \A y \in S : x >= y
<1> DEFINE B == {b \in Nat : \A x \in S : x <= b}
<1>1. PICK m \in B : \A b \in B : m <= b
    BY Least
<1>2. m \in S
    <2> SUFFICES ASSUME m \notin S PROVE FALSE
        OBVIOUS
    <2>1. \A x \in S : x < m
        BY <1>1
    <2>2. PICK x \in S : TRUE
        OBVIOUS
    <2>3. m - 1 \in B
        BY <2>1, <2>2
    <2> QED BY <1>1, <2>3
<1> QED BY <1>1, <1>2

\* Each instance counts in the same way.
LEMMA SameCount ==
    ASSUME NEW s
    PROVE  /\ P!Cardinality(s) = Cardinality(s) /\ T!Cardinality(s) = Cardinality(s)
           /\ I!Cardinality(s) = Cardinality(s)
BY DEF Cardinality, P!Cardinality, T!Cardinality, I!Cardinality

-----------------------------------------------------------------------------
(* Pages: the rows of a query.                                             *)

LEMMA PagesConstants ==
    /\ MaxKey \in Nat /\ Limit \in Nat /\ Limit # 0 /\ MaxChanges \in Nat
    /\ P!Keys = 1..MaxKey /\ P!End = MaxKey + 1
BY ConstantsFit DEF P!PagesAssumption, P!Keys, P!End

LEMMA Finite ==
    ASSUME NEW s \in SUBSET P!Keys
    PROVE  IsFiniteSet(s) /\ Cardinality(s) \in Nat /\ s \subseteq Nat
<1>1. IsFiniteSet(P!Keys) /\ P!Keys \subseteq Nat
    BY PagesConstants, FS_Interval
<1>2. IsFiniteSet(s)
    BY <1>1, FS_Subset
<1> QED BY <1>1, <1>2, FS_CardinalityType

LEMMA InNewest ==
    ASSUME NEW s \in SUBSET P!Keys, NEW n \in Nat
    PROVE  \A i : i \in P!Newest(s, n) <=> i \in s /\ Cardinality({j \in s : j > i}) < n
BY SameCount DEF P!Newest

LEMMA InOldest ==
    ASSUME NEW s \in SUBSET P!Keys, NEW n \in Nat
    PROVE  \A i : i \in P!Oldest(s, n) <=> i \in s /\ Cardinality({j \in s : j < i}) < n
BY SameCount DEF P!Oldest

LEMMA MinOf ==
    ASSUME NEW s \in SUBSET P!Keys, s # {}
    PROVE  P!Min(s) \in s /\ \A i \in s : P!Min(s) <= i
<1>1. \E i \in s : \A j \in s : i <= j
    BY Finite, Least
<1> QED BY <1>1 DEF P!Min

LEMMA MaxOf ==
    ASSUME NEW s \in SUBSET P!Keys, s # {}
    PROVE  P!Max(s) \in s /\ \A i \in s : P!Max(s) >= i
<1>1. s \subseteq Nat /\ MaxKey \in Nat /\ \A i \in s : i <= MaxKey
    BY Finite, PagesConstants
<1>2. \E i \in s : \A j \in s : i >= j
    BY <1>1, Greatest
<1> QED BY <1>2 DEF P!Max

\* A page has no gaps above.
LEMMA NewestUp ==
    ASSUME NEW s \in SUBSET P!Keys, NEW n \in Nat, NEW i \in P!Newest(s, n), NEW j \in s, j >= i
    PROVE  j \in P!Newest(s, n)
<1> DEFINE A == {k \in s : k > i}
           B == {k \in s : k > j}
<1>1. i \in s /\ Cardinality(A) < n
    BY InNewest
<1>2. B \subseteq A
    BY <1>1, Finite
<1>3. Cardinality(B) <= Cardinality(A) /\ Cardinality(A) \in Nat /\ Cardinality(B) \in Nat
    BY <1>2, Finite, FS_Subset
<1>4. Cardinality(B) < n
    BY <1>1, <1>3
<1> QED BY <1>4, InNewest

LEMMA OldestDown ==
    ASSUME NEW s \in SUBSET P!Keys, NEW n \in Nat, NEW i \in P!Oldest(s, n), NEW j \in s, j <= i
    PROVE  j \in P!Oldest(s, n)
<1> DEFINE A == {k \in s : k < i}
           B == {k \in s : k < j}
<1>1. i \in s /\ Cardinality(A) < n
    BY InOldest
<1>2. B \subseteq A
    BY <1>1, Finite
<1>3. Cardinality(B) <= Cardinality(A) /\ Cardinality(A) \in Nat /\ Cardinality(B) \in Nat
    BY <1>2, Finite, FS_Subset
<1>4. Cardinality(B) < n
    BY <1>1, <1>3
<1> QED BY <1>4, InOldest

\* A page is as long as asked for at most, and is all there is when shorter.
LEMMA NewestBound ==
    ASSUME NEW s \in SUBSET P!Keys, NEW n \in Nat
    PROVE  /\ P!Newest(s, n) \subseteq s
           /\ Cardinality(P!Newest(s, n)) <= n
           /\ Cardinality(P!Newest(s, n)) # n => P!Newest(s, n) = s
<1> DEFINE N == P!Newest(s, n)
<1>1. N \subseteq s
    BY DEF P!Newest
<1>2. Cardinality(N) \in Nat /\ IsFiniteSet(N)
    BY <1>1, Finite
<1>3. Cardinality(N) <= n
    <2>1. CASE N = {}
        BY <2>1, FS_EmptySet
    <2>2. CASE N # {}
        <3>1. P!Min(N) \in N /\ \A i \in N : P!Min(N) <= i
            BY <1>1, <2>2, MinOf
        <3> DEFINE A == {k \in s : k > P!Min(N)}
        <3>2. Cardinality(A) < n
            BY <3>1, InNewest
        <3>3. N \ {P!Min(N)} \subseteq A
            BY <1>1, <3>1, Finite
        <3>4. Cardinality(N \ {P!Min(N)}) = Cardinality(N) - 1
            BY <1>2, <3>1, FS_RemoveElement
        <3>5. Cardinality(N \ {P!Min(N)}) <= Cardinality(A) /\ Cardinality(A) \in Nat
            BY <3>3, Finite, FS_Subset
        <3> QED BY <1>2, <3>2, <3>4, <3>5
    <2> QED BY <2>1, <2>2
<1>4. ASSUME Cardinality(N) # n, s \ N # {} PROVE FALSE
    <2> DEFINE i == P!Max(s \ N)
               A == {k \in s : k > i}
    <2>1. i \in s \ N /\ \A k \in s \ N : i >= k
        BY <1>4, MaxOf
    <2>2. A \subseteq N
        BY <2>1, Finite
    <2>3. Cardinality(A) <= Cardinality(N) /\ Cardinality(A) \in Nat
        BY <1>2, <2>2, Finite, FS_Subset
    <2>4. Cardinality(A) < n
        BY <1>2, <1>3, <1>4, <2>3
    <2> QED BY <2>1, <2>4, InNewest
<1> QED BY <1>1, <1>3, <1>4

LEMMA NewestSmall ==
    ASSUME NEW s \in SUBSET P!Keys, NEW n \in Nat, Cardinality(s) <= n
    PROVE  P!Newest(s, n) = s
<1>1. ASSUME NEW i \in s PROVE Cardinality({k \in s : k > i}) < n
    <2>1. {k \in s : k > i} \subseteq s \ {i}
        BY Finite
    <2>2. Cardinality(s \ {i}) = Cardinality(s) - 1 /\ IsFiniteSet(s \ {i})
        BY Finite, FS_RemoveElement
    <2>3. Cardinality({k \in s : k > i}) <= Cardinality(s \ {i})
        BY <2>1, <2>2, FS_Subset
    <2>4. Cardinality({k \in s : k > i}) \in Nat
        BY Finite
    <2> QED BY <2>2, <2>3, <2>4, Finite
<1>2. \A i : i \in P!Newest(s, n) <=> i \in s
    BY <1>1, InNewest
<1> QED BY <1>2

-----------------------------------------------------------------------------
(* Pages: the invariant.  What was given lies behind the cursor; and so    *)
(* does every row kept, given or below one held back, unless it is still   *)
(* to come.                                                                *)

Begun == list # "none" /\ (list = "context" => got # {})
Excused(i) == \E j \in held : j > i

Behind == twice = {} /\ \A i \in got : i >= cursor
Walked == Begun => \A i \in kept \ got : i >= cursor \/ ~more => Excused(i)
Unread ==
    /\ list = "none" => got = {} /\ cursor = P!End /\ ~more
    /\ list = "context" /\ got = {} => ~more

PInv == P!TypeOK /\ Behind /\ Walked /\ Unread

\* The page of a query: below the cursor, without gaps, complete at the end.
LEMMA PageInv ==
    ASSUME PInv, Begun,
           NEW page \in SUBSET P!Keys, NEW seen \in SUBSET P!Keys, NEW left \in SUBSET P!Keys,
           NEW next \in BOOLEAN, P!GiveOf(page, next, seen, left),
           UNCHANGED <<list, rows, hidden, past, changes>>, kept' \subseteq kept,
           page \subseteq seen, \A i \in seen : i < cursor,
           \A i \in kept' : i < cursor /\ (\E j \in seen : i >= j) => i \in page,
           ~next => \A i \in kept' : i < cursor /\ i \notin page => \E j \in left : j > i
    PROVE  PInv'
<1>0. /\ got' = got \cup page /\ twice' = twice \cup (got \cap page) /\ held' = held \cup left
      /\ more' = next /\ cursor' = IF seen = {} THEN cursor ELSE P!Min(seen)
    BY DEF P!GiveOf
<1>t. /\ cursor \in 1..P!End /\ got \subseteq P!Keys /\ held \subseteq P!Keys /\ kept \subseteq rows \ hidden
      /\ rows \subseteq P!Keys /\ P!Keys \subseteq Nat /\ P!Keys \subseteq 1..P!End /\ 1..P!End \subseteq Nat
      /\ twice = {}
    BY PagesConstants DEF PInv, P!TypeOK, Behind
<1>1. cursor' \in 1..P!End /\ cursor' <= cursor /\ (\A i \in seen : i >= cursor')
    <2>1. CASE seen = {}
        BY <1>0, <1>t, <2>1
    <2>2. CASE seen # {}
        <3>1. P!Min(seen) \in seen /\ \A i \in seen : P!Min(seen) <= i
            BY <2>2, MinOf
        <3>2. P!Min(seen) \in 1..P!End /\ P!Min(seen) < cursor
            BY <3>1, <1>t
        <3>3. cursor' = P!Min(seen)
            BY <1>0, <2>2
        <3> HIDE DEF PInv
        <3> QED BY <1>t, <3>1, <3>2, <3>3
    <2> QED BY <2>1, <2>2
<1>2. got \cap page = {}
    BY <1>t DEF PInv, Behind
<1>3. P!TypeOK'
    BY <1>0, <1>1, <1>2, <1>t DEF PInv, P!TypeOK
<1>4. Behind'
    <2>1. \A i \in got : i >= cursor'
        BY <1>1, <1>t DEF PInv, Behind
    <2> QED BY <1>0, <1>1, <1>2, <1>t, <2>1 DEF Behind
<1>5. Walked'
    <2>1. ASSUME NEW i \in kept', i \notin got', i >= cursor' \/ ~next PROVE \E j \in held' : j > i
        <3>1. i \in kept \ got /\ i \notin page /\ i \in Nat
            BY <2>1, <1>0, <1>t
        <3>2. CASE i >= cursor
            <4>1. Excused(i)
                BY <3>1, <3>2 DEF PInv, Walked
            <4> QED BY <4>1, <1>0 DEF Excused
        <3>3. CASE i < cursor /\ i >= cursor'
            <4>1. seen # {}
                BY <3>3, <1>0, <1>t, <3>1
            <4>2. P!Min(seen) \in seen /\ cursor' = P!Min(seen)
                BY <4>1, <1>0, MinOf
            <4> QED BY <2>1, <3>1, <3>3, <4>2
        <3>4. CASE i < cursor /\ ~next
            <4>1. \E j \in left : j > i
                BY <2>1, <3>1, <3>4
            <4> QED BY <4>1, <1>0
        <3> QED BY <2>1, <3>1, <3>2, <3>3, <3>4, <1>t
    <2> QED BY <2>1, <1>0 DEF Walked, Excused
<1>6. Unread'
    BY <1>0 DEF PInv, Unread, Begun
<1> QED BY <1>3, <1>4, <1>5, <1>6 DEF PInv

\* The first so many rows below the cursor.
LEMMA Reads ==
    ASSUME NEW V \in SUBSET P!Keys, NEW n \in Nat
    PROVE  LET R == P!Newest(P!Below(V), n) IN
           /\ R \subseteq V /\ R \subseteq P!Keys /\ \A i \in R : i < cursor
           /\ Cardinality(R) <= n /\ Cardinality(R) \in Nat
           /\ \A i \in V : i < cursor /\ (\E j \in R : i >= j) => i \in R
           /\ Cardinality(R) # n => \A i \in V : i < cursor => i \in R
<1> DEFINE B == P!Below(V)
           R == P!Newest(B, n)
<1>1. B \subseteq V /\ (\A i : i \in B <=> i \in V /\ i < cursor) /\ B \subseteq P!Keys
    BY DEF P!Below
<1>2. R \subseteq B /\ Cardinality(R) <= n /\ (Cardinality(R) # n => R = B)
    BY <1>1, NewestBound
<1>3. Cardinality(R) \in Nat
    BY <1>1, <1>2, Finite
<1>4. ASSUME NEW i \in V, i < cursor, NEW j \in R, i >= j PROVE i \in R
    <2>1. i \in B
        BY <1>1, <1>4
    <2> QED BY <1>1, <1>4, <2>1, NewestUp
<1> QED BY <1>1, <1>2, <1>3, <1>4

LEMMA ExactInv ==
    ASSUME PInv, Begun, P!Exact, UNCHANGED <<list, rows, hidden, past, changes>>
    PROVE  PInv'
<1> DEFINE V == rows \ hidden
           found == P!Newest(P!Below(V), Limit + 1)
           page == P!Newest(found, Limit)
           next == P!Cardinality(found) > Limit
<1>1. P!GiveOf(page, next, page, {}) /\ kept' = kept
    BY DEF P!Exact, P!Give
<1>2. V \in SUBSET P!Keys /\ kept \subseteq V /\ kept \subseteq P!Keys
    BY DEF PInv, P!TypeOK
<1>3. Limit \in Nat /\ Limit + 1 \in Nat
    BY PagesConstants
<1> HIDE DEF V
<1>4. /\ found \subseteq V /\ found \subseteq P!Keys /\ \A i \in found : i < cursor
      /\ Cardinality(found) <= Limit + 1 /\ Cardinality(found) \in Nat
      /\ \A i \in V : i < cursor /\ (\E j \in found : i >= j) => i \in found
      /\ Cardinality(found) # Limit + 1 => \A i \in V : i < cursor => i \in found
    BY <1>2, <1>3, Reads
<1> HIDE DEF found
<1>5. page \subseteq found
    BY <1>3, <1>4, NewestBound
<1>6. ASSUME NEW i \in kept, i < cursor, NEW j \in page, i >= j PROVE i \in page
    <2>1. i \in found
        BY <1>2, <1>4, <1>5, <1>6
    <2> QED BY <1>3, <1>4, <1>6, <2>1, NewestUp
<1>7. ASSUME ~next, NEW i \in kept, i < cursor PROVE i \in page
    <2>1. Cardinality(found) <= Limit
        BY <1>7, <1>3, <1>4, SameCount
    <2>2. page = found
        BY <1>3, <1>4, <2>1, NewestSmall
    <2> QED BY <1>2, <1>3, <1>4, <1>7, <2>1, <2>2
<1> HIDE DEF page
<1>8. next \in BOOLEAN
    OBVIOUS
<1> HIDE DEF next
<1>9. page \in SUBSET P!Keys /\ {} \in SUBSET P!Keys /\ \A i \in page : i < cursor
    BY <1>4, <1>5
<1>10. \A i \in kept' : i < cursor /\ (\E j \in page : i >= j) => i \in page
    BY <1>1, <1>6
<1>11. ~next => \A i \in kept' : i < cursor /\ i \notin page => \E j \in {} : j > i
    BY <1>1, <1>7
<1> QED BY <1>1, <1>8, <1>9, <1>10, <1>11, PageInv

\* Of the rows there are or once were.
LEMMA FullInv ==
    ASSUME PInv, Begun, NEW V \in SUBSET P!Keys, P!Full(V), kept' \subseteq kept, kept' \subseteq V,
           UNCHANGED <<list, rows, hidden, past, changes>>
    PROVE  PInv'
<1> DEFINE page == P!Newest(P!Below(V), Limit)
           next == P!Cardinality(page) = Limit
<1>1. P!GiveOf(page, next, page, {})
    BY DEF P!Full, P!Give
<1>2. Limit \in Nat
    BY PagesConstants
<1>3. /\ page \subseteq V /\ page \subseteq P!Keys /\ \A i \in page : i < cursor
      /\ \A i \in V : i < cursor /\ (\E j \in page : i >= j) => i \in page
      /\ Cardinality(page) # Limit => \A i \in V : i < cursor => i \in page
    BY <1>2, Reads
<1> HIDE DEF page
<1>4. ~next => \A i \in kept' : i < cursor /\ i \notin page => \E j \in {} : j > i
    BY <1>3, SameCount
<1>5. next \in BOOLEAN
    OBVIOUS
<1> HIDE DEF next
<1>6. \A i \in kept' : i < cursor /\ (\E j \in page : i >= j) => i \in page
    BY <1>3
<1>7. page \in SUBSET P!Keys /\ {} \in SUBSET P!Keys
    BY <1>3
<1> QED BY <1>1, <1>3, <1>4, <1>5, <1>6, <1>7, PageInv

\* Some of the rows read are left out of the page.  A page that is not full
\* shows one of them, or else they were all there is.
LEMMA LeftOut ==
    ASSUME PInv, Begun, kept' = kept, UNCHANGED <<list, rows, hidden, past, changes>>,
           NEW R, R = P!Newest(P!Below(rows), Limit), NEW page, page = R \ hidden,
           NEW gone, gone \subseteq R, NEW seen, seen = R \ gone \/ seen = page,
           page \subseteq R \ gone, NEW next \in BOOLEAN, P!GiveOf(page, next, seen, gone),
           ~next => Cardinality(R \ gone) # Limit
    PROVE  PInv'
<1>1. rows \in SUBSET P!Keys /\ Limit \in Nat /\ kept \subseteq rows \ hidden
    BY PagesConstants DEF PInv, P!TypeOK
<1>2. /\ R \subseteq rows /\ R \subseteq P!Keys /\ \A i \in R : i < cursor
      /\ Cardinality(R) <= Limit /\ Cardinality(R) \in Nat
      /\ \A i \in rows : i < cursor /\ (\E j \in R : i >= j) => i \in R
      /\ Cardinality(R) # Limit => \A i \in rows : i < cursor => i \in R
    BY <1>1, Reads
<1>3. ASSUME ~next, NEW i \in kept', i < cursor, i \notin page PROVE \E j \in gone : j > i
    <2>1. i \notin R /\ i \in rows /\ i \in Nat
        BY <1>1, <1>3, Finite
    <2>2. Cardinality(R) = Limit
        BY <1>2, <1>3, <2>1
    <2>3. gone # {}
        <3>1. CASE gone = {}
            <4>1. R \ gone = R
                BY <3>1
            <4> QED BY <4>1, <2>2, <1>3
        <3> QED BY <3>1
    <2>4. PICK j \in gone : j \in R
        BY <2>3
    <2>5. ~(i >= j)
        BY <1>2, <1>3, <2>1, <2>4
    <2>6. j \in Nat
        BY <1>2, <2>4, Finite
    <2> QED BY <2>1, <2>4, <2>5, <2>6
<1>4. page \in SUBSET P!Keys /\ seen \in SUBSET P!Keys /\ gone \in SUBSET P!Keys /\ page \subseteq seen
    BY <1>2
<1>5. seen \subseteq R
    OBVIOUS
<1>6. \A i \in seen : i < cursor
    BY <1>2, <1>5
<1>7. \A i \in kept' : i < cursor /\ (\E j \in seen : i >= j) => i \in page
    BY <1>1, <1>2, <1>5
<1>8. ~next => \A i \in kept' : i < cursor /\ i \notin page => \E j \in gone : j > i
    BY <1>3
<1> QED BY <1>4, <1>6, <1>7, <1>8, PageInv

LEMMA LateInv ==
    ASSUME PInv, Begun, P!Late, UNCHANGED <<list, rows, hidden, past, changes>>
    PROVE  PInv'
<1> DEFINE R == P!Newest(P!Below(rows), Limit)
<1>1. PICK Q, page, gone : Q = R /\ page = Q \ hidden /\ gone = Q \cap hidden
    OBVIOUS
<1>2. P!GiveOf(page, P!Cardinality(page) = Limit, page, gone) /\ kept' = kept
    BY <1>1 DEF P!Late, P!Give
<1> DEFINE next == P!Cardinality(page) = Limit
<1>3. page = Q \ gone
    BY <1>1
<1>4. next \in BOOLEAN /\ (~next => Cardinality(Q \ gone) # Limit)
    BY <1>3, SameCount
<1>5. P!GiveOf(page, next, page, gone)
    BY <1>2
<1> HIDE DEF next
<1> QED BY <1>1, <1>2, <1>3, <1>4, <1>5, LeftOut

LEMMA LikesInv ==
    ASSUME PInv, Begun, P!Likes, UNCHANGED <<list, rows, hidden, past, changes>>
    PROVE  PInv'
<1> DEFINE R == P!Newest(P!Below(rows), Limit)
<1>1. PICK Q, page : Q = R /\ page = Q \ hidden
    OBVIOUS
<1>2. PICK gone \in SUBSET (Q \cap hidden) :
        P!GiveOf(page, P!Cardinality(Q \ gone) = Limit, Q \ gone, gone)
    BY <1>1 DEF P!Likes
<1>3. PICK seen : seen = Q \ gone
    OBVIOUS
<1> DEFINE next == P!Cardinality(seen) = Limit
<1>4. next \in BOOLEAN /\ (~next => Cardinality(Q \ gone) # Limit)
    BY <1>3, SameCount
<1>5. P!GiveOf(page, next, seen, gone)
    BY <1>2, <1>3
<1>6. kept' = kept /\ gone \subseteq Q /\ page \subseteq Q \ gone
    BY <1>1, <1>2 DEF P!Likes
<1> HIDE DEF next
<1> QED BY <1>1, <1>3, <1>4, <1>5, <1>6, LeftOut

LEMMA PageStep ==
    ASSUME PInv, more, P!Page, UNCHANGED <<list, rows, hidden, past, changes>>
    PROVE  PInv'
<1>1. Begun
    BY DEF PInv, Unread, Begun
<1>2. rows \ hidden \in SUBSET P!Keys /\ past \in SUBSET P!Keys /\ kept \subseteq rows \ hidden
      /\ list \in {"exact", "full", "late", "likes", "cached", "context"}
    BY <1>1 DEF PInv, P!TypeOK, P!Lists, Begun
<1>3. CASE list \in {"exact", "context"}
    BY <1>1, <1>3, ExactInv DEF P!Page
<1>4. CASE list = "full"
    <2>1. P!Full(rows \ hidden) /\ kept' = kept
        BY <1>4 DEF P!Page
    <2> QED BY <1>1, <1>2, <2>1, FullInv
<1>5. CASE list = "late"
    <2>1. P!Late
        BY <1>5 DEF P!Page
    <2> QED BY <1>1, <2>1, LateInv
<1>6. CASE list = "likes"
    <2>1. P!Likes
        BY <1>6 DEF P!Page
    <2> QED BY <1>1, <2>1, LikesInv
<1>7. CASE list = "cached"
    <2>1. (P!Full(rows \ hidden) /\ kept' = kept) \/ (P!Full(past) /\ kept' = kept \cap past)
        BY <1>7 DEF P!Page, P!Cached
    <2> QED BY <1>1, <1>2, <2>1, FullInv
<1> QED BY <1>2, <1>3, <1>4, <1>5, <1>6, <1>7

\* A message in its context.
LEMMA FirstInv ==
    ASSUME PInv, P!First
    PROVE  PInv'
<1>1. list = "context" /\ got = {} /\ ~more /\ UNCHANGED <<list, rows, hidden, past, changes>>
    BY DEF P!First
<1> DEFINE V == rows \ hidden
           O(t, b) == P!Newest({i \in V : i < t}, b + 1)
           A(t, a) == P!Oldest({i \in V : i > t}, a + 1)
           pg(t, b, a) == P!Newest(O(t, b), b) \cup {t} \cup P!Oldest(A(t, a), a)
<1>2. PICK b \in 0..1, a \in 0..1, t \in V :
        /\ P!Give(pg(t, b, a), P!Cardinality(O(t, b)) > b /\ b > 0, {})
        /\ kept' = {i \in kept : i <= P!Max(pg(t, b, a)) /\ (b > 0 \/ i >= t)}
    BY DEF P!First, P!Around
<1> DEFINE B == {i \in V : i < t}
           older == P!Newest(B, b + 1)
           C == {i \in V : i > t}
           newer == P!Oldest(C, a + 1)
           down == P!Newest(older, b)
           up == P!Oldest(newer, a)
           page == down \cup {t} \cup up
           next == P!Cardinality(older) > b /\ b > 0
<1>3. /\ P!GiveOf(page, next, page, {})
      /\ kept' = {i \in kept : i <= P!Max(page) /\ (b > 0 \/ i >= t)}
    BY <1>2 DEF P!Give
<1>4. /\ V \subseteq P!Keys /\ kept \subseteq V /\ P!Keys \subseteq Nat /\ twice = {} /\ t \in V
      /\ P!Keys \subseteq 1..P!End /\ held \subseteq P!Keys
    BY PagesConstants DEF PInv, P!TypeOK, Behind
<1>5. /\ older \subseteq B /\ Cardinality(older) \in Nat
      /\ Cardinality(older) <= b => older = B
    <2>1. B \in SUBSET P!Keys /\ b + 1 \in Nat /\ b \in Nat
        BY <1>4
    <2>2. older \subseteq B /\ (Cardinality(older) # b + 1 => older = B)
        BY <2>1, NewestBound
    <2> QED BY <2>1, <2>2, Finite
<1>6. newer \subseteq C /\ up \subseteq newer
    BY DEF P!Oldest
<1>7. down \subseteq older /\ (b = 0 => down = {})
    <2>1. ASSUME b = 0, NEW i \in down PROVE FALSE
        <3>1. older \in SUBSET P!Keys /\ b \in Nat
            BY <1>4, <1>5
        <3>2. Cardinality({j \in older : j > i}) < 0
            BY <2>1, <3>1, InNewest
        <3>3. Cardinality({j \in older : j > i}) \in Nat
            BY <3>1, Finite
        <3> QED BY <3>2, <3>3
    <2> QED BY <2>1 DEF P!Newest
<1>8. page \in SUBSET P!Keys /\ page # {} /\ page \subseteq V
    BY <1>4, <1>5, <1>6, <1>7
<1>9. P!Min(page) \in page /\ (\A i \in page : P!Min(page) <= i) /\ P!Max(page) \in page /\ \A i \in page : P!Max(page) >= i
    BY <1>8, MinOf, MaxOf
<1>s. /\ B \in SUBSET P!Keys /\ older \in SUBSET P!Keys /\ C \in SUBSET P!Keys /\ newer \in SUBSET P!Keys
      /\ b \in Nat /\ b + 1 \in Nat /\ a \in Nat /\ a + 1 \in Nat /\ t \in Nat /\ V \subseteq Nat
      /\ (\A i \in down : i \in older /\ i < t) /\ (\A i \in up : i \in newer /\ i > t)
      /\ \A i \in V : (i < t => i \in B) /\ (i > t => i \in C)
    <2>1. B \in SUBSET P!Keys /\ older \in SUBSET P!Keys
        BY <1>4, <1>5
    <2>2. C \in SUBSET P!Keys /\ newer \in SUBSET P!Keys
        BY <1>4, <1>6
    <2>3. b \in Nat /\ b + 1 \in Nat /\ a \in Nat /\ a + 1 \in Nat
        OBVIOUS
    <2>6. t \in Nat /\ V \subseteq Nat
        <3> HIDE DEF V
        <3> QED BY <1>4
    <2>4. \A i \in down : i \in older /\ i < t
        BY <1>5, <1>7
    <2>5. \A i \in up : i \in newer /\ i > t
        BY <1>6
    <2> QED BY <2>1, <2>2, <2>3, <2>4, <2>5, <2>6
<1>p. (\A i : i \in page <=> i \in down \/ i = t \/ i \in up) /\ page \subseteq Nat
    BY <1>8, <1>4
<1>q. (~next /\ b > 0 => older = B /\ down = older)
    <2>1. ASSUME ~next, b > 0 PROVE older = B /\ down = older
        <3>1. Cardinality(older) <= b
            BY <1>5, <1>s, <2>1, SameCount
        <3> QED BY <1>5, <1>s, <3>1, NewestSmall
    <2> QED BY <2>1
<1>u. ASSUME NEW i \in C, NEW j \in up, i <= j PROVE i \in up
    <2>1. i \in newer
        BY <1>s, <1>u, OldestDown
    <2> QED BY <1>s, <1>u, <2>1, OldestDown
<1>d. ASSUME NEW i \in B, NEW j \in down, i >= j PROVE i \in down
    <2>1. i \in older
        BY <1>s, <1>d, NewestUp
    <2> QED BY <1>s, <1>d, <2>1, NewestUp
<1> HIDE DEF V, B, C, older, newer, down, up, page, next
\* Between the ends of the page there is nothing else.
<1>10. ASSUME NEW i \in V, P!Min(page) <= i, i <= P!Max(page), b > 0 \/ i >= t PROVE i \in page
    <2>1. CASE i = t
        BY <2>1, <1>p
    <2>2. CASE i > t
        <3>1. P!Max(page) \in up
            <4>1. P!Max(page) \in Nat /\ (P!Max(page) \in down \/ P!Max(page) = t \/ P!Max(page) \in up)
                BY <1>p, <1>9
            <4>2. ~(P!Max(page) < t) /\ P!Max(page) # t
                BY <4>1, <1>s, <1>10, <2>2
            <4> QED BY <4>1, <4>2, <1>s
        <3> QED BY <1>s, <1>p, <1>u, <1>10, <2>2, <3>1
    <2>3. CASE i < t
        <3>1. P!Min(page) \in down
            <4>1. P!Min(page) \in Nat /\ (P!Min(page) \in down \/ P!Min(page) = t \/ P!Min(page) \in up)
                BY <1>p, <1>9
            <4>2. ~(P!Min(page) > t) /\ P!Min(page) # t
                BY <4>1, <1>s, <1>10, <2>3
            <4> QED BY <4>1, <4>2, <1>s
        <3> QED BY <1>s, <1>p, <1>d, <1>10, <2>3, <3>1
    <2> QED BY <2>1, <2>2, <2>3, <1>s
\* And below it, without another page, neither.
<1>11. ASSUME ~next, NEW i \in V, i < P!Min(page), b > 0 \/ i >= t PROVE FALSE
    <2>1. P!Min(page) <= t /\ P!Min(page) \in Nat
        BY <1>p, <1>9
    <2>2. i < t /\ b > 0
        BY <1>s, <1>11, <2>1
    <2>3. i \in page
        BY <1>p, <1>q, <1>s, <1>11, <2>2
    <2> QED BY <1>s, <1>9, <1>11, <2>1, <2>3
<1>12. next \in BOOLEAN
    BY DEF next
<1>13. /\ got' = page /\ twice' = {} /\ held' = held /\ more' = next /\ cursor' = P!Min(page)
       /\ kept' \subseteq kept /\ \A i \in kept' : i <= P!Max(page) /\ (b > 0 \/ i >= t)
    BY <1>1, <1>3, <1>4, <1>8 DEF P!GiveOf
<1>14. P!TypeOK'
    BY <1>1, <1>4, <1>8, <1>9, <1>12, <1>13 DEF PInv, P!TypeOK
<1>15. Behind'
    BY <1>9, <1>13 DEF Behind
<1>16. Walked'
    <2>1. ASSUME NEW i \in kept', i \notin page, i >= P!Min(page) \/ ~next PROVE FALSE
        <3>1. i \in V /\ i \in Nat /\ P!Min(page) \in Nat /\ i <= P!Max(page) /\ (b > 0 \/ i >= t)
            BY <1>4, <1>s, <1>p, <1>9, <1>13
        <3>2. CASE i >= P!Min(page)
            BY <1>10, <2>1, <3>1, <3>2
        <3>3. CASE i < P!Min(page)
            BY <1>11, <2>1, <3>1, <3>3
        <3> QED BY <3>1, <3>2, <3>3
    <2> QED BY <2>1, <1>13 DEF Walked
<1>17. Unread'
    BY <1>1, <1>8, <1>13 DEF Unread
<1> QED BY <1>14, <1>15, <1>16, <1>17 DEF PInv

LEMMA PagesInit == P!Init => PInv
<1> SUFFICES ASSUME P!Init PROVE PInv
    OBVIOUS
<1>1. P!TypeOK
    <2>1. P!End \in 1..P!End /\ 0 \in 0..MaxChanges
        BY PagesConstants
    <2> QED BY <2>1 DEF P!Init, P!TypeOK
<1> QED BY <1>1 DEF P!Init, PInv, Behind, Walked, Unread, Begun

\* A page, the start of a walk, or a change by others.
LEMMA PagesNext ==
    ASSUME PInv, P!Next \/ UNCHANGED pagesVars
    PROVE  PInv'
<1>1. ASSUME NEW l \in P!Lists, NEW all \in SUBSET P!Keys, NEW some \in SUBSET all, P!Start(l, all, some)
      PROVE  PInv'
    <2>1. P!TypeOK'
        BY <1>1 DEF P!Start, PInv, P!TypeOK, P!Lists
    <2>2. got = {} /\ cursor = P!End
        BY <1>1 DEF P!Start, PInv, Unread
    <2>3. Behind'
        BY <1>1, <2>2 DEF P!Start, PInv, Behind
    <2>4. Walked'
        <3>1. \A i \in P!Keys : ~(i >= P!End)
            BY PagesConstants
        <3> QED BY <1>1, <2>2, <3>1 DEF P!Start, Walked, Begun
    <2>5. Unread'
        BY <1>1, <2>2 DEF P!Start, Unread, P!Lists
    <2> QED BY <2>1, <2>3, <2>4, <2>5 DEF PInv
<1>2. ASSUME NEW i \in P!Keys, P!Insert(i) \/ P!Delete(i) \/ P!Hide(i) \/ P!Show(i)
      PROVE  PInv'
    <2>1. /\ UNCHANGED <<list, past, cursor, more, got, twice, held>> /\ kept' \subseteq kept
          /\ changes < MaxChanges /\ changes' = changes + 1
          /\ rows' \subseteq P!Keys /\ hidden' \subseteq P!Keys /\ kept' \subseteq rows' \ hidden' /\ list # "none"
        BY <1>2 DEF P!Insert, P!Delete, P!Hide, P!Show, P!Changed, PInv, P!TypeOK
    <2>2. P!TypeOK'
        BY <2>1, PagesConstants DEF PInv, P!TypeOK
    <2>3. Behind' /\ Walked' /\ Unread'
        BY <2>1 DEF PInv, Behind, Walked, Unread, Begun, Excused
    <2> QED BY <2>2, <2>3 DEF PInv
<1>3. CASE UNCHANGED pagesVars
    BY <1>3 DEF pagesVars, PInv, P!TypeOK, Behind, Walked, Unread, Begun, Excused
<1> QED BY <1>1, <1>2, <1>3, PageStep, FirstInv DEF P!Next

LEMMA PagesGiven == PInv => EachOnce
BY PagesConstants DEF PInv, P!TypeOK, Behind, Walked, Begun, Excused, EachOnce, P!NoneTwice, P!NoneSkipped

-----------------------------------------------------------------------------
(* Timeline: the counts as cardinalities of what is counted.               *)

TweetDoc == [st: {"absent", "live", "deleted", "undone"}, kind: T!Counted \cup {"tweet"},
             by: Readers \cup {""}, parent: Tweets \cup {T!NoParent}]

LikeSet(t) == {u \in Readers : <<u, t>> \in like}
MarkSet(t) == {u \in Readers : <<u, t>> \in mark}
OwedSet(t, d) == {u \in Readers : owed[u] = <<t, d>>}
Kids(t, k) == {c \in Tweets : T!Live(c) /\ tweet[c].parent = t /\ tweet[c].kind = k}
FollowerSet(u) == {v \in Readers : <<v, u>> \in follow}
FollowingSet(u) == {v \in Readers : <<u, v>> \in follow}

LikesCounted == \A t \in Tweets : T!Live(t) => likes[t] = Cardinality(LikeSet(t))
KidsCounted ==
    \A t \in Tweets : T!Live(t) => \A k \in T!Counted : children[<<t, k>>] = Cardinality(Kids(t, k))
FollowsCounted ==
    \A u \in Readers :
        followers[u] = Cardinality(FollowerSet(u)) /\ following[u] = Cardinality(FollowingSet(u))
MarksCounted ==
    \A t \in Tweets : T!Live(t) /\ t \notin lost =>
        marks[t] = Cardinality(MarkSet(t)) - Cardinality(OwedSet(t, 1)) + Cardinality(OwedSet(t, -1))

\* A tweet to come has nothing yet.
Untouched ==
    \A t \in Tweets : tweet[t].st = "absent" =>
        /\ likes[t] = 0 /\ marks[t] = 0 /\ \A k \in T!Counted : children[<<t, k>>] = 0
        /\ \A u \in Readers : <<u, t>> \notin like \cup mark /\ owed[u][1] # t
        /\ \A c \in Tweets : tweet[c].parent # t

Owing == \A u \in Readers : owed[u] = T!Nothing \/ \E t \in Tweets, d \in {1, -1} : owed[u] = <<t, d>>

TInv ==
    /\ T!TypeOK /\ Owing /\ Untouched /\ T!NothingLeft
    /\ LikesCounted /\ KidsCounted /\ FollowsCounted /\ MarksCounted

LEMMA TimelineConstants ==
    /\ IsFiniteSet(Readers) /\ IsFiniteSet(Tweets) /\ T!NoParent \notin Tweets
    /\ T!Counted = {"retweet", "comment", "quote"}
BY ConstantsFit DEF T!TimelineAssumption, T!IsFiniteSet, IsFiniteSet, T!Counted

LEMMA Sized ==
    /\ \A S \in SUBSET Readers : IsFiniteSet(S) /\ Cardinality(S) \in Nat
    /\ \A S \in SUBSET Tweets : IsFiniteSet(S) /\ Cardinality(S) \in Nat
<1>1. ASSUME NEW X, IsFiniteSet(X), NEW S \in SUBSET X PROVE IsFiniteSet(S) /\ Cardinality(S) \in Nat
    BY <1>1, FS_Subset, FS_CardinalityType
<1> QED BY <1>1, TimelineConstants

LEMMA OneMore ==
    ASSUME NEW S, IsFiniteSet(S), NEW x, x \notin S
    PROVE  Cardinality(S \cup {x}) = Cardinality(S) + 1
BY FS_AddElement

LEMMA OneLess ==
    ASSUME NEW S, IsFiniteSet(S), NEW x \in S
    PROVE  Cardinality(S \ {x}) = Cardinality(S) - 1 /\ Cardinality(S \ {x}) \in Nat
<1>1. IsFiniteSet(S \ {x}) /\ Cardinality(S \ {x}) = Cardinality(S) - 1
    BY FS_RemoveElement
<1> QED BY <1>1, FS_CardinalityType

LEMMA Bumped ==
    ASSUME NEW X, NEW f \in [X -> Int], NEW x \in X, NEW v \in Int
    PROVE  /\ [f EXCEPT ![x] = v] \in [X -> Int]
           /\ \A y \in X : [f EXCEPT ![x] = v][y] = IF y = x THEN v ELSE f[y]
OBVIOUS

\* The parts of the type.
Marking == owed \in [Readers -> (Tweets \cup {T!NoParent}) \X (-1..1)]
Sets ==
    /\ like \subseteq Readers \X Tweets /\ mark \subseteq Readers \X Tweets
    /\ feed \subseteq Readers \X Tweets /\ follow \subseteq Readers \X Readers /\ lost \subseteq Tweets
Counts ==
    /\ likes \in [Tweets -> Int] /\ marks \in [Tweets -> Int]
    /\ children \in [Tweets \X T!Counted -> Int]
    /\ followers \in [Readers -> Int] /\ following \in [Readers -> Int]

LEMMA Parts == T!TypeOK <=> tweet \in [Tweets -> TweetDoc] /\ Marking /\ Sets /\ Counts
BY Zenon DEF T!TypeOK, TweetDoc, Marking, Sets, Counts

LEMMA PartsNext ==
    ASSUME tweet' \in [Tweets -> TweetDoc], Marking', Sets', Counts' PROVE T!TypeOK'
BY Zenon DEF T!TypeOK, TweetDoc, Marking, Sets, Counts

LEMMA PartsOf == TInv => tweet \in [Tweets -> TweetDoc] /\ Marking /\ Sets /\ Counts
BY Parts DEF TInv

LEMMA TimelineGiven == TInv => TimelineAgrees
<1> SUFFICES ASSUME TInv PROVE TimelineAgrees
    OBVIOUS
<1>1. T!CountsAgree
    BY SameCount DEF TInv, LikesCounted, KidsCounted, FollowsCounted, T!CountsAgree,
        LikeSet, Kids, FollowerSet, FollowingSet
<1>2. T!MarksOwed
    BY SameCount DEF TInv, MarksCounted, T!MarksOwed, MarkSet, OwedSet
<1> QED BY <1>1, <1>2 DEF TInv, TimelineAgrees

-----------------------------------------------------------------------------
(* Timeline: what a step leaves alone.                                     *)

LEMMA SameLikes ==
    ASSUME LikesCounted, UNCHANGED <<tweet, like, likes>> PROVE LikesCounted'
BY DEF LikesCounted, LikeSet, T!Live
LEMMA SameKids ==
    ASSUME KidsCounted, UNCHANGED <<tweet, children>> PROVE KidsCounted'
BY DEF KidsCounted, Kids, T!Live
LEMMA SameFollows ==
    ASSUME FollowsCounted, UNCHANGED <<follow, followers, following>> PROVE FollowsCounted'
BY DEF FollowsCounted, FollowerSet, FollowingSet
LEMMA SameMarks ==
    ASSUME MarksCounted, UNCHANGED <<tweet, mark, marks, owed, lost>> PROVE MarksCounted'
BY DEF MarksCounted, MarkSet, OwedSet, T!Live

\* A tweet goes: it counts no more where it was a reply, a retweet or a quote.
LEMMA GoneKids ==
    ASSUME TInv, NEW t \in Tweets, T!Live(t), NEW st \in {"deleted", "undone"},
           tweet' = [tweet EXCEPT ![t].st = st],
           children' \in [Tweets \X T!Counted -> Int],
           \A s \in Tweets, k \in T!Counted : T!Live(s) =>
              children'[<<s, k>>] =
                IF s = tweet[t].parent /\ k = tweet[t].kind
                THEN children[<<s, k>>] - 1 ELSE children[<<s, k>>]
    PROVE  KidsCounted'
<1> SUFFICES ASSUME NEW s \in Tweets, T!Live(s)', NEW k \in T!Counted
             PROVE  children'[<<s, k>>] = Cardinality(Kids(s, k)')
    BY DEF KidsCounted
<1>1. \A c \in Tweets : /\ T!Live(c)' <=> T!Live(c) /\ c # t
                        /\ tweet'[c].parent = tweet[c].parent /\ tweet'[c].kind = tweet[c].kind
    BY DEF TInv, T!TypeOK, T!Live
<1>2. T!Live(s) /\ children[<<s, k>>] = Cardinality(Kids(s, k))
    BY <1>1 DEF TInv, KidsCounted
<1>3. Kids(s, k) \in SUBSET Tweets
    BY DEF Kids
<1>4. CASE s = tweet[t].parent /\ k = tweet[t].kind
    <2>1. t \in Kids(s, k) /\ Kids(s, k)' = Kids(s, k) \ {t}
        BY <1>1, <1>4 DEF Kids
    <2> QED BY <1>2, <1>3, <1>4, <2>1, Sized, OneLess
<1>5. CASE ~(s = tweet[t].parent /\ k = tweet[t].kind)
    <2>1. Kids(s, k)' = Kids(s, k)
        BY <1>1, <1>5 DEF Kids
    <2> QED BY <1>2, <1>5, <2>1
<1> QED BY <1>4, <1>5

\* And is no more there to be counted for itself.
LEMMA GoneRest ==
    ASSUME TInv, NEW t \in Tweets, T!Live(t), NEW st \in {"deleted", "undone"},
           tweet' = [tweet EXCEPT ![t].st = st],
           UNCHANGED <<likes, marks, owed, lost>>,
           like' \subseteq like, mark' \subseteq mark,
           \A s \in Tweets \ {t}, u \in Readers : (<<u, s>> \in like' <=> <<u, s>> \in like) /\ (<<u, s>> \in mark' <=> <<u, s>> \in mark),
           \A s \in Tweets, k \in T!Counted : ~T!Live(s) => children'[<<s, k>>] = children[<<s, k>>]
    PROVE  LikesCounted' /\ MarksCounted' /\ Untouched' /\ Owing'
           /\ tweet' \in [Tweets -> TweetDoc]
           /\ \A c \in Tweets : /\ T!Live(c)' <=> T!Live(c) /\ c # t
                                /\ tweet'[c].st = IF c = t THEN st ELSE tweet[c].st
<1>1. tweet' \in [Tweets -> TweetDoc]
    <2>1. tweet \in [Tweets -> TweetDoc]
        BY DEF TInv, T!TypeOK, TweetDoc
    <2>2. PICK d \in TweetDoc : d = tweet[t]
        BY <2>1
    <2>3. [d EXCEPT !.st = st] \in TweetDoc
        BY DEF TweetDoc
    <2>4. tweet' = [tweet EXCEPT ![t] = [d EXCEPT !.st = st]]
        BY <2>1, <2>2
    <2> HIDE DEF TInv
    <2> QED BY <2>1, <2>3, <2>4
<1>2. \A c \in Tweets : /\ T!Live(c)' <=> T!Live(c) /\ c # t
                        /\ tweet'[c].parent = tweet[c].parent
                        /\ tweet'[c].st = IF c = t THEN st ELSE tweet[c].st
    BY DEF TInv, T!TypeOK, T!Live
<1>3. LikesCounted'
    <2>1. \A s \in Tweets \ {t} : LikeSet(s)' = LikeSet(s)
        BY DEF LikeSet
    <2> QED BY <1>2, <2>1 DEF TInv, LikesCounted
<1>4. MarksCounted'
    <2>1. \A s \in Tweets \ {t} : MarkSet(s)' = MarkSet(s) /\ OwedSet(s, 1)' = OwedSet(s, 1) /\ OwedSet(s, -1)' = OwedSet(s, -1)
        BY DEF MarkSet, OwedSet
    <2> QED BY <1>2, <2>1 DEF TInv, MarksCounted
<1>5. Untouched'
    <2>1. \A s \in Tweets : tweet'[s].st = "absent" => tweet[s].st = "absent" /\ ~T!Live(s)
        BY <1>2 DEF T!Live
    <2> QED BY <1>2, <2>1 DEF TInv, Untouched
<1>6. Owing'
    BY DEF TInv, Owing
<1> QED BY <1>1, <1>2, <1>3, <1>4, <1>5, <1>6

-----------------------------------------------------------------------------
(* Timeline: the steps.                                                    *)

LEMMA LikeTweetInv ==
    ASSUME TInv, NEW u \in Readers, NEW t \in Tweets, T!Like(u, t)
    PROVE  TInv'
<1>0. /\ T!Live(t) /\ <<u, t>> \notin like /\ like' = like \cup {<<u, t>>} /\ likes' = [likes EXCEPT ![t] = @ + 1]
      /\ UNCHANGED <<tweet, mark, feed, follow, marks, children, followers, following, owed, lost>>
    BY DEF T!Like, T!Bump
<1>b. likes' \in [Tweets -> Int] /\ \A s \in Tweets : likes'[s] = IF s = t THEN likes[t] + 1 ELSE likes[s]
    <2>1. likes \in [Tweets -> Int] /\ likes[t] + 1 \in Int
        BY PartsOf DEF Counts
    <2> QED BY <1>0, <2>1, Bumped
<1>1. T!TypeOK'
    <2>1. tweet' \in [Tweets -> TweetDoc] /\ Marking'
        BY <1>0, PartsOf DEF Marking
    <2>2. Sets' /\ Counts'
        BY <1>0, <1>b, PartsOf DEF Sets, Counts
    <2> QED BY <2>1, <2>2, PartsNext
<1>2. Owing' /\ T!NothingLeft'
    BY <1>0 DEF TInv, Owing, T!NothingLeft, T!Live
<1>3. Untouched'
    BY <1>0, <1>b DEF TInv, Untouched, T!Live
<1>4. LikesCounted'
    <2>1. LikeSet(t)' = LikeSet(t) \cup {u} /\ u \notin LikeSet(t) /\ LikeSet(t) \in SUBSET Readers
        BY <1>0 DEF LikeSet
    <2>2. Cardinality(LikeSet(t)') = Cardinality(LikeSet(t)) + 1
        BY <2>1, Sized, OneMore
    <2>3. \A s \in Tweets \ {t} : LikeSet(s)' = LikeSet(s) /\ likes'[s] = likes[s]
        BY <1>0, <1>b DEF LikeSet
    <2>4. likes'[t] = likes[t] + 1 /\ \A s \in Tweets : T!Live(s)' <=> T!Live(s)
        BY <1>0, <1>b DEF T!Live
    <2> QED BY <1>0, <2>2, <2>3, <2>4 DEF TInv, LikesCounted
<1>5. KidsCounted' /\ FollowsCounted' /\ MarksCounted'
    BY <1>0, SameKids, SameFollows, SameMarks DEF TInv
<1> QED BY <1>1, <1>2, <1>3, <1>4, <1>5 DEF TInv

LEMMA UnlikeTweetInv ==
    ASSUME TInv, NEW u \in Readers, NEW t \in Tweets, T!Unlike(u, t)
    PROVE  TInv'
<1>0. /\ <<u, t>> \in like /\ like' = like \ {<<u, t>>}
      /\ likes' = IF T!Live(t) THEN [likes EXCEPT ![t] = IF @ > 0 THEN @ - 1 ELSE 0] ELSE likes
      /\ UNCHANGED <<tweet, mark, feed, follow, marks, children, followers, following, owed, lost>>
    BY DEF T!Unlike, T!DropIf
<1>b. /\ likes' \in [Tweets -> Int] /\ \A s \in Tweets \ {t} : likes'[s] = likes[s]
      /\ likes'[t] = IF ~T!Live(t) THEN likes[t] ELSE IF likes[t] > 0 THEN likes[t] - 1 ELSE 0
    <2> DEFINE v == IF likes[t] > 0 THEN likes[t] - 1 ELSE 0
    <2>1. likes \in [Tweets -> Int] /\ v \in Int
        BY PartsOf DEF Counts
    <2>2. likes' = IF T!Live(t) THEN [likes EXCEPT ![t] = v] ELSE likes
        BY <1>0
    <2> HIDE DEF v
    <2>3. /\ likes' \in [Tweets -> Int] /\ \A s \in Tweets \ {t} : likes'[s] = likes[s]
          /\ likes'[t] = IF ~T!Live(t) THEN likes[t] ELSE v
        BY <2>1, <2>2, Bumped
    <2> QED BY <2>3 DEF v
<1>1. T!TypeOK'
    <2>1. tweet' \in [Tweets -> TweetDoc] /\ Marking'
        BY <1>0, PartsOf DEF Marking
    <2>2. Sets' /\ Counts'
        BY <1>0, <1>b, PartsOf DEF Sets, Counts
    <2> QED BY <2>1, <2>2, PartsNext
<1>2. Owing' /\ T!NothingLeft'
    BY <1>0 DEF TInv, Owing, T!NothingLeft, T!Live
<1>3. Untouched'
    BY <1>0, <1>b DEF TInv, Untouched, T!Live
<1>4. LikesCounted'
    <2>1. LikeSet(t)' = LikeSet(t) \ {u} /\ u \in LikeSet(t) /\ LikeSet(t) \in SUBSET Readers
        BY <1>0 DEF LikeSet
    <2>2. Cardinality(LikeSet(t)') = Cardinality(LikeSet(t)) - 1 /\ Cardinality(LikeSet(t)') \in Nat
        BY <2>1, Sized, OneLess
    <2>3. \A s \in Tweets \ {t} : LikeSet(s)' = LikeSet(s) /\ likes'[s] = likes[s]
        BY <1>0, <1>b DEF LikeSet
    <2>4. /\ T!Live(t) => likes'[t] = IF likes[t] > 0 THEN likes[t] - 1 ELSE 0
          /\ \A s \in Tweets : T!Live(s)' <=> T!Live(s)
        BY <1>0, <1>b DEF T!Live
    <2>5. Cardinality(LikeSet(t)) \in Nat
        BY <2>1, Sized
    <2>6. T!Live(t) => likes'[t] = Cardinality(LikeSet(t)')
        BY <2>2, <2>4, <2>5 DEF TInv, LikesCounted
    <2> QED BY <2>3, <2>4, <2>6 DEF TInv, LikesCounted
<1>5. KidsCounted' /\ FollowsCounted' /\ MarksCounted'
    BY <1>0, SameKids, SameFollows, SameMarks DEF TInv
<1> QED BY <1>1, <1>2, <1>3, <1>4, <1>5 DEF TInv

\* A follow or an unfollow counts for both.
LEMMA FollowInv ==
    ASSUME TInv, NEW u \in Readers, NEW v \in Readers, NEW by \in {1, -1},
           by = 1 => <<u, v>> \notin follow /\ follow' = follow \cup {<<u, v>>},
           by = -1 => <<u, v>> \in follow /\ follow' = follow \ {<<u, v>>},
           following' = [following EXCEPT ![u] = @ + by], followers' = [followers EXCEPT ![v] = @ + by],
           UNCHANGED <<tweet, like, mark, feed, likes, marks, children, owed, lost>>
    PROVE  TInv'
<1>b. /\ following' \in [Readers -> Int] /\ followers' \in [Readers -> Int]
      /\ \A w \in Readers : following'[w] = IF w = u THEN following[u] + by ELSE following[w]
      /\ \A w \in Readers : followers'[w] = IF w = v THEN followers[v] + by ELSE followers[w]
    <2>1. following \in [Readers -> Int] /\ followers \in [Readers -> Int] /\ by \in Int
        BY PartsOf DEF Counts
    <2>2. following[u] + by \in Int /\ followers[v] + by \in Int
        BY <2>1
    <2> QED BY <2>1, <2>2, Bumped
<1>1. T!TypeOK'
    <2>1. tweet' \in [Tweets -> TweetDoc] /\ Marking'
        BY PartsOf DEF Marking
    <2>2. follow' \subseteq Readers \X Readers
        BY PartsOf DEF Sets
    <2>3. Sets' /\ Counts'
        BY <1>b, <2>2, PartsOf DEF Sets, Counts
    <2> QED BY <2>1, <2>3, PartsNext
<1>2. Owing' /\ T!NothingLeft' /\ Untouched'
    BY DEF TInv, Owing, T!NothingLeft, T!Live, Untouched
<1>3. LikesCounted' /\ KidsCounted' /\ MarksCounted'
    BY SameLikes, SameKids, SameMarks DEF TInv
<1>5. FollowerSet(v) \in SUBSET Readers /\ FollowingSet(u) \in SUBSET Readers
    BY DEF FollowerSet, FollowingSet
<1>6. /\ \A w \in Readers \ {u} : FollowingSet(w)' = FollowingSet(w)
      /\ \A w \in Readers \ {v} : FollowerSet(w)' = FollowerSet(w)
    BY DEF FollowerSet, FollowingSet
<1>7. /\ Cardinality(FollowingSet(u)') = Cardinality(FollowingSet(u)) + by
      /\ Cardinality(FollowerSet(v)') = Cardinality(FollowerSet(v)) + by
    <2>1. CASE by = 1
        <3>1. FollowingSet(u)' = FollowingSet(u) \cup {v} /\ v \notin FollowingSet(u)
            BY <2>1 DEF FollowingSet
        <3>2. FollowerSet(v)' = FollowerSet(v) \cup {u} /\ u \notin FollowerSet(v)
            BY <2>1 DEF FollowerSet
        <3> QED BY <2>1, <3>1, <3>2, <1>5, Sized, OneMore
    <2>2. CASE by = -1
        <3>1. FollowingSet(u)' = FollowingSet(u) \ {v} /\ v \in FollowingSet(u)
            BY <2>2 DEF FollowingSet
        <3>2. FollowerSet(v)' = FollowerSet(v) \ {u} /\ u \in FollowerSet(v)
            BY <2>2 DEF FollowerSet
        <3>3. Cardinality(FollowingSet(u)') = Cardinality(FollowingSet(u)) - 1
            BY <3>1, <1>5, Sized, OneLess
        <3>4. Cardinality(FollowerSet(v)') = Cardinality(FollowerSet(v)) - 1
            BY <3>2, <1>5, Sized, OneLess
        <3>5. Cardinality(FollowingSet(u)) \in Nat /\ Cardinality(FollowerSet(v)) \in Nat
            BY <1>5, Sized
        <3> QED BY <2>2, <3>3, <3>4, <3>5
    <2> QED BY <2>1, <2>2
<1>8. FollowsCounted'
    <2>1. ASSUME NEW w \in Readers
          PROVE  followers'[w] = Cardinality(FollowerSet(w)') /\ following'[w] = Cardinality(FollowingSet(w)')
        <3>1. followers[w] = Cardinality(FollowerSet(w)) /\ following[w] = Cardinality(FollowingSet(w))
              /\ followers[w] \in Int /\ following[w] \in Int
            BY PartsOf DEF TInv, FollowsCounted, Counts
        <3>2. followers'[w] = Cardinality(FollowerSet(w)')
            BY <1>b, <1>6, <1>7, <3>1
        <3>3. following'[w] = Cardinality(FollowingSet(w)')
            BY <1>b, <1>6, <1>7, <3>1
        <3> QED BY <3>2, <3>3
    <2> QED BY <2>1 DEF FollowsCounted
<1> QED BY <1>1, <1>2, <1>3, <1>8 DEF TInv

LEMMA BookmarkInv ==
    ASSUME TInv, NEW u \in Readers, NEW t \in Tweets, T!Bookmark(u, t)
    PROVE  TInv'
<1>0. /\ tweet[t].st # "absent" /\ <<u, t>> \notin mark /\ owed[u] = T!Nothing
      /\ mark' = mark \cup {<<u, t>>} /\ owed' = [owed EXCEPT ![u] = <<t, 1>>]
      /\ UNCHANGED <<tweet, like, feed, follow, likes, marks, children, followers, following, lost>>
    BY DEF T!Bookmark
<1>a. /\ Marking' /\ \A v \in Readers : owed'[v] = IF v = u THEN <<t, 1>> ELSE owed[v]
    BY <1>0, PartsOf DEF Marking
<1>1. T!TypeOK'
    <2>1. tweet' \in [Tweets -> TweetDoc] /\ Sets'
        BY <1>0, PartsOf DEF Sets
    <2>2. Counts'
        BY <1>0, PartsOf DEF Counts
    <2> QED BY <1>a, <2>1, <2>2, PartsNext
<1>2. Owing' /\ T!NothingLeft'
    BY <1>0, <1>a DEF TInv, Owing, T!NothingLeft, T!Live, T!Nothing
<1>3. Untouched'
    BY <1>0, <1>a DEF TInv, Untouched
<1>4. MarksCounted'
    <2> SUFFICES ASSUME NEW s \in Tweets, T!Live(s)', s \notin lost'
                 PROVE  marks'[s] = Cardinality(MarkSet(s)') - Cardinality(OwedSet(s, 1)') + Cardinality(OwedSet(s, -1)')
        BY DEF MarksCounted
    <2>1. marks'[s] = Cardinality(MarkSet(s)) - Cardinality(OwedSet(s, 1)) + Cardinality(OwedSet(s, -1))
        BY <1>0 DEF TInv, MarksCounted, T!Live
    <2>2. OwedSet(s, -1)' = OwedSet(s, -1) /\ OwedSet(s, -1) \in SUBSET Readers
        BY <1>0, <1>a DEF OwedSet, T!Nothing
    <2>3. CASE s = t
        <3>1. OwedSet(s, 1)' = OwedSet(s, 1) \cup {u} /\ u \notin OwedSet(s, 1) /\ OwedSet(s, 1) \in SUBSET Readers
            BY <1>0, <1>a, <2>3 DEF OwedSet, T!Nothing
        <3>2. MarkSet(s)' = MarkSet(s) \cup {u} /\ u \notin MarkSet(s) /\ MarkSet(s) \in SUBSET Readers
            BY <1>0, <2>3 DEF MarkSet
        <3>3. Cardinality(OwedSet(s, 1)') = Cardinality(OwedSet(s, 1)) + 1
            BY <3>1, Sized, OneMore
        <3>4. Cardinality(MarkSet(s)') = Cardinality(MarkSet(s)) + 1
            BY <3>2, Sized, OneMore
        <3> QED BY <2>1, <2>2, <3>1, <3>2, <3>3, <3>4, Sized
    <2>4. CASE s # t
        <3>1. OwedSet(s, 1)' = OwedSet(s, 1)
            BY <1>0, <1>a, <2>4 DEF OwedSet, T!Nothing
        <3>2. MarkSet(s)' = MarkSet(s)
            BY <1>0, <2>4 DEF MarkSet
        <3> QED BY <2>1, <2>2, <3>1, <3>2
    <2> QED BY <2>3, <2>4
<1>5. LikesCounted' /\ KidsCounted' /\ FollowsCounted'
    BY <1>0, SameLikes, SameKids, SameFollows DEF TInv
<1> QED BY <1>1, <1>2, <1>3, <1>4, <1>5 DEF TInv

LEMMA UnbookmarkInv ==
    ASSUME TInv, NEW u \in Readers, NEW t \in Tweets, T!Unbookmark(u, t)
    PROVE  TInv'
<1>0. /\ <<u, t>> \in mark /\ owed[u] = T!Nothing
      /\ mark' = mark \ {<<u, t>>} /\ owed' = [owed EXCEPT ![u] = <<t, -1>>]
      /\ UNCHANGED <<tweet, like, feed, follow, likes, marks, children, followers, following, lost>>
    BY DEF T!Unbookmark
<1>a. /\ Marking' /\ \A v \in Readers : owed'[v] = IF v = u THEN <<t, -1>> ELSE owed[v]
    BY <1>0, PartsOf DEF Marking
<1>b. tweet[t].st # "absent"
    BY <1>0 DEF TInv, Untouched
<1>1. T!TypeOK'
    <2>1. tweet' \in [Tweets -> TweetDoc] /\ Sets'
        BY <1>0, PartsOf DEF Sets
    <2>2. Counts'
        BY <1>0, PartsOf DEF Counts
    <2> QED BY <1>a, <2>1, <2>2, PartsNext
<1>2. Owing' /\ T!NothingLeft'
    BY <1>0, <1>a DEF TInv, Owing, T!NothingLeft, T!Live, T!Nothing
<1>3. Untouched'
    BY <1>0, <1>a, <1>b DEF TInv, Untouched
<1>4. MarksCounted'
    <2> SUFFICES ASSUME NEW s \in Tweets, T!Live(s)', s \notin lost'
                 PROVE  marks'[s] = Cardinality(MarkSet(s)') - Cardinality(OwedSet(s, 1)') + Cardinality(OwedSet(s, -1)')
        BY DEF MarksCounted
    <2>1. marks'[s] = Cardinality(MarkSet(s)) - Cardinality(OwedSet(s, 1)) + Cardinality(OwedSet(s, -1))
        BY <1>0 DEF TInv, MarksCounted, T!Live
    <2>2. OwedSet(s, 1)' = OwedSet(s, 1) /\ OwedSet(s, 1) \in SUBSET Readers
        BY <1>0, <1>a DEF OwedSet, T!Nothing
    <2>3. CASE s = t
        <3>1. OwedSet(s, -1)' = OwedSet(s, -1) \cup {u} /\ u \notin OwedSet(s, -1) /\ OwedSet(s, -1) \in SUBSET Readers
            BY <1>0, <1>a, <2>3 DEF OwedSet, T!Nothing
        <3>2. MarkSet(s)' = MarkSet(s) \ {u} /\ u \in MarkSet(s) /\ MarkSet(s) \in SUBSET Readers
            BY <1>0, <2>3 DEF MarkSet
        <3>3. Cardinality(OwedSet(s, -1)') = Cardinality(OwedSet(s, -1)) + 1
            BY <3>1, Sized, OneMore
        <3>4. Cardinality(MarkSet(s)') = Cardinality(MarkSet(s)) - 1
            BY <3>2, Sized, OneLess
        <3> QED BY <2>1, <2>2, <3>1, <3>2, <3>3, <3>4, Sized
    <2>4. CASE s # t
        <3>1. OwedSet(s, -1)' = OwedSet(s, -1)
            BY <1>0, <1>a, <2>4 DEF OwedSet, T!Nothing
        <3>2. MarkSet(s)' = MarkSet(s)
            BY <1>0, <2>4 DEF MarkSet
        <3> QED BY <2>1, <2>2, <3>1, <3>2
    <2> QED BY <2>3, <2>4
<1>5. LikesCounted' /\ KidsCounted' /\ FollowsCounted'
    BY <1>0, SameLikes, SameKids, SameFollows DEF TInv
<1> QED BY <1>1, <1>2, <1>3, <1>4, <1>5 DEF TInv

\* The second write, or a crash before it.
LEMMA PaidInv ==
    ASSUME TInv, NEW u \in Readers, T!CountMark(u) \/ T!DieMarking(u)
    PROVE  TInv'
<1>0. /\ owed[u] # T!Nothing /\ owed' = [owed EXCEPT ![u] = T!Nothing]
      /\ UNCHANGED <<tweet, like, mark, feed, follow, likes, children, followers, following>>
    BY DEF T!CountMark, T!DieMarking
<1>1. PICK t \in Tweets, d \in {1, -1} : owed[u] = <<t, d>>
    BY <1>0 DEF TInv, Owing
<1>2. \/ lost' = lost /\ marks' = IF T!Live(t) THEN [marks EXCEPT ![t] = @ + d] ELSE marks
      \/ lost' = lost \cup {t} /\ marks' = marks
    <2>1. owed[u][1] = t /\ owed[u][2] = d
        BY <1>1
    <2> QED BY <2>1 DEF T!CountMark, T!DieMarking, T!BumpIf, T!Bump
<1>3. /\ marks' \in [Tweets -> Int] /\ \A s \in Tweets \ {t} : marks'[s] = marks[s]
      /\ T!Live(t) => t \in lost' \/ marks'[t] = marks[t] + d
      /\ ~T!Live(t) => marks'[t] = marks[t]
    <2>1. marks \in [Tweets -> Int] /\ marks[t] + d \in Int
        BY PartsOf DEF Counts
    <2> QED BY <1>2, <2>1, Bumped
<1>4. Marking' /\ \A v \in Readers : owed'[v] = IF v = u THEN T!Nothing ELSE owed[v]
    BY <1>0, PartsOf DEF Marking, T!Nothing
<1>5. T!TypeOK'
    <2>1. tweet' \in [Tweets -> TweetDoc] /\ Sets'
        BY <1>0, <1>2, PartsOf DEF Sets
    <2>2. Counts'
        BY <1>0, <1>3, PartsOf DEF Counts
    <2> QED BY <1>4, <2>1, <2>2, PartsNext
<1>6. Owing' /\ T!NothingLeft'
    BY <1>0, <1>4 DEF TInv, Owing, T!NothingLeft, T!Live
<1>7. Untouched'
    <2>1. \A s \in Tweets : T!Nothing[1] # s
        BY TimelineConstants DEF T!Nothing
    <2>2. \A s \in Tweets : tweet[s].st = "absent" => marks'[s] = marks[s]
        BY <1>3 DEF T!Live
    <2> QED BY <1>0, <1>4, <2>1, <2>2 DEF TInv, Untouched
<1>8. MarksCounted'
    <2> SUFFICES ASSUME NEW s \in Tweets, T!Live(s)', s \notin lost'
                 PROVE  marks'[s] = Cardinality(MarkSet(s)') - Cardinality(OwedSet(s, 1)') + Cardinality(OwedSet(s, -1)')
        BY DEF MarksCounted
    <2>1. marks[s] = Cardinality(MarkSet(s)) - Cardinality(OwedSet(s, 1)) + Cardinality(OwedSet(s, -1)) /\ T!Live(s)
        BY <1>0, <1>2 DEF TInv, MarksCounted, T!Live
    <2>2. MarkSet(s)' = MarkSet(s)
        BY <1>0 DEF MarkSet
    <2>3. \A e \in {1, -1} : T!Nothing # <<s, e>>
        BY TimelineConstants DEF T!Nothing
    <2>4. CASE s = t
        <3>1. OwedSet(s, d)' = OwedSet(s, d) \ {u} /\ u \in OwedSet(s, d) /\ OwedSet(s, d) \in SUBSET Readers
            BY <1>1, <1>4, <2>3, <2>4 DEF OwedSet
        <3>2. Cardinality(OwedSet(s, d)') = Cardinality(OwedSet(s, d)) - 1
            BY <3>1, Sized, OneLess
        <3>3. \A e \in {1, -1} : e # d => OwedSet(s, e)' = OwedSet(s, e)
            BY <1>1, <1>4, <2>3 DEF OwedSet
        <3>4. /\ MarkSet(s) \in SUBSET Readers
              /\ \A e \in {1, -1} : OwedSet(s, e) \in SUBSET Readers
            BY DEF MarkSet, OwedSet
        <3>5. /\ Cardinality(MarkSet(s)) \in Nat
              /\ \A e \in {1, -1} : Cardinality(OwedSet(s, e)) \in Nat
            BY <3>4, Sized
        <3>6. marks'[s] = marks[s] + d
            BY <1>3, <2>1, <2>4
        <3>7. CASE d = 1
            BY <2>1, <2>2, <3>2, <3>3, <3>5, <3>6, <3>7
        <3>8. CASE d = -1
            BY <2>1, <2>2, <3>2, <3>3, <3>5, <3>6, <3>8
        <3> QED BY <3>7, <3>8
    <2>5. CASE s # t
        <3>1. \A e \in {1, -1} : OwedSet(s, e)' = OwedSet(s, e)
            BY <1>1, <1>4, <2>3, <2>5 DEF OwedSet
        <3> QED BY <1>3, <2>1, <2>2, <2>5, <3>1
    <2> QED BY <2>4, <2>5
<1>9. LikesCounted' /\ KidsCounted' /\ FollowsCounted'
    BY <1>0, SameLikes, SameKids, SameFollows DEF TInv
<1> QED BY <1>5, <1>6, <1>7, <1>8, <1>9 DEF TInv

\* A count of a tweet's children, where there is one.
LEMMA BumpedChild ==
    ASSUME NEW X, NEW Y, NEW f \in [X \X Y -> Int], NEW p \in X, NEW k \in Y, NEW v \in Int
    PROVE  /\ [f EXCEPT ![<<p, k>>] = v] \in [X \X Y -> Int]
           /\ \A s \in X, j \in Y :
                [f EXCEPT ![<<p, k>>] = v][<<s, j>>] = IF s = p /\ j = k THEN v ELSE f[<<s, j>>]
OBVIOUS

\* A new tweet has no likes, bookmarks or children yet, and counts as a child.
LEMMA PostInv ==
    ASSUME TInv, NEW u \in Readers, NEW t \in Tweets,
           NEW kind \in T!Counted \cup {"tweet"}, NEW parent \in Tweets \cup {T!NoParent},
           T!Post(u, t, kind, parent)
    PROVE  TInv'
<1> DEFINE doc == [st |-> "live", kind |-> kind, by |-> u, parent |-> parent]
<1>0. /\ tweet[t] = T!Absent /\ parent # t /\ (kind = "tweet" <=> parent = T!NoParent)
      /\ (parent # T!NoParent => tweet[parent].st # "absent")
      /\ tweet' = [tweet EXCEPT ![t] = doc]
      /\ children' = IF parent \in Tweets /\ T!Live(parent)
                      THEN [children EXCEPT ![<<parent, kind>>] = children[<<parent, kind>>] + 1] ELSE children
      /\ feed' = feed \cup {<<v, t>> : v \in {u} \cup {w \in Readers : <<w, u>> \in follow}}
      /\ UNCHANGED <<like, mark, follow, likes, marks, followers, following, owed, lost>>
    BY TimelineConstants DEF T!Post, T!BumpIf, T!Bump
<1>d. doc \in TweetDoc /\ doc.st = "live" /\ doc.parent = parent /\ doc.kind = kind
    BY DEF TweetDoc
<1> HIDE DEF doc
<1>1. tweet' \in [Tweets -> TweetDoc] /\ \A c \in Tweets : tweet'[c] = IF c = t THEN doc ELSE tweet[c]
    BY <1>0, <1>d, PartsOf
<1>e. \A f : f \in feed' => f \in feed \/ (f[2] = t /\ f \in Readers \X Tweets)
    <2>1. \A f \in {<<v, t>> : v \in {u} \cup {w \in Readers : <<w, u>> \in follow}} :
            f[2] = t /\ f \in Readers \X Tweets
        <3> SUFFICES ASSUME NEW v \in {u} \cup {w \in Readers : <<w, u>> \in follow}
                     PROVE  <<v, t>>[2] = t /\ <<v, t>> \in Readers \X Tweets
            BY Zenon
        <3> QED OBVIOUS
    <2> QED BY <1>0, <2>1
<1>2. /\ tweet[t].st = "absent" /\ ~T!Live(t)
      /\ \A c \in Tweets : T!Live(c)' <=> T!Live(c) \/ c = t
    <2>1. tweet[t].st = "absent"
        <3>1. T!Absent.st = "absent"
            BY DEF T!Absent
        <3> QED BY <1>0, <3>1, Zenon
    <2>2. \A c \in Tweets : T!Live(c)' <=> IF c = t THEN doc.st = "live" ELSE T!Live(c)
        BY <1>1 DEF T!Live
    <2> QED BY <1>d, <2>1, <2>2 DEF T!Live
<1>3. /\ children' \in [Tweets \X T!Counted -> Int]
      /\ \A s \in Tweets, k \in T!Counted :
            children'[<<s, k>>] = IF T!Live(s) /\ s = parent /\ k = kind THEN children[<<s, k>>] + 1 ELSE children[<<s, k>>]
    <2>1. CASE parent \in Tweets /\ T!Live(parent)
        <3>1. kind \in T!Counted
            BY <1>0, <2>1, TimelineConstants
        <3>2. children[<<parent, kind>>] + 1 \in Int
            BY <2>1, <3>1, PartsOf DEF Counts
        <3>3. PICK v \in Int : v = children[<<parent, kind>>] + 1
            BY <3>2
        <3>4. children' = [children EXCEPT ![<<parent, kind>>] = v]
            BY <1>0, <2>1, <3>3
        <3>5. children \in [Tweets \X T!Counted -> Int]
            BY PartsOf DEF Counts
        <3>6. /\ children' \in [Tweets \X T!Counted -> Int]
              /\ \A s \in Tweets, j \in T!Counted :
                    children'[<<s, j>>] = IF s = parent /\ j = kind THEN v ELSE children[<<s, j>>]
            BY <2>1, <3>1, <3>3, <3>4, <3>5, BumpedChild
        <3> QED BY <2>1, <3>3, <3>6
    <2>2. CASE ~(parent \in Tweets /\ T!Live(parent))
        BY <1>0, <2>2, PartsOf DEF Counts
    <2> QED BY <2>1, <2>2
<1>4. T!TypeOK'
    <2>1. feed' \subseteq Readers \X Tweets
        BY <1>e, PartsOf DEF Sets
    <2>2. Sets' /\ Marking'
        BY <1>0, <2>1, PartsOf DEF Sets, Marking
    <2>3. Counts'
        BY <1>0, <1>3, PartsOf DEF Counts
    <2> QED BY <1>1, <2>2, <2>3, PartsNext
<1>5. Owing'
    BY <1>0 DEF TInv, Owing
<1>6. Untouched'
    <2> SUFFICES ASSUME NEW s \in Tweets, tweet'[s].st = "absent"
                 PROVE  /\ likes'[s] = 0 /\ marks'[s] = 0 /\ \A k \in T!Counted : children'[<<s, k>>] = 0
                        /\ \A v \in Readers : <<v, s>> \notin like' \cup mark' /\ owed'[v][1] # s
                        /\ \A c \in Tweets : tweet'[c].parent # s
        BY DEF Untouched
    <2>1. s # t /\ tweet[s].st = "absent" /\ ~T!Live(s)
        BY <1>1, <1>d DEF T!Live
    <2>2. parent # s
        BY <1>0, <2>1, TimelineConstants
    <2> QED BY <1>0, <1>1, <1>d, <1>3, <2>1, <2>2 DEF TInv, Untouched
<1>7. T!NothingLeft'
    <2>1. \A f \in feed' : T!Live(f[2])'
        <3>1. \A f \in feed : f[2] \in Tweets /\ T!Live(f[2])
            BY PartsOf DEF Sets, TInv, T!NothingLeft
        <3>2. \A f \in feed' : f \in feed \/ f[2] = t
            BY <1>e
        <3> QED BY <1>2, <3>1, <3>2
    <2>2. \A l \in like' : T!Live(l[2])' \/ tweet'[l[2]].st = "undone"
        <3>1. \A l \in like : l[2] \in Tweets /\ (T!Live(l[2]) \/ tweet[l[2]].st = "undone")
            BY PartsOf DEF Sets, TInv, T!NothingLeft
        <3> QED BY <1>0, <1>1, <1>2, <3>1
    <2> QED BY <2>1, <2>2 DEF T!NothingLeft
<1>8. /\ likes[t] = 0 /\ marks[t] = 0 /\ LikeSet(t) = {} /\ MarkSet(t) = {}
      /\ \A d \in {1, -1} : OwedSet(t, d) = {}
      /\ \A k \in T!Counted : children'[<<t, k>>] = 0 /\ Kids(t, k)' = {}
    <2>1. /\ likes[t] = 0 /\ marks[t] = 0 /\ \A k \in T!Counted : children[<<t, k>>] = 0
          /\ \A v \in Readers : <<v, t>> \notin like \cup mark /\ owed[v][1] # t
          /\ \A c \in Tweets : tweet[c].parent # t
        BY <1>2 DEF TInv, Untouched
    <2>2. LikeSet(t) = {} /\ MarkSet(t) = {}
        BY <2>1 DEF LikeSet, MarkSet
    <2>3. \A d \in {1, -1} : OwedSet(t, d) = {}
        <3>1. \A d : <<t, d>>[1] = t
            OBVIOUS
        <3>2. \A d : \A v \in Readers : owed[v] # <<t, d>>
            BY <2>1, <3>1
        <3> QED BY <3>2 DEF OwedSet
    <2>4. \A k \in T!Counted : children'[<<t, k>>] = 0
        BY <1>0, <1>3, <2>1
    <2>5. \A k \in T!Counted : Kids(t, k)' = {}
        BY <1>0, <1>1, <1>d, <2>1 DEF Kids
    <2> QED BY <2>1, <2>2, <2>3, <2>4, <2>5
<1>9. Cardinality({}) = 0
    BY FS_EmptySet
<1>10. LikesCounted'
    <2> SUFFICES ASSUME NEW s \in Tweets, T!Live(s)' PROVE likes'[s] = Cardinality(LikeSet(s)')
        BY DEF LikesCounted
    <2>1. LikeSet(s)' = LikeSet(s) /\ likes'[s] = likes[s]
        BY <1>0 DEF LikeSet
    <2> QED BY <1>2, <1>8, <1>9, <2>1 DEF TInv, LikesCounted
<1>11. MarksCounted'
    <2> SUFFICES ASSUME NEW s \in Tweets, T!Live(s)', s \notin lost'
                 PROVE  marks'[s] = Cardinality(MarkSet(s)') - Cardinality(OwedSet(s, 1)') + Cardinality(OwedSet(s, -1)')
        BY DEF MarksCounted
    <2>1. MarkSet(s)' = MarkSet(s) /\ OwedSet(s, 1)' = OwedSet(s, 1) /\ OwedSet(s, -1)' = OwedSet(s, -1)
          /\ marks'[s] = marks[s] /\ lost' = lost
        BY <1>0 DEF MarkSet, OwedSet
    <2> QED BY <1>2, <1>8, <1>9, <2>1 DEF TInv, MarksCounted
<1>12. KidsCounted'
    <2> SUFFICES ASSUME NEW s \in Tweets, T!Live(s)', NEW k \in T!Counted
                 PROVE  children'[<<s, k>>] = Cardinality(Kids(s, k)')
        BY DEF KidsCounted
    <2>1. CASE s = t
        BY <1>8, <1>9, <2>1
    <2>2. CASE s # t
        <3>1. T!Live(s) /\ children[<<s, k>>] = Cardinality(Kids(s, k))
            BY <1>2, <2>2 DEF TInv, KidsCounted
        <3>2. Kids(s, k) \in SUBSET Tweets /\ t \notin Kids(s, k)
            BY <1>2 DEF Kids
        <3>3. CASE s = parent /\ k = kind
            <4>1. Kids(s, k)' = Kids(s, k) \cup {t}
                BY <1>1, <1>2, <1>d, <3>3 DEF Kids
            <4> QED BY <1>3, <3>1, <3>2, <3>3, <4>1, Sized, OneMore
        <3>4. CASE ~(s = parent /\ k = kind)
            <4>1. Kids(s, k)' = Kids(s, k)
                BY <1>1, <1>2, <1>d, <3>4 DEF Kids
            <4> QED BY <1>3, <3>1, <3>4, <4>1
        <3> QED BY <3>3, <3>4
    <2> QED BY <2>1, <2>2
<1>13. FollowsCounted'
    BY <1>0, SameFollows DEF TInv
<1> QED BY <1>4, <1>5, <1>6, <1>7, <1>10, <1>11, <1>12, <1>13 DEF TInv

\* One child less for a parent that is there.
LEMMA ChildGone ==
    ASSUME TInv, NEW p, NEW k, NEW v \in Int,
           p \in Tweets /\ T!Live(p) /\ k \in T!Counted => v = children[<<p, k>>] - 1,
           children' = IF p \in Tweets /\ T!Live(p) THEN [children EXCEPT ![<<p, k>>] = v] ELSE children
    PROVE  /\ children' \in [Tweets \X T!Counted -> Int]
           /\ \A s \in Tweets, j \in T!Counted : T!Live(s) =>
                children'[<<s, j>>] = IF s = p /\ j = k THEN children[<<s, j>>] - 1 ELSE children[<<s, j>>]
           /\ \A s \in Tweets, j \in T!Counted : ~T!Live(s) => children'[<<s, j>>] = children[<<s, j>>]
<1>1. children \in [Tweets \X T!Counted -> Int]
    BY PartsOf DEF Counts
<1>2. CASE p \in Tweets /\ T!Live(p) /\ k \in T!Counted
    <2>1. /\ children' \in [Tweets \X T!Counted -> Int]
          /\ \A s \in Tweets, j \in T!Counted :
                children'[<<s, j>>] = IF s = p /\ j = k THEN v ELSE children[<<s, j>>]
        BY <1>1, <1>2, BumpedChild
    <2> QED BY <1>2, <2>1
<1>3. CASE ~(p \in Tweets /\ T!Live(p) /\ k \in T!Counted)
    <2>1. children' = children
        <3>1. CASE p \in Tweets /\ T!Live(p)
            <4>1. <<p, k>> \notin Tweets \X T!Counted
                BY <1>3, <3>1
            <4> QED BY <1>1, <3>1, <4>1
        <3>2. CASE ~(p \in Tweets /\ T!Live(p))
            BY <3>2
        <3> QED BY <3>1, <3>2
    <2> QED BY <1>1, <1>3, <2>1
<1> QED BY <1>2, <1>3

\* Of a retweet that is deleted or undone nothing is left where it counted.
LEMMA GoneInv ==
    ASSUME TInv, NEW t \in Tweets, T!Live(t), NEW st \in {"deleted", "undone"},
           NEW v \in Int,
           tweet[t].parent \in Tweets /\ T!Live(tweet[t].parent) /\ tweet[t].kind \in T!Counted =>
               v = children[<<tweet[t].parent, tweet[t].kind>>] - 1,
           children' = IF tweet[t].parent \in Tweets /\ T!Live(tweet[t].parent)
                       THEN [children EXCEPT ![<<tweet[t].parent, tweet[t].kind>>] = v] ELSE children,
           tweet' = [tweet EXCEPT ![t].st = st],
           like' \subseteq like, mark' \subseteq mark, feed' \subseteq feed,
           \A f \in feed' : f[2] # t,
           st = "deleted" => \A l \in like' : l[2] # t,
           \A s \in Tweets \ {t}, u \in Readers :
                (<<u, s>> \in like' <=> <<u, s>> \in like) /\ (<<u, s>> \in mark' <=> <<u, s>> \in mark),
           UNCHANGED <<follow, likes, marks, followers, following, owed, lost>>
    PROVE  TInv'
<1>1. PICK p, k : p = tweet[t].parent /\ k = tweet[t].kind
    OBVIOUS
<1>2. /\ children' \in [Tweets \X T!Counted -> Int]
      /\ \A s \in Tweets, j \in T!Counted : T!Live(s) =>
            children'[<<s, j>>] = IF s = p /\ j = k THEN children[<<s, j>>] - 1 ELSE children[<<s, j>>]
      /\ \A s \in Tweets, j \in T!Counted : ~T!Live(s) => children'[<<s, j>>] = children[<<s, j>>]
    <2>1. /\ p \in Tweets /\ T!Live(p) /\ k \in T!Counted => v = children[<<p, k>>] - 1
          /\ children' = IF p \in Tweets /\ T!Live(p) THEN [children EXCEPT ![<<p, k>>] = v] ELSE children
        BY <1>1, Zenon
    <2> QED BY <2>1, ChildGone
<1>3. KidsCounted'
    <2>1. \A s \in Tweets, j \in T!Counted : T!Live(s) =>
            children'[<<s, j>>] =
                IF s = tweet[t].parent /\ j = tweet[t].kind
                THEN children[<<s, j>>] - 1 ELSE children[<<s, j>>]
        BY <1>1, <1>2
    <2> QED BY <1>2, <2>1, GoneKids
<1>4. /\ LikesCounted' /\ MarksCounted' /\ Untouched' /\ Owing' /\ tweet' \in [Tweets -> TweetDoc]
      /\ \A c \in Tweets : /\ T!Live(c)' <=> T!Live(c) /\ c # t
                           /\ tweet'[c].st = IF c = t THEN st ELSE tweet[c].st
    <2>1. UNCHANGED <<likes, marks, owed, lost>>
        OBVIOUS
    <2>2. \A s \in Tweets, j \in T!Counted : ~T!Live(s) => children'[<<s, j>>] = children[<<s, j>>]
        BY <1>2
    <2> QED BY <2>1, <2>2, GoneRest, Zenon
<1>5. T!TypeOK'
    <2>1. Sets' /\ Marking'
        BY PartsOf DEF Sets, Marking
    <2>2. Counts'
        BY <1>2, PartsOf DEF Counts
    <2> QED BY <1>4, <2>1, <2>2, PartsNext
<1>6. T!NothingLeft'
    <2>1. /\ \A f \in feed : f[2] \in Tweets /\ T!Live(f[2])
          /\ \A l \in like : l[2] \in Tweets /\ (T!Live(l[2]) \/ tweet[l[2]].st = "undone")
        BY PartsOf DEF Sets, TInv, T!NothingLeft
    <2>2. \A f \in feed' : T!Live(f[2])'
        BY <1>4, <2>1
    <2>3. \A l \in like' : T!Live(l[2])' \/ tweet'[l[2]].st = "undone"
        BY <1>4, <2>1
    <2> QED BY <2>2, <2>3 DEF T!NothingLeft
<1>7. FollowsCounted'
    BY SameFollows DEF TInv
<1> QED BY <1>3, <1>4, <1>5, <1>6, <1>7 DEF TInv

LEMMA DeleteTweetInv ==
    ASSUME TInv, NEW u \in Readers, NEW t \in Tweets, T!DeleteTweet(u, t)
    PROVE  TInv'
<1>1. PICK p, k : p = tweet[t].parent /\ k = tweet[t].kind
    OBVIOUS
<1>2. /\ T!Live(t) /\ tweet' = [tweet EXCEPT ![t].st = "deleted"]
      /\ like' = {l \in like : l[2] # t} /\ mark' = {m \in mark : m[2] # t} /\ feed' = {f \in feed : f[2] # t}
      /\ children' = IF p \in Tweets /\ T!Live(p)
                     THEN [children EXCEPT ![<<p, k>>] = children[<<p, k>>] + -1] ELSE children
      /\ UNCHANGED <<follow, likes, marks, followers, following, owed, lost>>
    BY <1>1 DEF T!DeleteTweet, T!BumpIf, T!Bump
<1>3. PICK v \in Int : p \in Tweets /\ k \in T!Counted => v = children[<<p, k>>] + -1
    <2>1. p \in Tweets /\ k \in T!Counted => children[<<p, k>>] + -1 \in Int
        BY PartsOf DEF Counts
    <2> QED BY <2>1
<1>4. children' = IF p \in Tweets /\ T!Live(p) THEN [children EXCEPT ![<<p, k>>] = v] ELSE children
    <2>1. CASE p \in Tweets /\ k \in T!Counted
        BY <1>2, <1>3, <2>1
    <2>2. CASE ~(p \in Tweets /\ k \in T!Counted)
        <3>1. <<p, k>> \notin Tweets \X T!Counted /\ children \in [Tweets \X T!Counted -> Int]
            BY <2>2, PartsOf DEF Counts
        <3> QED BY <1>2, <3>1
    <2> QED BY <2>1, <2>2
<1>5. p \in Tweets /\ T!Live(p) /\ k \in T!Counted => v = children[<<p, k>>] - 1
    BY <1>3, PartsOf DEF Counts
<1>6. /\ like' \subseteq like /\ mark' \subseteq mark /\ feed' \subseteq feed
      /\ \A f \in feed' : f[2] # t
      /\ \A l \in like' : l[2] # t
      /\ \A s \in Tweets \ {t}, w \in Readers :
            (<<w, s>> \in like' <=> <<w, s>> \in like) /\ (<<w, s>> \in mark' <=> <<w, s>> \in mark)
    BY <1>2
<1> QED BY <1>1, <1>2, <1>4, <1>5, <1>6, GoneInv

\* The retweet it undoes counts for its parent: the count is not zero.
LEMMA UnretweetInv ==
    ASSUME TInv, NEW u \in Readers, NEW t \in Tweets, T!Unretweet(u, t)
    PROVE  TInv'
<1>1. PICK p, k : p = tweet[t].parent /\ k = tweet[t].kind
    OBVIOUS
<1>2. /\ T!Live(t) /\ k = "retweet" /\ tweet' = [tweet EXCEPT ![t].st = "undone"]
      /\ feed' = {f \in feed : f[2] # t}
      /\ children' = IF p \in Tweets /\ T!Live(p)
                     THEN [children EXCEPT ![<<p, k>>] = IF children[<<p, k>>] > 0 THEN children[<<p, k>>] - 1 ELSE 0]
                     ELSE children
      /\ UNCHANGED <<like, mark, follow, likes, marks, followers, following, owed, lost>>
    BY <1>1 DEF T!Unretweet, T!DropIf
<1>3. PICK v \in Int : p \in Tweets => v = IF children[<<p, k>>] > 0 THEN children[<<p, k>>] - 1 ELSE 0
    <2>1. p \in Tweets => (IF children[<<p, k>>] > 0 THEN children[<<p, k>>] - 1 ELSE 0) \in Int
        BY <1>2, PartsOf, TimelineConstants DEF Counts
    <2> QED BY <2>1
<1>4. children' = IF p \in Tweets /\ T!Live(p) THEN [children EXCEPT ![<<p, k>>] = v] ELSE children
    BY <1>2, <1>3
<1>5. p \in Tweets /\ T!Live(p) /\ k \in T!Counted => v = children[<<p, k>>] - 1
    <2> SUFFICES ASSUME p \in Tweets, T!Live(p), k \in T!Counted PROVE v = children[<<p, k>>] - 1
        OBVIOUS
    <2>1. children[<<p, k>>] = Cardinality(Kids(p, k))
        BY DEF TInv, KidsCounted
    <2>2. t \in Kids(p, k) /\ Kids(p, k) \in SUBSET Tweets
        BY <1>1, <1>2 DEF Kids
    <2>3. Cardinality(Kids(p, k) \ {t}) = Cardinality(Kids(p, k)) - 1 /\ Cardinality(Kids(p, k) \ {t}) \in Nat
        BY <2>2, Sized, OneLess
    <2>4. Cardinality(Kids(p, k)) \in Nat
        BY <2>2, Sized
    <2> QED BY <1>3, <2>1, <2>3, <2>4
<1>6. /\ like' \subseteq like /\ mark' \subseteq mark /\ feed' \subseteq feed
      /\ \A f \in feed' : f[2] # t
      /\ \A s \in Tweets \ {t}, w \in Readers :
            (<<w, s>> \in like' <=> <<w, s>> \in like) /\ (<<w, s>> \in mark' <=> <<w, s>> \in mark)
    BY <1>2
<1> QED BY <1>1, <1>2, <1>4, <1>5, <1>6, GoneInv

LEMMA TimelineInit == T!Init => TInv
<1> SUFFICES ASSUME T!Init PROVE TInv
    OBVIOUS
<1>1. \A t \in Tweets : tweet[t] = T!Absent /\ tweet[t].st = "absent" /\ tweet[t].parent = T!NoParent
    BY DEF T!Init, T!Absent
<1>2. T!Absent \in TweetDoc
    BY DEF T!Absent, TweetDoc
<1>3. T!TypeOK
    <2>1. tweet \in [Tweets -> TweetDoc]
        BY <1>2 DEF T!Init
    <2>2. Marking /\ Sets /\ Counts
        BY DEF T!Init, Marking, Sets, Counts, T!Nothing
    <2> QED BY <2>1, <2>2, Parts
<1>4. Owing /\ T!NothingLeft
    BY DEF T!Init, Owing, T!NothingLeft
<1>5. Untouched
    <2>1. \A u \in Readers : owed[u][1] = T!NoParent
        BY DEF T!Init, T!Nothing
    <2>2. \A t \in Tweets : likes[t] = 0 /\ marks[t] = 0 /\ \A k \in T!Counted : children[<<t, k>>] = 0
        BY DEF T!Init
    <2>3. like = {} /\ mark = {}
        BY DEF T!Init
    <2> QED BY <1>1, <2>1, <2>2, <2>3, TimelineConstants DEF Untouched
<1>6. LikesCounted /\ KidsCounted /\ MarksCounted
    BY <1>1 DEF LikesCounted, KidsCounted, MarksCounted, T!Live
<1>7. FollowsCounted
    <2>1. Cardinality({}) = 0
        BY FS_EmptySet
    <2>2. \A u \in Readers : followers[u] = 0 /\ following[u] = 0 /\ FollowerSet(u) = {} /\ FollowingSet(u) = {}
        BY DEF T!Init, FollowerSet, FollowingSet
    <2> QED BY <2>1, <2>2 DEF FollowsCounted
<1> QED BY <1>3, <1>4, <1>5, <1>6, <1>7 DEF TInv

LEMMA TimelineNext ==
    ASSUME TInv, T!Next \/ UNCHANGED timelineVars
    PROVE  TInv'
<1>1. CASE UNCHANGED timelineVars
    <2>1. UNCHANGED <<tweet, like, mark, feed, follow, likes, marks, children, followers, following, owed, lost>>
        BY <1>1 DEF timelineVars
    <2>2. T!TypeOK'
        BY <2>1, PartsOf, PartsNext DEF Marking, Sets, Counts
    <2>3. Owing' /\ Untouched' /\ T!NothingLeft'
        BY <2>1 DEF TInv, Owing, Untouched, T!NothingLeft, T!Live
    <2>4. LikesCounted' /\ KidsCounted' /\ FollowsCounted' /\ MarksCounted'
        BY <2>1, SameLikes, SameKids, SameFollows, SameMarks DEF TInv
    <2> QED BY <2>2, <2>3, <2>4 DEF TInv
<1>2. ASSUME NEW u \in Readers, NEW v \in Readers, T!FollowUser(u, v) PROVE TInv'
    <2>1. PICK by \in {1, -1} : by = 1
        OBVIOUS
    <2>2. /\ <<u, v>> \notin follow /\ follow' = follow \cup {<<u, v>>}
          /\ following' = [following EXCEPT ![u] = @ + by] /\ followers' = [followers EXCEPT ![v] = @ + by]
          /\ UNCHANGED <<tweet, like, mark, feed, likes, marks, children, owed, lost>>
        BY <1>2, <2>1 DEF T!FollowUser, T!Bump
    <2>3. by # -1
        BY <2>1
    <2> QED BY <2>2, <2>3, FollowInv, Zenon
<1>3. ASSUME NEW u \in Readers, NEW v \in Readers, T!UnfollowUser(u, v) PROVE TInv'
    <2>1. PICK by \in {1, -1} : by = -1
        OBVIOUS
    <2>2. /\ <<u, v>> \in follow /\ follow' = follow \ {<<u, v>>}
          /\ following' = [following EXCEPT ![u] = @ + by] /\ followers' = [followers EXCEPT ![v] = @ + by]
          /\ UNCHANGED <<tweet, like, mark, feed, likes, marks, children, owed, lost>>
        BY <1>3, <2>1 DEF T!UnfollowUser, T!Bump
    <2>3. by # 1
        BY <2>1
    <2> QED BY <2>2, <2>3, FollowInv, Zenon
<1> QED BY <1>1, <1>2, <1>3, PostInv, DeleteTweetInv, UnretweetInv, LikeTweetInv, UnlikeTweetInv,
            BookmarkInv, UnbookmarkInv, PaidInv DEF T!Next

-----------------------------------------------------------------------------
(* Inbox: the messages, the notifications and the transactions under way.  *)

ReadDoc == [last: Nat, unread: Nat]
MessageDoc == [conv: Convs, mine: BOOLEAN, directed: BOOLEAN, deleted: BOOLEAN]
Created(m) == [kind |-> "created", msg |-> m]
Deleted(m) == [kind |-> "deleted", msg |-> m]

\* The messages are numbered, a position is a message of its conversation or 0.
Numbered == \E n \in 0..MaxMessages : I!Id = 1..n
At(c, i) == i = 0 \/ i \in I!Of(c)
Known(e) == \E m \in I!Id : e = Created(m) \/ (e = Deleted(m) /\ sent[m].deleted)
Stored ==
    /\ Numbered /\ sent \in [I!Id -> MessageDoc]
    /\ note \in [I!Message -> {"absent", "valid", "invalid"}]
    /\ \A m \in I!Message : note[m] # "absent" => m \in I!Id
Positions ==
    /\ member \subseteq Convs /\ read \in [member -> ReadDoc]
    /\ \A c \in member : At(c, read[c].last)

\* A read under way knows all the notifications it has to withdraw.
Acknowledges(t, c, new) ==
    /\ t.event = {} /\ t.read = {<<c, new>>} /\ <<"read", c>> \in t.docs
    /\ At(c, new.last) /\ new.last >= read[c].last
    /\ \A i \in DOMAIN t.notes : t.notes[i] = "invalid" /\ i \in I!Id
    /\ \A i \in I!Of(c) : note[i] = "valid" /\ joined[c] < i /\ i <= new.last => i \in DOMAIN t.notes

\* A notification is created for a message that is not deleted and not read,
\* and who deletes or reads it meanwhile writes a document this one writes too.
Creates(t, m) ==
    /\ t.read = {} /\ t.event = {Created(m)} /\ DOMAIN t.notes \subseteq {m}
    /\ m \in DOMAIN t.notes =>
        /\ t.notes[m] = "valid" /\ <<"guard", m>> \in t.docs /\ ~sent[m].deleted
        /\ sent[m].conv \in member =>
            \/ joined[sent[m].conv] >= m
            \/ <<"read", sent[m].conv>> \in t.docs /\ read[sent[m].conv].last < m

\* A deletion withdraws the notification there is.
Withdraws(t, m) ==
    /\ t.read = {} /\ t.event = {Deleted(m)} /\ DOMAIN t.notes \subseteq {m} /\ sent[m].deleted
    /\ \A i \in DOMAIN t.notes : t.notes[i] = "invalid"
    /\ note[m] = "valid" => m \in DOMAIN t.notes

Busy(t) ==
    \/ t = I!Idle
    \/ \E c \in member, new \in ReadDoc : Acknowledges(t, c, new)
    \/ \E m \in I!Id : Creates(t, m) \/ Withdraws(t, m)
Engaged == tx = [p \in Process |-> tx[p]] /\ \A p \in Process : Busy(tx[p])

\* A notification that outlives its message has its deletion to come.
Withdrawing == \A m \in I!Id : sent[m].deleted /\ note[m] = "valid" => Deleted(m) \in pending
Events == \A e \in pending : Known(e)
Marks == cutoff \in [Convs -> Nat] /\ joined \in [Convs -> Nat]

NInv == Stored /\ Positions /\ Marks /\ Events /\ Engaged /\ I!ReadNotNotified /\ Withdrawing

Forward == \A c \in member \cap member' : read'[c].last >= read[c].last

LEMMA InboxConstants ==
    MaxMessages \in Nat /\ I!Message = 1..MaxMessages /\ I!Position = 0..MaxMessages
BY ConstantsFit DEF I!InboxAssumption, I!Message, I!Position

LEMMA Documents ==
    \A c, d, m, i : /\ <<"read", c>> = <<"read", d>> <=> c = d
                    /\ <<"guard", m>> = <<"guard", i>> <=> m = i
                    /\ Created(m) # Deleted(i)
                    /\ Created(m).kind = "created" /\ Created(m).msg = m
                    /\ Deleted(m).kind = "deleted" /\ Deleted(m).msg = m
BY DEF Created, Deleted

LEMMA Ids ==
    ASSUME Numbered
    PROVE  I!Id \subseteq I!Message /\ I!Id \subseteq Nat /\ I!Id \in SUBSET Nat /\ 0 \notin I!Id
BY InboxConstants DEF Numbered

LEMMA LatestOf ==
    ASSUME NEW s \in SUBSET I!Message
    PROVE  /\ s = {} => I!Latest(s) = 0
           /\ s # {} => I!Latest(s) \in s
           /\ I!Latest(s) \in Nat
           /\ \A x \in s : x <= I!Latest(s)
<1>1. CASE s = {}
    BY <1>1 DEF I!Latest
<1>2. CASE s # {}
    <2>1. s \in SUBSET Nat /\ \A x \in s : x <= MaxMessages
        BY InboxConstants
    <2>2. \E x \in s : \A y \in s : x >= y
        BY <1>2, <2>1, InboxConstants, Greatest
    <2>3. I!Latest(s) = I!Max(s)
        BY <1>2 DEF I!Latest
    <2>4. I!Max(s) \in s /\ \A y \in s : I!Max(s) >= y
        BY <2>2 DEF I!Max
    <2> QED BY <1>2, <2>1, <2>3, <2>4
<1> QED BY <1>1, <1>2

\* The next message of conversation c is message k.
Grown(c, k) ==
    /\ k = I!NewId /\ k \in I!Message \ I!Id /\ note[k] = "absent"
    /\ I!Id' = I!Id \cup {k} /\ Numbered' /\ sent' \in [I!Id' -> MessageDoc]
    /\ \A m \in I!Id : sent'[m] = sent[m]
    /\ sent'[k].conv = c /\ ~sent'[k].deleted
    /\ I!Of(c)' = I!Of(c) \cup {k}
    /\ \A d \in Convs \ {c} : I!Of(d)' = I!Of(d)

LEMMA PutGrows ==
    ASSUME Stored, NEW c \in Convs, NEW mine \in BOOLEAN, NEW directed \in BOOLEAN, I!Put(c, mine, directed)
    PROVE  \E k : Grown(c, k)
<1>1. PICK n \in 0..MaxMessages : I!Id = 1..n
    BY DEF Stored, Numbered
<1>2. I!NewId = n + 1 /\ n \in Nat
    <2>1. n \in Nat /\ Cardinality(1..n) = n
        BY InboxConstants, FS_Interval
    <2> QED BY <1>1, <2>1, SameCount DEF I!NewId
<1>3. PICK k : k = n + 1
    OBVIOUS
<1> DEFINE doc == [conv |-> c, mine |-> mine, directed |-> directed, deleted |-> FALSE]
<1>4. doc \in MessageDoc /\ doc.conv = c /\ doc.deleted = FALSE
    BY DEF MessageDoc
<1>5. /\ k \in I!Message
      /\ sent' = [m \in I!Id \cup {k} |-> IF m = k THEN doc ELSE sent[m]]
    BY <1>2, <1>3 DEF I!Put
<1> HIDE DEF doc
<1>6. k \notin I!Id /\ I!Id \cup {k} = 1..k /\ k \in 0..MaxMessages
    BY <1>1, <1>2, <1>3, <1>5, InboxConstants
<1>7. I!Id' = I!Id \cup {k} /\ \A m \in I!Id : sent'[m] = sent[m]
    BY <1>5, <1>6 DEF I!Id
<1>8. Numbered'
    BY <1>6, <1>7 DEF Numbered
<1>9. sent' \in [I!Id' -> MessageDoc] /\ sent'[k] = doc
    BY <1>4, <1>5, <1>7 DEF Stored
<1>10. note[k] = "absent"
    BY <1>5, <1>6 DEF Stored
<1>11. \A d \in Convs : I!Of(d)' = IF d = c THEN I!Of(d) \cup {k} ELSE I!Of(d)
    BY <1>4, <1>6, <1>7, <1>9 DEF I!Of
<1> QED BY <1>2, <1>3, <1>4, <1>5, <1>6, <1>7, <1>8, <1>9, <1>10, <1>11 DEF Grown

-----------------------------------------------------------------------------
(* Inbox: requests.                                                        *)

\* What a request in conversation c leaves of the other ones.
Elsewhere(c) ==
    /\ \A d \in Convs \ {c} : /\ (d \in member' <=> d \in member) /\ (d \in member => read'[d] = read[d])
                              /\ joined'[d] = joined[d] /\ cutoff'[d] = cutoff[d]
                              /\ I!Of(d)' = I!Of(d)
    /\ I!Id \subseteq I!Id'
    /\ \A m \in I!Id : sent'[m].conv = sent[m].conv /\ (sent[m].deleted => sent'[m].deleted)
    /\ note' = note

\* A request that writes the read state of c drops what relies on it; one that
\* does not leaves the read state, and the notifications, as they were.
LEMMA Undisturbed ==
    ASSUME NInv, NEW c \in Convs, NEW docs, tx' = I!Kept(docs), Elsewhere(c),
           \A m \in I!Id : sent'[m].deleted => sent[m].deleted \/ <<"guard", m>> \in docs,
           \/ /\ <<"read", c>> \in docs
              /\ \A m \in I!Of(c) : joined[c] >= m \/ c \notin member => joined'[c] >= m \/ c \notin member'
           \/ /\ UNCHANGED <<member, read, joined>>
              /\ \A i \in I!Of(c)' : i \in I!Of(c) \/ note[i] # "valid"
              /\ I!Of(c) \subseteq I!Of(c)'
    PROVE  Engaged'
<1>1. tx' = [p \in Process |-> tx'[p]]
    BY DEF I!Kept
<1>2. ASSUME NEW p \in Process PROVE Busy(tx[p])'
    <2>1. PICK t : t = tx[p]
        OBVIOUS
    <2>2. (tx'[p] = t /\ t.docs \cap docs = {}) \/ tx'[p] = I!Idle
        BY <2>1 DEF I!Kept
    <2>3. CASE tx'[p] = I!Idle \/ t = I!Idle
        <3>1. tx'[p] = I!Idle
            BY <2>2, <2>3
        <3> QED BY <3>1 DEF Busy, I!Idle, I!NoWrites
    <2>4. CASE tx'[p] = t /\ t.docs \cap docs = {} /\ t # I!Idle
        <3>1. ASSUME NEW d \in member, NEW new \in ReadDoc, Acknowledges(t, d, new) PROVE Busy(t)'
            <4>1. d \in Convs
                BY DEF NInv, Positions
            <4>2. d \in member' /\ read'[d] = read[d] /\ joined'[d] = joined[d]
                BY <2>4, <3>1, <4>1 DEF Acknowledges, Elsewhere
            <4>3. At(d, new.last) => At(d, new.last)'
                BY <2>4, <3>1, <4>1 DEF Acknowledges, Elsewhere, At
            <4>4. \A i \in I!Of(d)' : i \in I!Of(d) \/ note[i] # "valid"
                BY <2>4, <3>1, <4>1 DEF Acknowledges, Elsewhere
            <4>5. Acknowledges(t, d, new)'
                BY <3>1, <4>2, <4>3, <4>4 DEF Acknowledges, Elsewhere
            <4> QED BY <4>2, <4>5 DEF Busy
        <3>2. ASSUME NEW m \in I!Id, Creates(t, m) PROVE Busy(t)'
            <4>1. PICK d \in Convs : d = sent[m].conv
                BY DEF NInv, Stored, MessageDoc
            <4>2. sent'[m].conv = d /\ m \in I!Of(d) /\ m \in I!Id'
                BY <4>1 DEF Elsewhere, I!Of
            <4>3. m \in DOMAIN t.notes => ~sent'[m].deleted
                BY <2>4, <3>2 DEF Creates
            <4>4. m \in DOMAIN t.notes /\ d \in member' =>
                    joined'[d] >= m \/ (<<"read", d>> \in t.docs /\ read'[d].last < m)
                <5>1. CASE d # c
                    BY <3>2, <4>1, <5>1 DEF Creates, Elsewhere
                <5>2. CASE d = c
                    BY <2>4, <3>2, <4>1, <4>2, <5>2 DEF Creates
                <5> QED BY <5>1, <5>2
            <4>5. Creates(t, m)'
                BY <3>2, <4>2, <4>3, <4>4 DEF Creates
            <4> QED BY <4>2, <4>5 DEF Busy
        <3>3. ASSUME NEW m \in I!Id, Withdraws(t, m) PROVE Busy(t)'
            <4>1. m \in I!Id' /\ Withdraws(t, m)'
                BY <3>3 DEF Withdraws, Elsewhere
            <4> QED BY <4>1 DEF Busy
        <3>4. Busy(t)
            BY <2>1 DEF NInv, Engaged
        <3>5. Busy(t)'
            BY <2>4, <3>1, <3>2, <3>3, <3>4 DEF Busy
        <3>6. t = tx'[p]
            BY <2>4
        <3> QED BY <3>5, <3>6 DEF Busy
    <2> QED BY <2>2, <2>3, <2>4
<1> QED BY <1>1, <1>2 DEF Engaged

\* The positions after a request in c.
AtNext(c, i) == i = 0 \/ i \in I!Of(c)'
LEMMA Placed ==
    ASSUME NInv, NEW c \in Convs, Elsewhere(c), member' \subseteq Convs,
           DOMAIN read' = member', read' = [d \in member' |-> read'[d]],
           c \in member' => read'[c] \in ReadDoc /\ AtNext(c, read'[c].last)
    PROVE  Positions'
<1>1. ASSUME NEW d \in member' PROVE read'[d] \in ReadDoc /\ AtNext(d, read'[d].last)
    <2>1. CASE d = c
        BY <2>1
    <2>2. CASE d # c
        <3>1. d \in Convs \ {c} /\ d \in member /\ read'[d] = read[d] /\ I!Of(d)' = I!Of(d)
            BY <2>2 DEF Elsewhere
        <3>2. read[d] \in ReadDoc /\ At(d, read[d].last)
            BY <3>1 DEF NInv, Positions
        <3> QED BY <3>1, <3>2 DEF At, AtNext
    <2> QED BY <2>1, <2>2
<1>2. read' \in [member' -> ReadDoc]
    BY <1>1
<1> QED BY <1>1, <1>2 DEF Positions, At, AtNext

\* What is read there has no notification.
LEMMA Unnoted ==
    ASSUME NInv, NEW c \in Convs, Elsewhere(c), member' \subseteq Convs,
           \A m \in I!Of(c)' : c \in member' /\ cutoff'[c] < m /\ joined'[c] < m /\ m <= read'[c].last =>
                note[m] # "valid"
    PROVE  I!ReadNotNotified'
<1>1. ASSUME NEW d \in member', NEW m \in I!Of(d)', cutoff'[d] < m, joined'[d] < m, m <= read'[d].last
      PROVE  note'[m] # "valid"
    <2>1. CASE d = c
        BY <1>1, <2>1 DEF Elsewhere
    <2>2. CASE d # c
        <3>1. d \in Convs \ {c}
            BY <2>2
        <3> QED BY <1>1, <3>1 DEF Elsewhere, NInv, I!ReadNotNotified
    <2> QED BY <2>1, <2>2
<1> QED BY <1>1 DEF I!ReadNotNotified

\* A new message has no notification yet; its event is one of those to come.
LEMMA PutKeeps ==
    ASSUME NInv, NEW c \in Convs, NEW k, Grown(c, k), note' = note,
           \/ pending' = pending
           \/ pending' = pending \cup {Created(k)}
    PROVE  /\ Stored' /\ Events' /\ Withdrawing'
           /\ I!Id \subseteq I!Id'
           /\ \A m \in I!Id : sent'[m].conv = sent[m].conv /\ (sent[m].deleted <=> sent'[m].deleted)
           /\ \A m \in I!Of(c)' : m \in I!Of(c) \/ note[m] # "valid"
<1>1. /\ I!Id \subseteq I!Id' /\ k \in I!Id'
      /\ \A m \in I!Id' : m = k \/ m \in I!Id
      /\ \A m \in I!Id : sent'[m] = sent[m]
    BY DEF Grown
<1>2. Stored'
    BY <1>1 DEF NInv, Stored, Grown
<1>3. Events'
    <2>1. \A e \in pending : Known(e)'
        BY <1>1 DEF NInv, Events, Known, Created, Deleted
    <2>2. Known(Created(k))'
        BY <1>1 DEF Known, Created, Deleted
    <2> QED BY <2>1, <2>2 DEF Events, Known, Created, Deleted
<1>4. Withdrawing'
    BY <1>1 DEF NInv, Withdrawing, Grown, Deleted
<1>5. \A m \in I!Of(c)' : m \in I!Of(c) \/ note[m] # "valid"
    BY DEF Grown
<1> QED BY <1>1, <1>2, <1>3, <1>4, <1>5

LEMMA SendInv ==
    ASSUME NInv, NEW c \in Convs, NEW directed \in BOOLEAN, I!Send(c, directed)
    PROVE  NInv' /\ Forward
<1>1. PICK k : Grown(c, k)
    BY PutGrows DEF I!Send, NInv
<1>2. /\ c \in member /\ read' = [read EXCEPT ![c].unread = @ + 1]
      /\ pending' = pending \cup {Created(k)}
      /\ tx' = I!Kept({<<"read", c>>, <<"summary">>}) /\ UNCHANGED <<member, cutoff, joined, note>>
    BY <1>1 DEF I!Send, Grown, Created
<1>3. /\ Stored' /\ Events' /\ Withdrawing' /\ I!Id \subseteq I!Id'
      /\ \A m \in I!Id : sent'[m].conv = sent[m].conv /\ (sent[m].deleted <=> sent'[m].deleted)
      /\ \A m \in I!Of(c)' : m \in I!Of(c) \/ note[m] # "valid"
    BY <1>1, <1>2, PutKeeps
<1>4. /\ read' \in [member -> ReadDoc] /\ read'[c].last = read[c].last
      /\ \A d \in member \ {c} : read'[d] = read[d]
    BY <1>2 DEF NInv, Positions, ReadDoc
<1>5. Elsewhere(c)
    BY <1>1, <1>2, <1>3, <1>4 DEF Elsewhere, Grown
<1>6. Positions'
    <2>1. AtNext(c, read'[c].last)
        BY <1>1, <1>2, <1>4 DEF NInv, Positions, Grown, At, AtNext
    <2> QED BY <1>2, <1>4, <1>5, <2>1, Placed DEF NInv, Positions
<1>7. Engaged'
    BY <1>2, <1>3, <1>5, Undisturbed
<1>8. I!ReadNotNotified'
    <2>1. \A m \in I!Of(c)' : cutoff'[c] < m /\ joined'[c] < m /\ m <= read'[c].last => note[m] # "valid"
        BY <1>2, <1>3, <1>4 DEF NInv, I!ReadNotNotified
    <2> QED BY <1>2, <1>5, <2>1, Unnoted DEF NInv, Positions
<1>9. Marks'
    BY <1>2 DEF NInv, Marks
<1>10. Forward
    <2>1. \A d \in member : read[d].last \in Nat /\ read'[d].last = read[d].last
        BY <1>4 DEF NInv, Positions, ReadDoc
    <2> QED BY <2>1 DEF Forward
<1> QED BY <1>3, <1>6, <1>7, <1>8, <1>9, <1>10 DEF NInv

\* A request that touches neither the read state nor the notifications.
LEMMA Rested ==
    ASSUME NInv, UNCHANGED <<member, read, cutoff, joined, note>>
    PROVE  Marks' /\ Forward
<1>1. \A d \in member : read[d].last \in Nat
    BY DEF NInv, Positions, ReadDoc
<1> QED BY <1>1 DEF NInv, Marks, Forward

LEMMA SendUncountedInv ==
    ASSUME NInv, NEW c \in Convs, I!SendUncounted(c)
    PROVE  NInv' /\ Forward
<1>1. PICK k : Grown(c, k)
    <2>1. CASE c \in member
        <3>1. I!Put(c, TRUE, FALSE)
            BY <2>1 DEF I!SendUncounted, I!Put
        <3> QED BY <3>1, PutGrows DEF NInv
    <2>2. CASE c \notin member
        <3>1. I!Put(c, FALSE, FALSE)
            <4>1. (c \in member) = FALSE
                BY <2>2
            <4>2. I!Put(c, c \in member, FALSE)
                BY DEF I!SendUncounted
            <4> QED BY <4>1, <4>2, Zenon
        <3> QED BY <3>1, PutGrows DEF NInv
    <2> QED BY <2>1, <2>2
<1>2. UNCHANGED <<member, cutoff, joined, read, note, pending, tx>>
    BY DEF I!SendUncounted
<1>3. /\ Stored' /\ Events' /\ Withdrawing' /\ I!Id \subseteq I!Id'
      /\ \A m \in I!Id : sent'[m].conv = sent[m].conv /\ (sent[m].deleted <=> sent'[m].deleted)
      /\ \A m \in I!Of(c)' : m \in I!Of(c) \/ note[m] # "valid"
    BY <1>1, <1>2, PutKeeps
<1>4. Elsewhere(c)
    BY <1>1, <1>2, <1>3 DEF Elsewhere, Grown
<1>5. Positions'
    <2>1. \A d \in Convs : I!Of(d) \subseteq I!Of(d)'
        BY <1>1 DEF Grown
    <2> QED BY <1>2, <2>1 DEF NInv, Positions, At
<1>6. Engaged'
    <2>1. tx' = I!Kept({})
        BY <1>2 DEF I!Kept, NInv, Engaged
    <2> QED BY <1>1, <1>2, <1>3, <1>4, <2>1, Undisturbed DEF Grown
<1>7. I!ReadNotNotified'
    <2>1. \A m \in I!Of(c)' : c \in member' /\ cutoff'[c] < m /\ joined'[c] < m /\ m <= read'[c].last => note[m] # "valid"
        BY <1>2, <1>3 DEF NInv, I!ReadNotNotified
    <2> QED BY <1>2, <1>4, <2>1, Unnoted DEF NInv, Positions
<1> QED BY <1>2, <1>3, <1>5, <1>6, <1>7, Rested DEF NInv

LEMMA DeleteInv ==
    ASSUME NInv, NEW m \in I!Id, I!Delete(m)
    PROVE  NInv' /\ Forward
<1>1. /\ sent' = [sent EXCEPT ![m].deleted = TRUE] /\ pending' = pending \cup {Deleted(m)}
      /\ tx' = I!Kept({<<"guard", m>>}) /\ UNCHANGED <<member, cutoff, joined, read, note>>
    BY DEF I!Delete, Deleted
<1>2. PICK c \in Convs : c = sent[m].conv
    BY DEF NInv, Stored, MessageDoc
<1>3. /\ sent' \in [I!Id -> MessageDoc] /\ I!Id' = I!Id
      /\ \A i \in I!Id : /\ sent'[i].conv = sent[i].conv
                         /\ sent[i].deleted => sent'[i].deleted
                         /\ sent'[i].deleted => sent[i].deleted \/ i = m
      /\ sent'[m].deleted
    <2>1. sent \in [I!Id -> MessageDoc]
        BY DEF NInv, Stored
    <2>2. PICK doc \in MessageDoc : doc = sent[m]
        BY <2>1
    <2>3. /\ [doc EXCEPT !.deleted = TRUE] \in MessageDoc /\ [doc EXCEPT !.deleted = TRUE].conv = doc.conv
          /\ [doc EXCEPT !.deleted = TRUE].deleted
        BY DEF MessageDoc
    <2>4. sent' = [sent EXCEPT ![m] = [doc EXCEPT !.deleted = TRUE]]
        BY <1>1, <2>2
    <2>5. PICK new \in MessageDoc : new = [doc EXCEPT !.deleted = TRUE]
        BY <2>3
    <2>6. sent' = [sent EXCEPT ![m] = new] /\ new.conv = sent[m].conv /\ new.deleted
        BY <2>2, <2>3, <2>4, <2>5
    <2>7. sent' \in [I!Id -> MessageDoc] /\ \A i \in I!Id : sent'[i] = IF i = m THEN new ELSE sent[i]
        BY <2>1, <2>6
    <2>8. I!Id' = I!Id
        BY <2>7 DEF I!Id
    <2> QED BY <2>6, <2>7, <2>8
<1>4. \A d : I!Of(d)' = I!Of(d)
    BY <1>3 DEF I!Of
<1>5. Elsewhere(c)
    BY <1>1, <1>3, <1>4 DEF Elsewhere
<1>6. Stored'
    BY <1>1, <1>3 DEF NInv, Stored, Numbered
<1>7. Positions'
    BY <1>1, <1>4 DEF NInv, Positions, At
<1>8. Events'
    <2>1. \A e \in pending : Known(e)'
        BY <1>3 DEF NInv, Events, Known, Created, Deleted
    <2>2. Known(Deleted(m))'
        BY <1>3 DEF Known, Created, Deleted
    <2> QED BY <1>1, <2>1, <2>2 DEF Events, Known, Created, Deleted
<1>9. Engaged'
    <2>1. \A i \in I!Id : sent'[i].deleted => sent[i].deleted \/ <<"guard", i>> \in {<<"guard", m>>}
        BY <1>3
    <2>2. \A i \in I!Of(c)' : i \in I!Of(c) \/ note[i] # "valid"
        BY <1>4
    <2> QED BY <1>1, <1>4, <1>5, <2>1, <2>2, Undisturbed
<1>10. I!ReadNotNotified'
    BY <1>1, <1>4 DEF NInv, I!ReadNotNotified
<1>11. Withdrawing'
    BY <1>1, <1>3 DEF NInv, Withdrawing, Deleted
<1> QED BY <1>1, <1>6, <1>7, <1>8, <1>9, <1>10, <1>11, Rested DEF NInv

LEMMA ClearInv ==
    ASSUME NInv, NEW c \in Convs, I!Clear(c)
    PROVE  NInv' /\ Forward
<1>1. PICK docs : docs = {<<"read", c>>} \cup I!SummaryDoc(read[c].unread)
    OBVIOUS
<1>2. PICK last : last = I!Latest(I!Of(c))
    OBVIOUS
<1>3. /\ c \in member /\ cutoff' = [cutoff EXCEPT ![c] = last]
      /\ read' = [read EXCEPT ![c] = [last |-> last, unread |-> 0]]
      /\ tx' = I!Kept(docs) /\ <<"read", c>> \in docs
      /\ UNCHANGED <<sent, member, joined, note, pending>>
    BY <1>1, <1>2 DEF I!Clear
<1>4. I!Id' = I!Id /\ \A d : I!Of(d)' = I!Of(d)
    BY <1>3 DEF I!Id, I!Of
<1>5. /\ last \in Nat /\ (last = 0 \/ last \in I!Of(c)) /\ \A m \in I!Of(c) : m <= last
      /\ I!Of(c) \subseteq Nat
    <2>1. I!Of(c) \in SUBSET I!Message
        BY Ids DEF I!Of, NInv, Stored
    <2> QED BY <1>2, <2>1, LatestOf, InboxConstants
<1>6. /\ read' \in [member -> ReadDoc] /\ read'[c].last = last
      /\ \A d \in member \ {c} : read'[d] = read[d]
    <2>1. PICK new \in ReadDoc : new = [last |-> last, unread |-> 0]
        BY <1>5 DEF ReadDoc
    <2>2. new.last = last
        BY <2>1
    <2>3. read' = [read EXCEPT ![c] = new] /\ read \in [member -> ReadDoc]
        BY <1>3, <2>1 DEF NInv, Positions
    <2> QED BY <1>3, <2>2, <2>3
<1>7. /\ cutoff' \in [Convs -> Nat] /\ cutoff'[c] = last /\ \A d \in Convs \ {c} : cutoff'[d] = cutoff[d]
    BY <1>3, <1>5 DEF NInv, Marks
<1>8. Elsewhere(c)
    BY <1>3, <1>4, <1>6, <1>7 DEF Elsewhere
<1>9. Positions'
    BY <1>3, <1>4, <1>5, <1>6, <1>8, Placed DEF NInv, Positions, AtNext
<1>10. Engaged'
    BY <1>3, <1>8, Undisturbed
<1>11. I!ReadNotNotified'
    <2>1. \A m \in I!Of(c)' : ~(cutoff'[c] < m)
        BY <1>4, <1>5, <1>7
    <2> QED BY <1>3, <1>8, <2>1, Unnoted DEF NInv, Positions
<1>12. Stored' /\ Marks' /\ Events' /\ Withdrawing'
    BY <1>3, <1>4, <1>7 DEF NInv, Stored, Numbered, Marks, Events, Known, Withdrawing
<1>13. Forward
    <2>1. \A d \in member : read[d].last \in Nat
        BY DEF NInv, Positions, ReadDoc
    <2>2. read[c].last <= last
        BY <1>3, <1>5 DEF NInv, Positions, At
    <2> QED BY <1>6, <2>1, <2>2 DEF Forward
<1> QED BY <1>9, <1>10, <1>11, <1>12, <1>13 DEF NInv

LEMMA LeaveInv ==
    ASSUME NInv, NEW c \in Convs, NEW mine \in BOOLEAN, I!Leave(c, mine)
    PROVE  NInv' /\ Forward
<1>1. PICK k : Grown(c, k)
    BY PutGrows DEF I!Leave, NInv
<1>2. PICK docs : docs = {<<"read", c>>} \cup I!SummaryDoc(read[c].unread)
    OBVIOUS
<1>3. /\ c \in member /\ member' = member \ {c} /\ read' = [d \in member \ {c} |-> read[d]]
      /\ tx' = I!Kept(docs) /\ <<"read", c>> \in docs
      /\ UNCHANGED <<cutoff, joined, note, pending>>
    BY <1>2 DEF I!Leave
<1>4. /\ Stored' /\ Events' /\ Withdrawing' /\ I!Id \subseteq I!Id'
      /\ \A m \in I!Id : sent'[m].conv = sent[m].conv /\ (sent[m].deleted <=> sent'[m].deleted)
    BY <1>1, <1>3, PutKeeps
<1>5. Elsewhere(c)
    BY <1>1, <1>3, <1>4 DEF Elsewhere, Grown
<1>6. Positions'
    BY <1>3, <1>5, Placed DEF NInv, Positions
<1>7. Engaged'
    BY <1>3, <1>4, <1>5, Undisturbed
<1>8. I!ReadNotNotified'
    BY <1>3, <1>5, Unnoted DEF NInv, Positions
<1>9. Marks' /\ Forward
    <2>1. \A d \in member : read[d].last \in Nat
        BY DEF NInv, Positions, ReadDoc
    <2> QED BY <1>3, <2>1 DEF NInv, Marks, Forward
<1> QED BY <1>4, <1>6, <1>7, <1>8, <1>9 DEF NInv

LEMMA JoinInv ==
    ASSUME NInv, NEW c \in Convs, I!Join(c)
    PROVE  NInv' /\ Forward
<1>1. PICK k : Grown(c, k)
    BY PutGrows DEF I!Join, NInv
<1>2. PICK last : last = I!Latest(I!Of(c))
    OBVIOUS
<1>3. /\ c \notin member /\ member' = member \cup {c} /\ joined' = [joined EXCEPT ![c] = last]
      /\ read' = [d \in member \cup {c} |-> IF d = c THEN [last |-> last, unread |-> 1] ELSE read[d]]
      /\ tx' = I!Kept({<<"read", c>>, <<"summary">>})
      /\ UNCHANGED <<cutoff, note, pending>>
    BY <1>2 DEF I!Join
<1>4. /\ Stored' /\ Events' /\ Withdrawing' /\ I!Id \subseteq I!Id'
      /\ \A m \in I!Id : sent'[m].conv = sent[m].conv /\ (sent[m].deleted <=> sent'[m].deleted)
      /\ \A m \in I!Of(c)' : m \in I!Of(c) \/ note[m] # "valid"
    BY <1>1, <1>3, PutKeeps
<1>5. /\ last \in Nat /\ (last = 0 \/ last \in I!Of(c)) /\ \A m \in I!Of(c) : m <= last
      /\ I!Of(c) \subseteq Nat
    <2>1. I!Of(c) \in SUBSET I!Message
        BY Ids DEF I!Of, NInv, Stored
    <2> QED BY <1>2, <2>1, LatestOf, InboxConstants
<1>6. /\ DOMAIN read' = member' /\ read' = [d \in member' |-> read'[d]]
      /\ read'[c] \in ReadDoc /\ read'[c].last = last
      /\ \A d \in member : read'[d] = read[d]
    <2>1. PICK new \in ReadDoc : new = [last |-> last, unread |-> 1]
        BY <1>5 DEF ReadDoc
    <2>2. new.last = last
        BY <2>1
    <2>3. read' = [d \in member \cup {c} |-> IF d = c THEN new ELSE read[d]]
        BY <1>3, <2>1
    <2> QED BY <1>3, <2>2, <2>3
<1>7. joined' \in [Convs -> Nat] /\ joined'[c] = last /\ \A d \in Convs \ {c} : joined'[d] = joined[d]
    BY <1>3, <1>5 DEF NInv, Marks
<1>8. Elsewhere(c)
    BY <1>1, <1>3, <1>4, <1>6, <1>7 DEF Elsewhere, Grown
<1>9. Positions'
    <2>1. AtNext(c, read'[c].last)
        BY <1>1, <1>5, <1>6 DEF AtNext, Grown
    <2> QED BY <1>3, <1>6, <1>8, <2>1, Placed DEF NInv, Positions
<1>10. \A m \in I!Of(c) : joined'[c] >= m
    BY <1>5, <1>7
<1>11. Engaged'
    BY <1>3, <1>4, <1>8, <1>10, Undisturbed
<1>12. I!ReadNotNotified'
    <2>1. \A m \in I!Of(c)' : joined'[c] < m => note[m] # "valid"
        BY <1>4, <1>5, <1>10, <1>7
    <2> QED BY <1>3, <1>8, <2>1, Unnoted DEF NInv, Positions
<1>13. Marks' /\ Forward
    <2>1. \A d \in member : read[d].last \in Nat
        BY DEF NInv, Positions, ReadDoc
    <2> QED BY <1>3, <1>6, <1>7, <2>1 DEF NInv, Marks, Forward
<1> QED BY <1>4, <1>9, <1>11, <1>12, <1>13 DEF NInv

-----------------------------------------------------------------------------
(* Inbox: transactions that stay open.                                     *)

\* What is not written stays.
LEMMA SameBusy ==
    ASSUME NEW x, Busy(x), UNCHANGED <<sent, member, read, joined, note>>
    PROVE  Busy(x)'
<1>1. I!Id' = I!Id /\ \A d : I!Of(d)' = I!Of(d)
    BY DEF I!Id, I!Of
<1> QED BY <1>1 DEF Busy, Acknowledges, At, Creates, Withdraws

LEMMA SameStore ==
    ASSUME NInv, UNCHANGED <<sent, member, cutoff, joined, read, note, pending>>
    PROVE  /\ Stored' /\ Positions' /\ Marks' /\ Events' /\ I!ReadNotNotified' /\ Withdrawing'
           /\ Forward
<1>1. I!Id' = I!Id /\ \A d : I!Of(d)' = I!Of(d)
    BY DEF I!Id, I!Of
<1>2. Stored' /\ Positions' /\ Events' /\ I!ReadNotNotified' /\ Withdrawing'
    BY <1>1 DEF NInv, Stored, Numbered, Positions, At, Events, Known, I!ReadNotNotified, Withdrawing
<1> QED BY <1>2, Rested

LEMMA OpenInv ==
    ASSUME NInv, NEW p \in Process, NEW t, Busy(t), I!Open(p, t)
    PROVE  NInv' /\ Forward
<1>1. tx' = [tx EXCEPT ![p] = t] /\ UNCHANGED <<sent, member, cutoff, joined, read, note, pending>>
    BY DEF I!Open
<1>2. Engaged'
    <2>1. ASSUME NEW q \in Process PROVE Busy(tx[q])'
        <3>1. PICK x : x = tx'[q]
            OBVIOUS
        <3>2. x = t \/ x = tx[q]
            BY <1>1, <3>1 DEF NInv, Engaged
        <3>3. Busy(x)
            BY <3>2 DEF NInv, Engaged
        <3>4. Busy(x)'
            BY <1>1, <3>3, SameBusy
        <3> QED BY <3>1, <3>4 DEF Busy
    <2>2. tx' = [q \in Process |-> tx'[q]]
        BY <1>1 DEF NInv, Engaged
    <2> QED BY <2>1, <2>2 DEF Engaged
<1> QED BY <1>1, <1>2, SameStore DEF NInv

LEMMA MarkReadInv ==
    ASSUME NInv, NEW p \in Process, NEW c \in Convs, NEW m \in I!Position, I!MarkRead(p, c, m)
    PROVE  NInv' /\ Forward
<1>1. PICK new : new = I!ReadThrough(c, m)
    OBVIOUS
<1>2. PICK hit : hit = {i \in I!Of(c) : note[i] = "valid" /\ i <= new.last}
    OBVIOUS
<1>3. PICK docs : docs = {<<"read", c>>} \cup I!SummaryDoc(read[c].unread - new.unread)
                            \cup {<<"note", i>> : i \in hit}
    OBVIOUS
<1>4. PICK t : t = [I!Idle EXCEPT !.docs = docs, !.read = {<<c, new>>},
                                  !.notes = [i \in hit |-> "invalid"], !.latest = (m = 0)]
    OBVIOUS
<1>5. c \in member /\ m \in I!Shown(c) \cup {0} /\ I!Open(p, t)
    BY <1>1, <1>2, <1>3, <1>4 DEF I!MarkRead
<1>6. /\ t.event = {} /\ t.read = {<<c, new>>} /\ <<"read", c>> \in t.docs
      /\ DOMAIN t.notes = hit /\ \A i \in hit : t.notes[i] = "invalid"
    BY <1>3, <1>4 DEF I!Idle
<1>7. /\ I!Of(c) \in SUBSET I!Message /\ I!Of(c) \subseteq Nat /\ 0 \notin I!Of(c) /\ I!Of(c) \subseteq I!Id
      /\ I!Shown(c) \subseteq I!Of(c)
    BY Ids DEF I!Of, I!Shown, NInv, Stored
<1>8. read[c] \in ReadDoc /\ read[c].last \in Nat /\ read[c].unread \in Nat /\ At(c, read[c].last)
    BY <1>5 DEF NInv, Positions, ReadDoc
<1>9. new \in ReadDoc /\ At(c, new.last) /\ new.last >= read[c].last
    <2>1. PICK x : x = I!Target(c, m)
        OBVIOUS
    <2>2. At(c, x) /\ x \in Nat /\ (x = 0 => read[c].last = 0)
        <3>1. CASE m # 0
            BY <1>5, <1>7, <2>1, <3>1 DEF I!Target, At
        <3>2. CASE m = 0 /\ I!Shown(c) = {}
            BY <1>8, <2>1, <3>2 DEF I!Target
        <3>3. CASE m = 0 /\ I!Shown(c) # {}
            <4>1. I!Shown(c) \in SUBSET I!Message
                BY <1>7
            <4> QED BY <1>7, <2>1, <3>3, <4>1, LatestOf DEF I!Target, At
        <3> QED BY <3>1, <3>2, <3>3
    <2>3. PICK y : y = I!Remaining(c, m)
        OBVIOUS
    <2>4. y \in Nat
        <3> DEFINE acknowledged == {i \in I!Theirs(c) : read[c].last < i /\ i <= m /\ ~sent[i].deleted}
        <3>1. acknowledged \subseteq I!Message
            BY <1>7 DEF I!Theirs
        <3>2. I!Cardinality(acknowledged) \in Nat
            <4>1. IsFiniteSet(I!Message)
                BY InboxConstants, FS_Interval
            <4> HIDE DEF acknowledged
            <4> QED BY <3>1, <4>1, FS_Subset, FS_CardinalityType, SameCount
        <3>3. y = IF m = 0 THEN 0 ELSE I!Minus(read[c].unread, I!Cardinality(acknowledged))
            BY <2>3 DEF I!Remaining
        <3> HIDE DEF acknowledged
        <3> QED BY <1>8, <3>2, <3>3 DEF I!Minus
    <2>5. new = IF x # 0 /\ read[c].last >= x THEN read[c] ELSE [last |-> x, unread |-> y]
        BY <1>1, <2>1, <2>3 DEF I!ReadThrough
    <2>6. CASE x # 0 /\ read[c].last >= x
        BY <1>8, <2>5, <2>6
    <2>7. CASE ~(x # 0 /\ read[c].last >= x)
        <3>1. new = [last |-> x, unread |-> y] /\ new.last = x
            BY <2>5, <2>7
        <3> QED BY <1>8, <2>2, <2>4, <2>7, <3>1 DEF ReadDoc
    <2> QED BY <2>6, <2>7
<1>10. Acknowledges(t, c, new)
    <2>1. hit \subseteq I!Id
        BY <1>2, <1>7
    <2> QED BY <1>2, <1>6, <1>9, <2>1 DEF Acknowledges
<1>11. Busy(t)
    BY <1>5, <1>9, <1>10 DEF Busy
<1> QED BY <1>5, <1>11, OpenInv

\* The transaction of a handler.
LEMMA Handled ==
    ASSUME NEW p, NEW e, NEW docs, NEW S, NEW status, I!Handle(p, e, docs, S, status)
    PROVE  \E t : /\ I!Open(p, t) /\ t.read = {} /\ t.event = {e} /\ docs \subseteq t.docs
                  /\ DOMAIN t.notes = S /\ \A i \in S : t.notes[i] = status
<1>1. PICK all : all = docs \cup {<<"event", e>>} \cup {<<"note", i>> : i \in S}
    OBVIOUS
<1>2. docs \subseteq all
    BY <1>1
<1>3. PICK t : t = [I!Idle EXCEPT !.docs = all, !.event = {e}, !.notes = [i \in S |-> status]]
    OBVIOUS
<1>4. I!Open(p, t)
    BY <1>1, <1>3 DEF I!Handle
<1>5. t.read = {} /\ t.event = {e} /\ docs \subseteq t.docs /\ DOMAIN t.notes = S /\ \A i \in S : t.notes[i] = status
    BY <1>2, <1>3 DEF I!Idle
<1> QED BY <1>4, <1>5

LEMMA HandleCreatedInv ==
    ASSUME NInv, NEW p \in Process, NEW e \in pending, I!HandleCreated(p, e)
    PROVE  NInv' /\ Forward
<1>1. PICK m \in I!Id : e = Created(m)
    BY Documents DEF NInv, Events, Known, I!HandleCreated
<1>2. PICK S : S = {i \in {m} : I!Wanted(i) /\ ~I!AlreadyRead(i)}
    OBVIOUS
<1>3. PICK states : states = {<<"read", c>> : c \in {c \in member : I!Wanted(m) /\ c = sent[m].conv}}
    OBVIOUS
<1>4. I!Handle(p, e, {<<"guard", m>>} \cup states, S, "valid")
    <2>1. e.msg = m
        BY <1>1, Documents
    <2> QED BY <1>2, <1>3, <2>1 DEF I!HandleCreated
<1>5. PICK t : /\ I!Open(p, t) /\ t.read = {} /\ t.event = {e} /\ {<<"guard", m>>} \cup states \subseteq t.docs
               /\ DOMAIN t.notes = S /\ \A i \in S : t.notes[i] = "valid"
    BY <1>4, Handled
<1>6. PICK c \in Convs : c = sent[m].conv
    BY DEF NInv, Stored, MessageDoc
<1>7. m \in S => ~sent[m].deleted /\ (c \in member => <<"read", c>> \in t.docs /\ read[c].last < m)
    <2> SUFFICES ASSUME m \in S
                 PROVE  ~sent[m].deleted /\ (c \in member => <<"read", c>> \in t.docs /\ read[c].last < m)
        OBVIOUS
    <2>1. I!Wanted(m) /\ ~I!AlreadyRead(m)
        BY <1>2
    <2>2. c \in member => <<"read", c>> \in states
        BY <1>3, <1>6, <2>1
    <2>3. c \in member => ~(read[c].last >= m) /\ read[c].last \in Nat /\ m \in Nat
        BY <1>6, <2>1, Ids DEF I!AlreadyRead, NInv, Positions, ReadDoc, Stored
    <2> QED BY <1>5, <2>1, <2>2, <2>3 DEF I!Wanted
<1>8. Creates(t, m)
    BY <1>1, <1>2, <1>5, <1>6, <1>7 DEF Creates
<1> QED BY <1>5, <1>8, OpenInv DEF Busy

LEMMA HandleDeletedInv ==
    ASSUME NInv, NEW p \in Process, NEW e \in pending, I!HandleDeleted(p, e)
    PROVE  NInv' /\ Forward
<1>1. PICK m \in I!Id : e = Deleted(m) /\ sent[m].deleted
    BY Documents DEF NInv, Events, Known, I!HandleDeleted
<1>2. PICK S : S = {i \in {m} : note[i] = "valid"}
    OBVIOUS
<1>3. I!Handle(p, e, {}, S, "invalid")
    <2>1. e.msg = m
        BY <1>1, Documents
    <2> QED BY <1>2, <2>1 DEF I!HandleDeleted
<1>4. PICK t : /\ I!Open(p, t) /\ t.read = {} /\ t.event = {e}
               /\ DOMAIN t.notes = S /\ \A i \in S : t.notes[i] = "invalid"
    BY <1>3, Handled
<1>5. Withdraws(t, m)
    BY <1>1, <1>2, <1>4 DEF Withdraws
<1> QED BY <1>4, <1>5, OpenInv DEF Busy

-----------------------------------------------------------------------------
(* Inbox: a commit.                                                        *)

\* The commit of transaction t of process p.
Commits(p, t) ==
    /\ tx[p] = t /\ Busy(t)
    /\ note' = [m \in I!Message |-> IF m \in DOMAIN t.notes THEN t.notes[m] ELSE note[m]]
    /\ pending' = pending \ t.event
    /\ tx' = [I!Kept(t.docs) EXCEPT ![p] = I!Idle]
    /\ UNCHANGED <<sent, member, cutoff, joined>>

\* Busy, after the step.
BusyNext(t) ==
    \/ t = I!Idle
    \/ \E c \in member', new \in ReadDoc : Acknowledges(t, c, new)'
    \/ \E m \in I!Id' : Creates(t, m)' \/ Withdraws(t, m)'

\* The ones under way stay what they are when each of them does.
LEMMA CommitEngaged ==
    ASSUME NInv, NEW p \in Process, NEW t, Commits(p, t),
           \A x : Busy(x) /\ x # I!Idle /\ x.docs \cap t.docs = {} => BusyNext(x)
    PROVE  Engaged'
<1>1. tx' = [q \in Process |-> tx'[q]]
    BY DEF Commits, I!Kept
<1>2. ASSUME NEW q \in Process PROVE Busy(tx[q])'
    <2>1. PICK x : x = tx'[q]
        OBVIOUS
    <2>2. x = I!Idle \/ (x = tx[q] /\ x.docs \cap t.docs = {})
        BY <2>1 DEF Commits, I!Kept
    <2>3. CASE x = I!Idle
        BY <2>1, <2>3 DEF Busy, I!Idle, I!NoWrites
    <2>4. CASE x # I!Idle
        <3>1. Busy(x)
            BY <2>2, <2>4 DEF NInv, Engaged
        <3>2. BusyNext(x)
            BY <2>2, <2>4, <3>1
        <3> QED BY <2>1, <3>2 DEF Busy, BusyNext
    <2> QED BY <2>3, <2>4
<1> QED BY <1>1, <1>2 DEF Engaged

LEMMA CommitFrame ==
    ASSUME NInv, NEW p \in Process, NEW t, Commits(p, t),
           \A i \in DOMAIN t.notes : i \in I!Id /\ t.notes[i] \in {"valid", "invalid"}
    PROVE  /\ Stored' /\ Events' /\ Marks'
           /\ I!Id' = I!Id /\ \A d : I!Of(d)' = I!Of(d)
           /\ \A i \in I!Id : note'[i] = IF i \in DOMAIN t.notes THEN t.notes[i] ELSE note[i]
<1>1. UNCHANGED <<sent, member, cutoff, joined>> /\ pending' \subseteq pending
    BY DEF Commits
<1>2. I!Id' = I!Id /\ \A d : I!Of(d)' = I!Of(d)
    BY <1>1 DEF I!Id, I!Of
<1>3. I!Id \subseteq I!Message
    BY Ids DEF NInv, Stored
<1>4. /\ note' \in [I!Message -> {"absent", "valid", "invalid"}]
      /\ \A i \in I!Message : note'[i] = IF i \in DOMAIN t.notes THEN t.notes[i] ELSE note[i]
    BY <1>3 DEF Commits, NInv, Stored
<1>5. Stored'
    BY <1>1, <1>2, <1>4 DEF NInv, Stored, Numbered
<1>6. Events' /\ Marks'
    BY <1>1, <1>2 DEF NInv, Events, Known, Marks
<1> QED BY <1>2, <1>3, <1>4, <1>5, <1>6

\* A read: who relies on the position it moves writes the read state too.
LEMMA CommitRead ==
    ASSUME NInv, NEW p \in Process, NEW t, Commits(p, t),
           NEW c \in member, NEW new \in ReadDoc, Acknowledges(t, c, new), read' = [read EXCEPT ![c] = new]
    PROVE  NInv' /\ Forward
<1>1. UNCHANGED <<sent, member, cutoff, joined>> /\ pending' = pending
    BY DEF Commits, Acknowledges
<1>2. /\ Stored' /\ Events' /\ Marks'
      /\ I!Id' = I!Id /\ \A d : I!Of(d)' = I!Of(d)
      /\ \A i \in I!Id : note'[i] = IF i \in DOMAIN t.notes THEN t.notes[i] ELSE note[i]
    <2>1. \A i \in DOMAIN t.notes : i \in I!Id /\ t.notes[i] \in {"valid", "invalid"}
        BY DEF Acknowledges
    <2> QED BY <2>1, CommitFrame
<1>3. \A i \in I!Id : note'[i] = "valid" => note[i] = "valid" /\ i \notin DOMAIN t.notes
    BY <1>2 DEF Acknowledges
<1>4. read' \in [member -> ReadDoc] /\ read'[c] = new /\ \A d \in member \ {c} : read'[d] = read[d]
    BY DEF NInv, Positions
<1>5. Positions'
    BY <1>1, <1>2, <1>4 DEF NInv, Positions, At, Acknowledges
<1>6. \A d : I!Of(d) \subseteq I!Id
    BY DEF I!Of
<1>7. ASSUME NEW x, Busy(x), x # I!Idle, x.docs \cap t.docs = {} PROVE BusyNext(x)
    <2>1. <<"read", c>> \notin x.docs
        BY <1>7 DEF Acknowledges
    <2>2. ASSUME NEW d \in member, NEW y \in ReadDoc, Acknowledges(x, d, y) PROVE Acknowledges(x, d, y)'
        <3>1. d # c
            BY <2>1, <2>2 DEF Acknowledges
        <3>2. \A i \in I!Of(d) : note'[i] = "valid" => note[i] = "valid"
            BY <1>3, <1>6
        <3> QED BY <1>1, <1>2, <1>4, <2>2, <3>1, <3>2 DEF Acknowledges, At
    <2>3. ASSUME NEW m \in I!Id, Creates(x, m) PROVE Creates(x, m)'
        <3>1. sent[m].conv = c /\ m \in DOMAIN x.notes => joined[c] >= m
            BY <2>1, <2>3 DEF Creates
        <3> QED BY <1>1, <1>4, <2>3, <3>1 DEF Creates
    <2>4. ASSUME NEW m \in I!Id, Withdraws(x, m) PROVE Withdraws(x, m)'
        BY <1>1, <1>3, <2>4 DEF Withdraws
    <2> QED BY <1>1, <1>2, <1>7, <2>2, <2>3, <2>4 DEF Busy, BusyNext
<1>8. Engaged'
    BY <1>7, CommitEngaged
<1>9. I!ReadNotNotified'
    <2>1. ASSUME NEW d \in member, NEW m \in I!Of(d), cutoff[d] < m, joined[d] < m, m <= read'[d].last
          PROVE  note'[m] # "valid"
        <3>1. CASE d = c
            BY <1>3, <1>4, <1>6, <2>1, <3>1 DEF Acknowledges
        <3>2. CASE d # c
            BY <1>3, <1>4, <1>6, <2>1, <3>2 DEF NInv, I!ReadNotNotified
        <3> QED BY <3>1, <3>2
    <2> QED BY <1>1, <1>2, <2>1 DEF I!ReadNotNotified
<1>10. Withdrawing'
    BY <1>1, <1>2, <1>3 DEF NInv, Withdrawing, Deleted
<1>11. Forward
    <2>1. \A d \in member : read[d].last \in Nat
        BY DEF NInv, Positions, ReadDoc
    <2> QED BY <1>4, <2>1 DEF Forward, Acknowledges
<1> QED BY <1>2, <1>5, <1>8, <1>9, <1>10, <1>11 DEF NInv

\* A created notification: no read under way passes its message.
LEMMA CommitCreated ==
    ASSUME NInv, NEW p \in Process, NEW t, Commits(p, t), NEW m \in I!Id, Creates(t, m), UNCHANGED read
    PROVE  NInv' /\ Forward
<1>1. UNCHANGED <<sent, member, cutoff, joined>> /\ pending' = pending \ {Created(m)}
    BY DEF Commits, Creates
<1>2. /\ Stored' /\ Events' /\ Marks'
      /\ I!Id' = I!Id /\ \A d : I!Of(d)' = I!Of(d)
      /\ \A i \in I!Id : note'[i] = IF i \in DOMAIN t.notes THEN t.notes[i] ELSE note[i]
    <2>1. \A i \in DOMAIN t.notes : i \in I!Id /\ t.notes[i] \in {"valid", "invalid"}
        BY DEF Creates
    <2> QED BY <2>1, CommitFrame
<1>3. \A i \in I!Id : note'[i] = "valid" => note[i] = "valid" \/ (i = m /\ m \in DOMAIN t.notes)
    BY <1>2 DEF Creates
<1>4. PICK c \in Convs : c = sent[m].conv
    BY DEF NInv, Stored, MessageDoc
<1>5. \A d : I!Of(d) \subseteq I!Id /\ (m \in I!Of(d) => d = c)
    BY <1>4 DEF I!Of
<1>6. joined[c] \in Nat /\ m \in Nat /\ (c \in member => read[c].last \in Nat)
    BY Ids DEF NInv, Marks, Stored, Positions, ReadDoc
<1>7. ASSUME NEW x, Busy(x), x # I!Idle, x.docs \cap t.docs = {} PROVE BusyNext(x)
    <2>1. ASSUME NEW d \in member, NEW y \in ReadDoc, Acknowledges(x, d, y) PROVE Acknowledges(x, d, y)'
        <3>1. d = c /\ m \in DOMAIN t.notes => joined[c] >= m
            BY <1>4, <1>7, <2>1 DEF Acknowledges, Creates
        <3>2. \A i \in I!Of(d) : note'[i] = "valid" /\ joined[d] < i => note[i] = "valid"
            <4>1. ASSUME NEW i \in I!Of(d), note'[i] = "valid", joined[d] < i, note[i] # "valid" PROVE FALSE
                <5>1. i \in I!Id
                    BY <1>5
                <5>2. i = m /\ m \in DOMAIN t.notes
                    BY <1>3, <4>1, <5>1
                <5>3. d = c
                    BY <1>5, <5>2
                <5> QED BY <1>6, <3>1, <4>1, <5>2, <5>3
            <4> QED BY <4>1
        <3> QED BY <1>1, <1>2, <2>1, <3>2 DEF Acknowledges, At
    <2>2. ASSUME NEW i \in I!Id, Creates(x, i) PROVE Creates(x, i)'
        BY <1>1, <2>2 DEF Creates
    <2>3. ASSUME NEW i \in I!Id, Withdraws(x, i) PROVE Withdraws(x, i)'
        <3>1. note'[i] = "valid" => note[i] = "valid"
            BY <1>3, <2>3 DEF Withdraws, Creates
        <3> QED BY <1>1, <2>3, <3>1 DEF Withdraws
    <2> QED BY <1>1, <1>2, <1>7, <2>1, <2>2, <2>3 DEF Busy, BusyNext
<1>8. Engaged'
    BY <1>7, CommitEngaged
<1>9. I!ReadNotNotified'
    <2>1. ASSUME NEW d \in member, NEW i \in I!Of(d), cutoff[d] < i, joined[d] < i, i <= read[d].last
          PROVE  note'[i] # "valid"
        <3>1. note[i] # "valid"
            BY <2>1 DEF NInv, I!ReadNotNotified
        <3>2. ~(i = m /\ m \in DOMAIN t.notes)
            BY <1>4, <1>5, <1>6, <2>1 DEF Creates
        <3> QED BY <1>3, <1>5, <3>1, <3>2
    <2> QED BY <1>1, <1>2, <2>1 DEF I!ReadNotNotified
<1>10. Withdrawing'
    <2>1. \A i \in I!Id : sent[i].deleted /\ note'[i] = "valid" => Deleted(i) \in pending
        BY <1>3 DEF NInv, Withdrawing, Creates
    <2>2. \A i : Deleted(i) # Created(m)
        BY Documents
    <2> QED BY <1>1, <1>2, <2>1, <2>2 DEF Withdrawing, Deleted
<1>11. Positions' /\ Forward
    <2>1. \A d \in member : read[d].last \in Nat
        BY DEF NInv, Positions, ReadDoc
    <2> QED BY <1>1, <1>2, <2>1 DEF NInv, Positions, At, Forward
<1> QED BY <1>2, <1>8, <1>9, <1>10, <1>11 DEF NInv

LEMMA CommitDeleted ==
    ASSUME NInv, NEW p \in Process, NEW t, Commits(p, t), NEW m \in I!Id, Withdraws(t, m), UNCHANGED read
    PROVE  NInv' /\ Forward
<1>1. UNCHANGED <<sent, member, cutoff, joined>> /\ pending' = pending \ {Deleted(m)}
    BY DEF Commits, Withdraws
<1>2. /\ Stored' /\ Events' /\ Marks'
      /\ I!Id' = I!Id /\ \A d : I!Of(d)' = I!Of(d)
      /\ \A i \in I!Id : note'[i] = IF i \in DOMAIN t.notes THEN t.notes[i] ELSE note[i]
    <2>1. \A i \in DOMAIN t.notes : i \in I!Id /\ t.notes[i] \in {"valid", "invalid"}
        BY DEF Withdraws
    <2> QED BY <2>1, CommitFrame
<1>3. \A i \in I!Id : note'[i] = "valid" => note[i] = "valid" /\ i # m
    BY <1>2 DEF Withdraws
<1>4. \A d : I!Of(d) \subseteq I!Id
    BY DEF I!Of
<1>5. ASSUME NEW x, Busy(x), x # I!Idle, x.docs \cap t.docs = {} PROVE BusyNext(x)
    <2>1. ASSUME NEW d \in member, NEW y \in ReadDoc, Acknowledges(x, d, y) PROVE Acknowledges(x, d, y)'
        <3>1. \A i \in I!Of(d) : note'[i] = "valid" => note[i] = "valid"
            BY <1>3, <1>4
        <3> QED BY <1>1, <1>2, <2>1, <3>1 DEF Acknowledges, At
    <2>2. ASSUME NEW i \in I!Id, Creates(x, i) PROVE Creates(x, i)'
        BY <1>1, <2>2 DEF Creates
    <2>3. ASSUME NEW i \in I!Id, Withdraws(x, i) PROVE Withdraws(x, i)'
        BY <1>1, <1>3, <2>3 DEF Withdraws
    <2> QED BY <1>1, <1>2, <1>5, <2>1, <2>2, <2>3 DEF Busy, BusyNext
<1>6. Engaged'
    BY <1>5, CommitEngaged
<1>7. I!ReadNotNotified'
    BY <1>1, <1>2, <1>3, <1>4 DEF NInv, I!ReadNotNotified
<1>8. Withdrawing'
    <2>1. \A i \in I!Id : sent[i].deleted /\ note'[i] = "valid" => Deleted(i) \in pending /\ i # m
        BY <1>3 DEF NInv, Withdrawing
    <2>2. \A i : Deleted(i) = Deleted(m) => i = m
        BY Documents
    <2> QED BY <1>1, <1>2, <2>1, <2>2 DEF Withdrawing, Deleted
<1>9. Positions' /\ Forward
    <2>1. \A d \in member : read[d].last \in Nat
        BY DEF NInv, Positions, ReadDoc
    <2> QED BY <1>1, <1>2, <2>1 DEF NInv, Positions, At, Forward
<1> QED BY <1>2, <1>6, <1>7, <1>8, <1>9 DEF NInv

LEMMA CommitInv ==
    ASSUME NInv, NEW p \in Process, I!Commit(p)
    PROVE  NInv' /\ Forward
<1>1. PICK t : t = tx[p]
    OBVIOUS
<1>2. t # I!Idle /\ Commits(p, t)
    BY <1>1 DEF I!Commit, Commits, NInv, Engaged
<1>3. ASSUME NEW c \in member, NEW new \in ReadDoc, Acknowledges(t, c, new) PROVE NInv' /\ Forward
    <2>1. t.read = {<<c, new>>}
        BY <1>3 DEF Acknowledges
    <2>2. (CHOOSE x \in {<<c, new>>} : TRUE) = <<c, new>>
        OBVIOUS
    <2>3. read' = [read EXCEPT ![c] = new]
        BY <1>1, <2>1, <2>2 DEF I!Commit
    <2> QED BY <1>2, <1>3, <2>3, CommitRead
<1>4. ASSUME NEW m \in I!Id, Creates(t, m) \/ Withdraws(t, m) PROVE NInv' /\ Forward
    <2>1. UNCHANGED read
        BY <1>1, <1>4 DEF I!Commit, Creates, Withdraws
    <2> QED BY <1>2, <1>4, <2>1, CommitCreated, CommitDeleted
<1> QED BY <1>2, <1>3, <1>4 DEF Commits, Busy

LEMMA InboxInit == I!Init => NInv
<1> SUFFICES ASSUME I!Init PROVE NInv
    OBVIOUS
<1>1. I!Id = 1..0
    BY DEF I!Init, I!Id, I!NoWrites
<1>2. Stored
    <2>1. Numbered
        BY <1>1, InboxConstants DEF Numbered
    <2> QED BY <1>1, <2>1 DEF I!Init, Stored, I!NoWrites
<1>3. Positions /\ Marks
    <2>1. [last |-> 0, unread |-> 0] \in ReadDoc
        BY DEF ReadDoc
    <2> QED BY <2>1 DEF I!Init, Positions, Marks, At
<1>4. Engaged
    BY DEF I!Init, Engaged, Busy
<1>5. I!ReadNotNotified /\ Withdrawing /\ Events
    BY <1>1 DEF I!Init, I!ReadNotNotified, Withdrawing, Events, I!Of
<1> QED BY <1>2, <1>3, <1>4, <1>5 DEF NInv

LEMMA InboxNext ==
    ASSUME NInv, I!Next \/ UNCHANGED inboxVars
    PROVE  NInv' /\ Forward
<1>1. CASE UNCHANGED inboxVars
    <2>1. UNCHANGED <<sent, member, cutoff, joined, read, note, pending, tx>>
        BY <1>1 DEF inboxVars
    <2>2. Engaged'
        <3>1. ASSUME NEW q \in Process PROVE Busy(tx[q])'
            <4>1. PICK x : x = tx'[q]
                OBVIOUS
            <4>2. Busy(x)
                BY <2>1, <4>1 DEF NInv, Engaged
            <4>3. Busy(x)'
                BY <2>1, <4>2, SameBusy
            <4> QED BY <4>1, <4>3 DEF Busy
        <3> QED BY <2>1, <3>1 DEF NInv, Engaged
    <2> QED BY <2>1, <2>2, SameStore DEF NInv
<1>2. CASE I!Next
    BY <1>2, SendInv, LeaveInv, SendUncountedInv, ClearInv, JoinInv, DeleteInv, MarkReadInv,
        HandleCreatedInv, HandleDeletedInv, CommitInv DEF I!Next
<1> QED BY <1>1, <1>2

LEMMA InboxGiven == NInv => NotesCurrent
BY DEF NInv, Withdrawing, NotesCurrent, I!DeletedGone

-----------------------------------------------------------------------------
(* Sums.                                                                   *)

\* A set of subsets of a finite set has one that contains no other.
LEMMA Smallest ==
    ASSUME NEW S, IsFiniteSet(S), NEW B \in SUBSET (SUBSET S), B # {}
    PROVE  \E s \in B : \A r \in B : r \subseteq s => r = s
<1>1. IsWellFoundedOn(StrictSubsetOrdering(S), FiniteSubsetsOf(S))
    BY FS_StrictSubsetOrderingWellFounded
<1>2. B \subseteq FiniteSubsetsOf(S)
    BY FS_Subset DEF FiniteSubsetsOf
<1>3. PICK s \in B : \A r \in B : ~(<<r, s>> \in StrictSubsetOrdering(S))
    BY <1>1, <1>2, WFMin
<1>4. ASSUME NEW r \in B, r \subseteq s, r # s PROVE FALSE
    BY <1>3, <1>4 DEF StrictSubsetOrdering
<1> QED BY <1>3, <1>4

-----------------------------------------------------------------------------
(* The sum over a set of read states, as MapThenSumSet computes it.        *)

Pick(s) == CHOOSE x \in s : TRUE
Adds(g, f, D) == g = [s \in D |-> IF s = {} THEN 0 ELSE f[Pick(s)].unread + g[s \ {Pick(s)}]]
Sums(f, S) == CHOOSE g : Adds(g, f, SUBSET S)

LEMMA Picked == \A s : s # {} => Pick(s) \in s
BY DEF Pick

LEMMA SumsExist ==
    ASSUME NEW S, IsFiniteSet(S), NEW f
    PROVE  Adds(Sums(f, S), f, SUBSET S)
<1> DEFINE Upto(k) == {s \in SUBSET S : Cardinality(s) <= k}
           Without == {k \in Nat : ~\E g : Adds(g, f, Upto(k))}
<1>1. \A s \in SUBSET S : Cardinality(s) \in Nat /\ Cardinality(s) <= Cardinality(S)
    BY FS_Subset, FS_CardinalityType
<1>2. Without = {}
    <2> SUFFICES ASSUME Without # {} PROVE FALSE
        OBVIOUS
    <2>1. PICK k \in Without : \A i \in Without : k <= i
        BY Least
    <2>2. k \in Nat /\ ~\E g : Adds(g, f, Upto(k))
        OBVIOUS
    <2> HIDE DEF Upto
    <2>3. \E g : k # 0 => Adds(g, f, Upto(k - 1))
        <3>1. CASE k = 0
            BY <3>1
        <3>2. CASE k # 0
            <4>1. k - 1 \in Nat /\ ~(k <= k - 1)
                BY <2>2, <3>2
            <4> QED BY <2>1, <4>1
        <3> QED BY <3>1, <3>2
    <2>4. PICK g : k # 0 => Adds(g, f, Upto(k - 1))
        BY <2>3
    <2> DEFINE h == [s \in Upto(k) |-> IF s = {} THEN 0 ELSE f[Pick(s)].unread + g[s \ {Pick(s)}]]
    <2>5. ASSUME NEW s \in Upto(k), s # {}
          PROVE  h[s \ {Pick(s)}] = g[s \ {Pick(s)}]
        <3> DEFINE r == s \ {Pick(s)}
        <3>1. s \in SUBSET S /\ IsFiniteSet(s) /\ Cardinality(s) <= k /\ Cardinality(s) \in Nat
            BY <1>1, FS_Subset DEF Upto
        <3>2. Pick(s) \in s
            BY <2>5, Picked
        <3>3. Cardinality(r) = Cardinality(s) - 1 /\ Cardinality(r) \in Nat
            BY <1>1, <3>1, <3>2, FS_RemoveElement
        <3>4. k # 0 /\ Cardinality(r) <= k - 1 /\ Cardinality(r) <= k
            BY <2>2, <3>1, <3>3
        <3>5. r \in Upto(k) /\ r \in Upto(k - 1)
            BY <3>1, <3>4 DEF Upto
        <3>6. g = [t \in Upto(k - 1) |-> IF t = {} THEN 0 ELSE f[Pick(t)].unread + g[t \ {Pick(t)}]]
            BY <2>4, <3>4 DEF Adds
        <3> HIDE DEF r
        <3>7. g[r] = IF r = {} THEN 0 ELSE f[Pick(r)].unread + g[r \ {Pick(r)}]
            BY <3>5, <3>6
        <3>8. h[r] = IF r = {} THEN 0 ELSE f[Pick(r)].unread + g[r \ {Pick(r)}]
            BY <3>5
        <3> QED BY <3>7, <3>8 DEF r
    <2>6. h = [s \in Upto(k) |-> IF s = {} THEN 0 ELSE f[Pick(s)].unread + h[s \ {Pick(s)}]]
        BY <2>5
    <2> HIDE DEF h
    <2> QED BY <2>2, <2>6 DEF Adds
<1>3. Cardinality(S) \in Nat
    BY FS_CardinalityType
<1>4. Upto(Cardinality(S)) = SUBSET S
    BY <1>1
<1>5. \E g : Adds(g, f, Upto(Cardinality(S)))
    BY <1>2, <1>3
<1>6. \E g : Adds(g, f, SUBSET S)
    BY <1>4, <1>5
<1> QED BY <1>6 DEF Sums

LEMMA SumsRule ==
    ASSUME NEW S, IsFiniteSet(S), NEW f, NEW U \in SUBSET S
    PROVE  Sums(f, S)[U] = IF U = {} THEN 0 ELSE f[Pick(U)].unread + Sums(f, S)[U \ {Pick(U)}]
<1> DEFINE g == Sums(f, S)
<1>1. g = [s \in SUBSET S |-> IF s = {} THEN 0 ELSE f[Pick(s)].unread + g[s \ {Pick(s)}]]
    BY SumsExist DEF Adds
<1> HIDE DEF g
<1>2. g[U] = IF U = {} THEN 0 ELSE f[Pick(U)].unread + g[U \ {Pick(U)}]
    BY <1>1
<1> QED BY <1>2 DEF g

\* What is added depends on nothing but the elements and their values.
LEMMA SumsSame ==
    ASSUME NEW S, IsFiniteSet(S), NEW R, IsFiniteSet(R), NEW U, U \subseteq S, U \subseteq R,
           NEW f, NEW h, \A x \in U : f[x].unread = h[x].unread
    PROVE  Sums(f, S)[U] = Sums(h, R)[U]
<1> DEFINE B == {s \in SUBSET U : Sums(f, S)[s] # Sums(h, R)[s]}
<1>1. SUFFICES ASSUME B # {} PROVE FALSE
    OBVIOUS
<1>2. PICK s \in B : \A r \in B : r \subseteq s => r = s
    <2>1. IsFiniteSet(U) /\ B \subseteq SUBSET U
        BY FS_Subset
    <2> HIDE DEF B
    <2> QED BY <1>1, <2>1, Smallest
<1>3. s \in SUBSET S /\ s \in SUBSET R /\ Sums(f, S)[s] # Sums(h, R)[s]
    OBVIOUS
<1>4. /\ Sums(f, S)[s] = IF s = {} THEN 0 ELSE f[Pick(s)].unread + Sums(f, S)[s \ {Pick(s)}]
      /\ Sums(h, R)[s] = IF s = {} THEN 0 ELSE h[Pick(s)].unread + Sums(h, R)[s \ {Pick(s)}]
    BY <1>3, SumsRule
<1>5. s # {}
    BY <1>3, <1>4
<1>6. Pick(s) \in s /\ f[Pick(s)].unread = h[Pick(s)].unread
    BY <1>5, Picked
<1>7. s \ {Pick(s)} \notin B
    BY <1>2, <1>6
<1> QED BY <1>3, <1>4, <1>5, <1>6, <1>7

Total(f, S) == Sums(f, S)[S]

LEMMA TotalSame ==
    ASSUME NEW S, IsFiniteSet(S), NEW f, NEW h, \A x \in S : f[x].unread = h[x].unread
    PROVE  Total(f, S) = Total(h, S)
BY SumsSame DEF Total

LEMMA TotalRule ==
    ASSUME NEW S, IsFiniteSet(S), NEW f
    PROVE  Total(f, S) = IF S = {} THEN 0 ELSE f[Pick(S)].unread + Total(f, S \ {Pick(S)})
<1>1. CASE S = {}
    BY <1>1, SumsRule DEF Total
<1>2. CASE S # {}
    <2>1. IsFiniteSet(S \ {Pick(S)})
        BY FS_Subset
    <2>2. Sums(f, S)[S \ {Pick(S)}] = Sums(f, S \ {Pick(S)})[S \ {Pick(S)}]
        BY <2>1, SumsSame
    <2> QED BY <1>2, <2>2, SumsRule DEF Total
<1> QED BY <1>1, <1>2

LEMMA TotalNat ==
    ASSUME NEW S, IsFiniteSet(S), NEW f, \A x \in S : f[x].unread \in Nat
    PROVE  Total(f, S) \in Nat
<1> DEFINE B == {s \in SUBSET S : Total(f, s) \notin Nat}
<1>1. SUFFICES ASSUME B # {} PROVE FALSE
    OBVIOUS
<1>2. PICK s \in B : \A r \in B : r \subseteq s => r = s
    <2>1. B \subseteq SUBSET S
        OBVIOUS
    <2> HIDE DEF B
    <2> QED BY <1>1, <2>1, Smallest
<1>3. s \in SUBSET S /\ IsFiniteSet(s) /\ Total(f, s) \notin Nat
    BY FS_Subset
<1>4. Total(f, s) = IF s = {} THEN 0 ELSE f[Pick(s)].unread + Total(f, s \ {Pick(s)})
    BY <1>3, TotalRule
<1>5. s # {}
    BY <1>3, <1>4
<1>6. Pick(s) \in s /\ f[Pick(s)].unread \in Nat
    BY <1>3, <1>5, Picked
<1>7. s \ {Pick(s)} \notin B
    BY <1>2, <1>6
<1>8. Total(f, s \ {Pick(s)}) \in Nat
    BY <1>3, <1>7
<1> QED BY <1>3, <1>4, <1>5, <1>6, <1>8

\* Any element may be taken as the one that was added last.
LEMMA TotalWithout ==
    ASSUME NEW S, IsFiniteSet(S), NEW f, \A x \in S : f[x].unread \in Nat, NEW x \in S
    PROVE  Total(f, S) = f[x].unread + Total(f, S \ {x})
<1> DEFINE B == {s \in SUBSET S : \E y \in s : Total(f, s) # f[y].unread + Total(f, s \ {y})}
<1>1. SUFFICES B = {}
    OBVIOUS
<1>2. SUFFICES ASSUME B # {} PROVE FALSE
    OBVIOUS
<1>3. PICK s \in B : \A r \in B : r \subseteq s => r = s
    <2>1. B \subseteq SUBSET S
        OBVIOUS
    <2> HIDE DEF B
    <2> QED BY <1>2, <2>1, Smallest
<1>4. PICK y \in s : Total(f, s) # f[y].unread + Total(f, s \ {y})
    OBVIOUS
<1>5. \A r \in SUBSET S : IsFiniteSet(r) /\ Total(f, r) \in Nat
    BY FS_Subset, TotalNat
<1> DEFINE c == Pick(s)
<1>6. c \in s
    BY <1>4, Picked
<1>7. s \in SUBSET S /\ y \in S /\ c \in S /\ f[y].unread \in Nat /\ f[c].unread \in Nat
    BY <1>6
<1>8. Total(f, s) = f[c].unread + Total(f, s \ {c})
    BY <1>4, <1>5, <1>7, TotalRule
<1>9. c # y
    BY <1>4, <1>8
<1> HIDE DEF c
<1>10. s \ {c} \in SUBSET S /\ s \ {y} \in SUBSET S /\ s \ {c} \notin B /\ s \ {y} \notin B
    BY <1>3, <1>6, <1>7
<1>11. Total(f, s \ {c}) = f[y].unread + Total(f, (s \ {c}) \ {y})
    BY <1>9, <1>10
<1>12. Total(f, s \ {y}) = f[c].unread + Total(f, (s \ {y}) \ {c})
    BY <1>6, <1>9, <1>10
<1>13. (s \ {c}) \ {y} = (s \ {y}) \ {c} /\ (s \ {c}) \ {y} \in SUBSET S
    BY <1>7
<1>14. Total(f, (s \ {c}) \ {y}) \in Nat
    BY <1>5, <1>13
<1>15. Total(f, s) = f[c].unread + (f[y].unread + Total(f, (s \ {c}) \ {y}))
    BY <1>8, <1>11
<1>16. f[y].unread + Total(f, s \ {y}) = f[y].unread + (f[c].unread + Total(f, (s \ {c}) \ {y}))
    BY <1>12, <1>13
<1> QED BY <1>4, <1>7, <1>14, <1>15, <1>16

\* A total with and without one element, which may be there or not.
Share(f, S, c) == IF c \in S THEN f[c].unread ELSE 0
LEMMA TotalSplit ==
    ASSUME NEW S, IsFiniteSet(S), NEW f, NEW c, \A x \in S : f[x].unread \in Nat
    PROVE  /\ Total(f, S \ {c}) \in Nat /\ Share(f, S, c) \in Nat
           /\ Total(f, S) = Total(f, S \ {c}) + Share(f, S, c)
<1>1. IsFiniteSet(S \ {c}) /\ Total(f, S \ {c}) \in Nat
    BY FS_Subset, TotalNat
<1>2. CASE c \in S
    <2>1. Total(f, S) = f[c].unread + Total(f, S \ {c}) /\ f[c].unread \in Nat
        BY <1>2, TotalWithout
    <2>2. Share(f, S, c) = f[c].unread
        BY <1>2 DEF Share
    <2> QED BY <1>1, <2>1, <2>2
<1>3. CASE c \notin S
    <2>1. S \ {c} = S
        BY <1>3
    <2>2. Total(f, S \ {c}) = Total(f, S)
        BY <2>1
    <2>3. Share(f, S, c) = 0
        BY <1>3 DEF Share
    <2> QED BY <1>1, <2>2, <2>3
<1> QED BY <1>2, <1>3

-----------------------------------------------------------------------------
(* Inbox: what is counted.                                                 *)

\* The messages of others in conversation c behind position i.
Beyond(c, i) == {m \in I!Theirs(c) : m > i}

\* The count r.unread covers what is unread at position r.last.
Covers(c, r) ==
    /\ r.last >= cutoff[c]
    /\ r.unread >= Cardinality(Beyond(c, r.last) \cap I!Shown(c))
    /\ (\A m \in I!Of(c) : ~sent[m].deleted) => r.unread = Cardinality(Beyond(c, r.last))

\* So do the read states, and those that a read under way is going to write,
\* which may only lower the count.
Covered == \A c \in member : Covers(c, read[c])
Acknowledged ==
    \A p \in Process : \A x \in tx[p].read :
        \E c \in member, new \in ReadDoc :
            /\ x = <<c, new>> /\ <<"read", c>> \in tx[p].docs
            /\ Covers(c, new) /\ new.unread <= read[c].unread

\* The history was cleared up to a message, or not at all.
CutAt == \A c \in Convs : At(c, cutoff[c])

UInv == CutAt /\ Covered /\ Acknowledged /\ I!SummaryExact

\* Nothing happens in conversation c that a count has to follow.
Quiet(c) ==
    /\ I!Theirs(c)' = I!Theirs(c) /\ I!Of(c) \subseteq I!Of(c)'
    /\ \A m \in I!Of(c) : sent[m].deleted => sent'[m].deleted
    /\ cutoff'[c] = cutoff[c]

LEMMA Countable ==
    ASSUME Stored, NEW c
    PROVE  /\ I!Of(c) \in SUBSET I!Message /\ I!Of(c) \subseteq Nat /\ 0 \notin I!Of(c)
           /\ I!Theirs(c) \subseteq I!Of(c) /\ I!Shown(c) \subseteq I!Of(c)
           /\ \A S \in SUBSET I!Of(c) : IsFiniteSet(S) /\ Cardinality(S) \in Nat
<1>1. I!Of(c) \in SUBSET I!Message /\ I!Of(c) \subseteq Nat /\ 0 \notin I!Of(c)
    BY Ids DEF I!Of, Stored
<1>2. IsFiniteSet(I!Message)
    BY InboxConstants, FS_Interval
<1>3. ASSUME NEW S \in SUBSET I!Of(c) PROVE IsFiniteSet(S) /\ Cardinality(S) \in Nat
    BY <1>1, <1>2, FS_Subset, FS_CardinalityType
<1> QED BY <1>1, <1>3 DEF I!Theirs, I!Shown

\* A new message is the last one.
LEMMA GrownLast ==
    ASSUME Stored, NEW c, NEW k, Grown(c, k)
    PROVE  k \in Nat \ {0} /\ k \notin I!Id /\ \A m \in I!Id : m < k
<1>1. PICK n \in 0..MaxMessages : I!Id = 1..n
    BY DEF Stored, Numbered
<1>2. n \in Nat /\ Cardinality(1..n) = n
    BY InboxConstants, FS_Interval
<1>3. k = n + 1
    BY <1>1, <1>2, SameCount DEF Grown, I!NewId
<1> QED BY <1>1, <1>2, <1>3

LEMMA GrownQuiet ==
    ASSUME Stored, NEW c \in Convs, NEW k, Grown(c, k), NEW d \in Convs, cutoff'[d] = cutoff[d],
           d # c \/ sent'[k].mine
    PROVE  Quiet(d)
<1>1. \A m \in I!Of(d) : m \in I!Id
    BY DEF I!Of
<1>2. I!Of(d) \subseteq I!Of(d)' /\ \A m \in I!Of(d)' : m \in I!Of(d) \/ sent'[m].mine
    BY DEF Grown
<1>3. \A m \in I!Of(d) : sent'[m] = sent[m]
    BY <1>1 DEF Grown
<1>4. I!Theirs(d)' = I!Theirs(d)
    BY <1>2, <1>3 DEF I!Theirs
<1> QED BY <1>2, <1>3, <1>4 DEF Quiet

\* One of another's is behind every position, and to be seen.
LEMMA GrownBeyond ==
    ASSUME Stored, NEW c \in Convs, NEW k, Grown(c, k), cutoff'[c] = cutoff[c], ~sent'[k].mine,
           NEW i \in Nat, At(c, i), i >= cutoff[c], cutoff[c] \in Nat
    PROVE  /\ Beyond(c, i)' = Beyond(c, i) \cup {k} /\ k \notin Beyond(c, i)
           /\ I!Shown(c)' = I!Shown(c) \cup {k} /\ k \notin I!Shown(c)
<1>1. k \in Nat \ {0} /\ k \notin I!Id /\ \A m \in I!Id : m < k
    BY GrownLast
<1>2. I!Of(c)' = I!Of(c) \cup {k} /\ I!Of(c) \subseteq I!Id /\ \A m \in I!Of(c) : sent'[m] = sent[m]
    BY DEF Grown, I!Of
<1>3. i < k
    BY <1>1, <1>2 DEF At
<1>4. cutoff[c] < k
    BY <1>1, <1>3
<1>5. ~sent'[k].deleted
    BY DEF Grown
<1>6. I!Theirs(c)' = I!Theirs(c) \cup {k} /\ I!Theirs(c) \subseteq I!Of(c)
    BY <1>2 DEF I!Theirs
<1>7. I!Shown(c)' = I!Shown(c) \cup {k} /\ I!Shown(c) \subseteq I!Of(c)
    BY <1>2, <1>4, <1>5 DEF I!Shown
<1> QED BY <1>1, <1>2, <1>3, <1>6, <1>7 DEF Beyond

LEMMA QuietCovers ==
    ASSUME Stored, Stored', NEW c \in Convs, Quiet(c), NEW r \in ReadDoc, Covers(c, r)
    PROVE  Covers(c, r)'
<1> DEFINE old == Beyond(c, r.last) \cap I!Shown(c)
           new == Beyond(c, r.last)' \cap I!Shown(c)'
<1>1. Beyond(c, r.last)' = Beyond(c, r.last)
    BY DEF Quiet, Beyond
<1>2. new \subseteq old
    <2>1. \A m \in I!Theirs(c) : m \in I!Of(c)
        BY Countable
    <2>2. \A m \in I!Of(c) : m \in I!Shown(c)' => m \in I!Shown(c)
        BY DEF Quiet, I!Shown
    <2> QED BY <1>1, <2>1, <2>2 DEF Beyond
<1>3. old \in SUBSET I!Of(c)
    BY Countable DEF Beyond
<1>4. IsFiniteSet(old) /\ Cardinality(old) \in Nat
    BY <1>3, Countable
<1>5. Cardinality(new) \in Nat /\ Cardinality(new) <= Cardinality(old)
    <2> HIDE DEF old, new
    <2> QED BY <1>2, <1>4, FS_Subset, FS_CardinalityType
<1>6. r.unread \in Nat
    BY DEF ReadDoc
<1>7. r.unread >= Cardinality(new)
    <2>1. r.unread >= Cardinality(old)
        BY DEF Covers
    <2> HIDE DEF old, new
    <2> QED BY <1>4, <1>5, <1>6, <2>1
<1>8. (\A m \in I!Of(c)' : ~sent'[m].deleted) => r.unread = Cardinality(Beyond(c, r.last)')
    BY <1>1 DEF Covers, Quiet
<1> QED BY <1>7, <1>8 DEF Covers, Quiet

\* The conversations of X change, and those who read them begin again.
LEMMA OthersCovered ==
    ASSUME NInv, NInv', UInv, NEW X \in SUBSET Convs,
           member' \ X = member \ X,
           \A c \in member \ X : Quiet(c) /\ read'[c] = read[c],
           \A p \in Process : \/ tx'[p].read = {}
                              \/ tx'[p] = tx[p] /\ \A c \in X : <<"read", c>> \notin tx[p].docs,
           \A c \in X \cap member' : Covers(c, read[c])'
    PROVE  Covered' /\ Acknowledged'
<1>1. member \subseteq Convs /\ read \in [member -> ReadDoc] /\ Stored /\ Stored'
    BY DEF NInv, Positions
<1>2. ASSUME NEW c \in member', c \notin X PROVE Covers(c, read[c])'
    <2>1. c \in member /\ Quiet(c) /\ read'[c] = read[c] /\ c \in Convs /\ read[c] \in ReadDoc
        BY <1>1, <1>2
    <2>2. PICK r \in ReadDoc : r = read[c]
        BY <2>1
    <2>3. Covers(c, r)
        BY <2>1, <2>2 DEF UInv, Covered
    <2>4. Covers(c, r)'
        BY <1>1, <2>1, <2>3, QuietCovers
    <2> QED BY <2>1, <2>2, <2>4
<1>3. ASSUME NEW p \in Process, NEW x \in tx'[p].read
      PROVE  \E c \in member', new \in ReadDoc :
                /\ x = <<c, new>> /\ <<"read", c>> \in tx'[p].docs
                /\ Covers(c, new)' /\ new.unread <= read'[c].unread
    <2>1. tx'[p] = tx[p] /\ \A c \in X : <<"read", c>> \notin tx[p].docs
        BY <1>3
    <2>2. PICK c \in member, new \in ReadDoc :
                /\ x = <<c, new>> /\ <<"read", c>> \in tx[p].docs
                /\ Covers(c, new) /\ new.unread <= read[c].unread
        <3>1. x \in tx[p].read
            BY <1>3, <2>1
        <3> QED BY <3>1 DEF UInv, Acknowledged
    <2>3. c \notin X
        BY <2>1, <2>2
    <2>4. c \in member' /\ Quiet(c) /\ read'[c] = read[c] /\ c \in Convs
        BY <1>1, <2>3
    <2>5. Covers(c, new)'
        BY <1>1, <2>2, <2>4, QuietCovers
    <2> QED BY <2>1, <2>2, <2>4, <2>5
<1> QED BY <1>2, <1>3 DEF Covered, Acknowledged

LEMMA OneCovered ==
    ASSUME NInv, NInv', UInv, NEW c \in Convs,
           member' \ {c} = member \ {c},
           \A d \in member \ {c} : Quiet(d) /\ read'[d] = read[d],
           \A p \in Process : tx'[p].read = {} \/ (tx'[p] = tx[p] /\ <<"read", c>> \notin tx[p].docs),
           c \in member' => Covers(c, read[c])'
    PROVE  Covered' /\ Acknowledged'
<1>1. PICK X \in SUBSET Convs : X = {c}
    OBVIOUS
<1>2. /\ member' \ X = member \ X
      /\ \A d \in member \ X : Quiet(d) /\ read'[d] = read[d]
    BY <1>1
<1>3. \A p \in Process : \/ tx'[p].read = {}
                         \/ tx'[p] = tx[p] /\ \A d \in X : <<"read", d>> \notin tx[p].docs
    BY <1>1
<1>4. \A d \in X \cap member' : Covers(d, read[d])'
    BY <1>1
<1> QED BY <1>2, <1>3, <1>4, OthersCovered

-----------------------------------------------------------------------------
(* Inbox: the summary.                                                     *)

LEMMA SummaryIs ==
    /\ I!Sum = [convs |-> Cardinality(I!Unread), total |-> Total(read, I!Unread)]
    /\ I!Sum' = [convs |-> Cardinality(I!Unread'), total |-> Total(read', I!Unread')]
<1>1. I!Sum.total = Total(read, I!Unread)
    BY DEF I!Sum, I!MapThenSumSet, I!MapThenFoldSet, Total, Sums, Adds, Pick
<1>2. I!Sum'.total = Total(read', I!Unread')
    BY DEF I!Sum, I!MapThenSumSet, I!MapThenFoldSet, Total, Sums, Adds, Pick
<1> QED BY <1>1, <1>2, SameCount DEF I!Sum

\* What the user has to read in conversation c.
Owed(c) == IF c \in member THEN read[c].unread ELSE 0
One(n) == IF n > 0 THEN 1 ELSE 0

\* The sum before and after a step that changes what is to be read in c only.
LEMMA SumShifts ==
    ASSUME NInv, NInv', NEW c \in Convs, member' \ {c} = member \ {c},
           \A d \in member \ {c} : read'[d] = read[d]
    PROVE  /\ Owed(c) \in Nat /\ Owed(c)' \in Nat
           /\ \E n \in Nat, t \in Nat :
                /\ I!Sum = [convs |-> n + One(Owed(c)), total |-> t + Owed(c)]
                /\ I!Sum' = [convs |-> n + One(Owed(c)'), total |-> t + Owed(c)']
<1> DEFINE S == I!Unread
           R == I!Unread'
<1>1. /\ member \subseteq Convs /\ member' \subseteq Convs
      /\ \A d \in member : read[d].unread \in Nat
      /\ \A d \in member' : read'[d].unread \in Nat
    BY DEF NInv, Positions, ReadDoc
<1>2. S = {d \in member : read[d].unread > 0} /\ R = {d \in member' : read'[d].unread > 0}
    BY DEF I!Unread
<1>3. IsFiniteSet(S) /\ IsFiniteSet(R)
    <2>1. S \subseteq Convs /\ R \subseteq Convs
        BY <1>1, <1>2
    <2>2. IsFiniteSet(Convs)
        BY ConstantsFit, SameCount DEF I!InboxAssumption, I!IsFiniteSet, IsFiniteSet
    <2> HIDE DEF S, R
    <2> QED BY <2>1, <2>2, FS_Subset
<1>4. S \ {c} = R \ {c} /\ \A d \in S \ {c} : read[d].unread = read'[d].unread
    BY <1>1, <1>2
<1>5. Owed(c) \in Nat /\ Owed(c)' \in Nat
    BY <1>1 DEF Owed
<1>6. /\ c \in S <=> Owed(c) > 0
      /\ c \in R <=> Owed(c)' > 0
      /\ c \in S => read[c].unread = Owed(c)
      /\ c \in R => read'[c].unread = Owed(c)'
    BY <1>1, <1>2 DEF Owed
<1>7. /\ \A d \in S : read[d].unread \in Nat
      /\ \A d \in R : read'[d].unread \in Nat
    BY <1>1, <1>2
<1>8. I!Sum = [convs |-> Cardinality(S), total |-> Total(read, S)]
    BY SummaryIs
<1>9. I!Sum' = [convs |-> Cardinality(R), total |-> Total(read', R)]
    BY SummaryIs
<1> HIDE DEF S, R
<1>10. PICK t \in Nat : Total(read, S) = t + Share(read, S, c) /\ Total(read', R) = t + Share(read', R, c)
    <2>1. Total(read, S \ {c}) \in Nat /\ Total(read, S) = Total(read, S \ {c}) + Share(read, S, c)
        BY <1>3, <1>7, TotalSplit
    <2>2. Total(read', R) = Total(read', R \ {c}) + Share(read', R, c)
        BY <1>3, <1>7, TotalSplit
    <2>3. Total(read', R \ {c}) = Total(read, S \ {c})
        <3>1. IsFiniteSet(S \ {c})
            BY <1>3, FS_Subset
        <3>2. Total(read, S \ {c}) = Total(read', S \ {c})
            BY <1>4, <3>1, TotalSame
        <3>3. Total(read', S \ {c}) = Total(read', R \ {c})
            BY <1>4
        <3> QED BY <3>2, <3>3
    <2> QED BY <2>1, <2>2, <2>3
<1>11. PICK n \in Nat : n = Cardinality(S \ {c}) /\ n = Cardinality(R \ {c})
    BY <1>3, <1>4, FS_Subset, FS_CardinalityType
<1>12. Cardinality(S) = n + One(Owed(c))
    <2>1. Cardinality(S) \in Nat /\ n = IF c \in S THEN Cardinality(S) - 1 ELSE Cardinality(S)
        BY <1>3, <1>11, FS_RemoveElement, FS_CardinalityType
    <2> QED BY <1>6, <1>11, <2>1 DEF One
<1>13. Cardinality(R) = n + One(Owed(c)')
    <2>1. Cardinality(R) \in Nat /\ n = IF c \in R THEN Cardinality(R) - 1 ELSE Cardinality(R)
        BY <1>3, <1>11, FS_RemoveElement, FS_CardinalityType
    <2> QED BY <1>6, <1>11, <2>1 DEF One
<1>14. Total(read, S) = t + Owed(c) /\ Total(read', R) = t + Owed(c)'
    <2>1. Share(read, S, c) = Owed(c) /\ Share(read', R, c) = Owed(c)'
        BY <1>5, <1>6 DEF Share
    <2> QED BY <1>10, <2>1
<1>15. I!Sum = [convs |-> n + One(Owed(c)), total |-> t + Owed(c)]
    BY <1>8, <1>12, <1>14
<1>16. I!Sum' = [convs |-> n + One(Owed(c)'), total |-> t + Owed(c)']
    BY <1>9, <1>13, <1>14
<1> QED BY <1>5, <1>15, <1>16

LEMMA CountedUp ==
    ASSUME NInv, NInv', UInv, NEW c \in Convs, member' \ {c} = member \ {c},
           \A d \in member \ {c} : read'[d] = read[d],
           Owed(c)' = Owed(c) + 1, summary' = I!Count(summary, Owed(c))
    PROVE  I!SummaryExact'
<1>1. PICK n \in Nat, t \in Nat :
            /\ I!Sum = [convs |-> n + One(Owed(c)), total |-> t + Owed(c)]
            /\ I!Sum' = [convs |-> n + One(Owed(c)'), total |-> t + Owed(c)']
    BY SumShifts
<1>2. Owed(c) \in Nat
    BY SumShifts
<1>3. summary = [convs |-> n + One(Owed(c)), total |-> t + Owed(c)]
    BY <1>1 DEF UInv, I!SummaryExact
<1>4. summary' = [convs |-> n + One(Owed(c)) + (IF Owed(c) = 0 THEN 1 ELSE 0), total |-> t + Owed(c) + 1]
    BY <1>3 DEF I!Count
<1>5. /\ n + One(Owed(c)) + (IF Owed(c) = 0 THEN 1 ELSE 0) = n + One(Owed(c)')
      /\ t + Owed(c) + 1 = t + Owed(c)'
    BY <1>2 DEF One
<1>6. summary' = [convs |-> n + One(Owed(c)'), total |-> t + Owed(c)']
    BY <1>4, <1>5
<1> QED BY <1>1, <1>6 DEF I!SummaryExact

LEMMA CountedDown ==
    ASSUME NInv, NInv', UInv, NEW c \in Convs, member' \ {c} = member \ {c},
           \A d \in member \ {c} : read'[d] = read[d],
           Owed(c)' <= Owed(c), summary' = I!ApplyReadDelta(summary, Owed(c), Owed(c)')
    PROVE  I!SummaryExact'
<1>1. PICK n \in Nat, t \in Nat :
            /\ I!Sum = [convs |-> n + One(Owed(c)), total |-> t + Owed(c)]
            /\ I!Sum' = [convs |-> n + One(Owed(c)'), total |-> t + Owed(c)']
    BY SumShifts
<1>2. Owed(c) \in Nat /\ Owed(c)' \in Nat
    BY SumShifts
<1>3. summary = [convs |-> n + One(Owed(c)), total |-> t + Owed(c)]
    BY <1>1 DEF UInv, I!SummaryExact
<1>4. PICK old \in Nat, new \in Nat : old = Owed(c) /\ new = Owed(c)' /\ new <= old
    BY <1>2
<1>5. CASE new = old
    <2>1. summary' = summary
        BY <1>4, <1>5 DEF I!ApplyReadDelta
    <2> QED BY <1>1, <1>3, <1>4, <1>5, <2>1 DEF I!SummaryExact
<1>6. CASE new # old
    <2>1. ~(new >= old) /\ One(old) = 1
        BY <1>4, <1>6 DEF One
    <2>2. summary' = [convs |-> I!Minus(summary.convs, IF new = 0 THEN 1 ELSE 0),
                      total |-> I!Minus(summary.total, old - new)]
        BY <1>4, <2>1 DEF I!ApplyReadDelta
    <2>3. summary.convs = n + 1 /\ summary.total = t + old
        BY <1>3, <1>4, <2>1
    <2>4. I!Minus(n + 1, IF new = 0 THEN 1 ELSE 0) = n + One(new)
        BY DEF I!Minus, One
    <2>5. I!Minus(t + old, old - new) = t + new
        BY <1>4, <2>1 DEF I!Minus
    <2>6. summary' = [convs |-> n + One(new), total |-> t + new]
        BY <2>2, <2>3, <2>4, <2>5
    <2> QED BY <1>1, <1>4, <2>6 DEF I!SummaryExact
<1> QED BY <1>5, <1>6

LEMMA CountSame ==
    ASSUME UInv, UNCHANGED <<member, read, summary>>
    PROVE  I!SummaryExact'
<1>1. I!Sum' = I!Sum
    <2>1. I!Unread' = I!Unread
        BY DEF I!Unread
    <2> QED BY <2>1, SummaryIs
<1> QED BY <1>1 DEF UInv, I!SummaryExact

-----------------------------------------------------------------------------
(* Inbox: each step keeps the counts.                                      *)

LEMMA CutStays ==
    ASSUME UInv, UNCHANGED cutoff, \A d \in Convs : I!Of(d) \subseteq I!Of(d)'
    PROVE  CutAt'
BY DEF UInv, CutAt, At

LEMMA CutGrown ==
    ASSUME UInv, UNCHANGED cutoff, NEW c \in Convs, NEW k, Grown(c, k)
    PROVE  CutAt'
<1>1. \A d \in Convs : I!Of(d) \subseteq I!Of(d)'
    BY DEF Grown
<1> QED BY <1>1, CutStays

LEMMA SendCounts ==
    ASSUME NInv, NInv', UInv, NEW c \in Convs, NEW directed \in BOOLEAN, I!Send(c, directed)
    PROVE  UInv'
<1>1. PICK k : Grown(c, k)
    BY PutGrows DEF I!Send, NInv
<1>2. /\ c \in member /\ read' = [read EXCEPT ![c].unread = @ + 1]
      /\ summary' = I!Count(summary, read[c].unread)
      /\ tx' = I!Kept({<<"read", c>>, <<"summary">>}) /\ UNCHANGED <<member, cutoff>>
    BY DEF I!Send
<1>3. /\ read[c] \in ReadDoc /\ read'[c].last = read[c].last /\ read'[c].unread = read[c].unread + 1
      /\ \A d \in member \ {c} : read'[d] = read[d]
    BY <1>2 DEF NInv, Positions, ReadDoc
<1>4. ~sent'[k].mine
    BY <1>1 DEF I!Send, I!Put, Grown
<1>5. \A d \in member \ {c} : Quiet(d)
    BY <1>1, <1>2, GrownQuiet DEF NInv, Positions
<1>6. Covers(c, read[c])'
    <2>1. PICK i \in Nat : i = read[c].last /\ i >= cutoff[c] /\ At(c, i)
        BY <1>2, <1>3 DEF NInv, Positions, ReadDoc, UInv, Covered, Covers
    <2>2. Beyond(c, i)' = Beyond(c, i) \cup {k} /\ k \notin Beyond(c, i) /\ I!Shown(c)' = I!Shown(c) \cup {k}
          /\ k \notin I!Shown(c)
        BY <1>1, <1>2, <1>4, <2>1, GrownBeyond DEF NInv, Marks
    <2>3. I!Of(c)' = I!Of(c) \cup {k} /\ \A m \in I!Of(c) : sent'[m] = sent[m]
        BY <1>1 DEF Grown, I!Of
    <2>4. PICK all : all = Beyond(c, i)
        OBVIOUS
    <2>5. PICK seen : seen = Beyond(c, i) \cap I!Shown(c)
        OBVIOUS
    <2>6. IsFiniteSet(all) /\ IsFiniteSet(seen) /\ k \notin all /\ k \notin seen
        BY <2>2, <2>4, <2>5, Countable DEF Beyond, NInv
    <2>7. /\ Cardinality(all \cup {k}) = Cardinality(all) + 1 /\ Cardinality(seen \cup {k}) = Cardinality(seen) + 1
          /\ Cardinality(all) \in Nat /\ Cardinality(seen) \in Nat
        BY <2>6, FS_AddElement, FS_CardinalityType
    <2>8. Beyond(c, i)' = all \cup {k} /\ Beyond(c, i)' \cap I!Shown(c)' = seen \cup {k}
        BY <2>2, <2>4, <2>5
    <2>9. /\ read[c].unread >= Cardinality(seen) /\ read[c].unread \in Nat
          /\ (\A m \in I!Of(c) : ~sent[m].deleted) => read[c].unread = Cardinality(all)
        BY <1>2, <1>3, <2>1, <2>4, <2>5 DEF UInv, Covered, Covers, ReadDoc
    <2>10. read[c].unread + 1 >= Cardinality(Beyond(c, i)' \cap I!Shown(c)')
        <3>1. Cardinality(Beyond(c, i)' \cap I!Shown(c)') = Cardinality(seen) + 1
            BY <2>7, <2>8
        <3> QED BY <2>7, <2>9, <3>1
    <2>11. (\A m \in I!Of(c)' : ~sent'[m].deleted) => read[c].unread + 1 = Cardinality(Beyond(c, i)')
        BY <2>3, <2>7, <2>8, <2>9
    <2> QED BY <1>2, <1>3, <2>1, <2>10, <2>11 DEF Covers
<1>7. \A p \in Process : tx'[p].read = {} \/ (tx'[p] = tx[p] /\ <<"read", c>> \notin tx[p].docs)
    BY <1>2 DEF I!Kept, I!Idle
<1>8. Covered' /\ Acknowledged'
    BY <1>2, <1>3, <1>5, <1>6, <1>7, OneCovered
<1>9. Owed(c)' = Owed(c) + 1 /\ Owed(c) = read[c].unread
    BY <1>2, <1>3 DEF Owed
<1>10. I!SummaryExact'
    BY <1>2, <1>3, <1>9, CountedUp
<1> QED BY <1>1, <1>2, <1>8, <1>10, CutGrown DEF UInv

\* A request after which there is no more to read in c, at its last message.
LEMMA SettledCovers ==
    ASSUME NInv, NInv', NEW c \in Convs, I!Of(c)' = I!Of(c), c \in member', cutoff'[c] = read'[c].last,
           read'[c].last = I!Latest(I!Of(c)), read'[c].unread = 0
    PROVE  Covers(c, read[c])'
<1>1. PICK i : i = I!Latest(I!Of(c))
    OBVIOUS
<1>2. I!Of(c) \in SUBSET I!Message /\ I!Of(c) \subseteq Nat
    BY Countable DEF NInv
<1>3. i \in Nat /\ \A m \in I!Of(c) : m <= i
    BY <1>1, <1>2, LatestOf
<1>4. \A m \in I!Theirs(c)' : m \in I!Of(c)
    BY DEF I!Theirs
<1>5. Beyond(c, i)' = {}
    BY <1>2, <1>3, <1>4 DEF Beyond
<1>6. Cardinality(Beyond(c, i)') = 0 /\ Cardinality(Beyond(c, i)' \cap I!Shown(c)') = 0
    BY <1>5, FS_EmptySet
<1>7. read'[c].last = i
    BY <1>1
<1> QED BY <1>3, <1>6, <1>7 DEF Covers

LEMMA ClearCounts ==
    ASSUME NInv, NInv', UInv, NEW c \in Convs, I!Clear(c)
    PROVE  UInv'
<1>1. PICK last : last = I!Latest(I!Of(c))
    OBVIOUS
<1>2. /\ c \in member /\ cutoff' = [cutoff EXCEPT ![c] = last]
      /\ read' = [read EXCEPT ![c] = [last |-> last, unread |-> 0]]
      /\ summary' = I!ApplyReadDelta(summary, read[c].unread, 0)
      /\ tx' = I!Kept({<<"read", c>>} \cup I!SummaryDoc(read[c].unread))
      /\ UNCHANGED <<sent, member>>
    BY <1>1 DEF I!Clear
<1>3. I!Of(c)' = I!Of(c) /\ \A d : I!Theirs(d)' = I!Theirs(d) /\ I!Of(d)' = I!Of(d)
    BY <1>2 DEF I!Id, I!Of, I!Theirs
<1>4. /\ read'[c].last = last /\ read'[c].unread = 0 /\ cutoff'[c] = last
      /\ \A d \in member \ {c} : read'[d] = read[d] /\ cutoff'[d] = cutoff[d]
      /\ read[c].unread \in Nat
    BY <1>2 DEF NInv, Positions, Marks, ReadDoc
<1>5. \A d \in member \ {c} : Quiet(d)
    BY <1>2, <1>3, <1>4 DEF Quiet
<1>6. Covers(c, read[c])'
    BY <1>1, <1>2, <1>3, <1>4, SettledCovers
<1>7. \A p \in Process : tx'[p].read = {} \/ (tx'[p] = tx[p] /\ <<"read", c>> \notin tx[p].docs)
    BY <1>2 DEF I!Kept, I!Idle
<1>8. Covered' /\ Acknowledged'
    BY <1>2, <1>4, <1>5, <1>6, <1>7, OneCovered
<1>9. Owed(c)' = 0 /\ Owed(c) = read[c].unread
    BY <1>2, <1>4 DEF Owed
<1>10. I!SummaryExact'
    BY <1>2, <1>4, <1>9, CountedDown
<1>11. CutAt'
    <2>1. I!Of(c) \in SUBSET I!Message
        BY Countable DEF NInv
    <2>2. last = 0 \/ last \in I!Of(c)
        BY <1>1, <2>1, LatestOf
    <2>3. \A d \in Convs : cutoff'[d] = IF d = c THEN last ELSE cutoff[d]
        BY <1>2 DEF NInv, Marks
    <2> QED BY <1>3, <2>2, <2>3 DEF UInv, CutAt, At
<1> QED BY <1>8, <1>10, <1>11 DEF UInv

LEMMA LeaveCounts ==
    ASSUME NInv, NInv', UInv, NEW c \in Convs, NEW mine \in BOOLEAN, I!Leave(c, mine)
    PROVE  UInv'
<1>1. PICK k : Grown(c, k)
    BY PutGrows DEF I!Leave, NInv
<1>2. /\ c \in member /\ member' = member \ {c} /\ read' = [d \in member \ {c} |-> read[d]]
      /\ summary' = I!ApplyReadDelta(summary, read[c].unread, 0)
      /\ tx' = I!Kept({<<"read", c>>} \cup I!SummaryDoc(read[c].unread)) /\ UNCHANGED cutoff
    BY DEF I!Leave
<1>3. \A d \in member \ {c} : Quiet(d) /\ read'[d] = read[d]
    BY <1>1, <1>2, GrownQuiet DEF NInv, Positions
<1>4. \A p \in Process : tx'[p].read = {} \/ (tx'[p] = tx[p] /\ <<"read", c>> \notin tx[p].docs)
    BY <1>2 DEF I!Kept, I!Idle
<1>5. Covered' /\ Acknowledged'
    BY <1>2, <1>3, <1>4, OneCovered
<1>6. Owed(c)' = 0 /\ Owed(c) = read[c].unread /\ read[c].unread \in Nat
    BY <1>2 DEF Owed, NInv, Positions, ReadDoc
<1>7. I!SummaryExact'
    BY <1>2, <1>3, <1>6, CountedDown
<1> QED BY <1>1, <1>2, <1>5, <1>7, CutGrown DEF UInv

LEMMA JoinCounts ==
    ASSUME NInv, NInv', UInv, NEW c \in Convs, I!Join(c)
    PROVE  UInv'
<1>1. PICK k : Grown(c, k)
    BY PutGrows DEF I!Join, NInv
<1>2. PICK last : last = I!Latest(I!Of(c))
    OBVIOUS
<1>3. /\ c \notin member /\ member' = member \cup {c}
      /\ read' = [d \in member \cup {c} |-> IF d = c THEN [last |-> last, unread |-> 1] ELSE read[d]]
      /\ summary' = I!Count(summary, 0)
      /\ tx' = I!Kept({<<"read", c>>, <<"summary">>}) /\ UNCHANGED cutoff
    BY <1>2 DEF I!Join
<1>4. /\ read'[c].last = last /\ read'[c].unread = 1
      /\ \A d \in member \ {c} : read'[d] = read[d]
    BY <1>3
<1>5. \A d \in member \ {c} : Quiet(d)
    BY <1>1, <1>3, GrownQuiet DEF NInv, Positions
<1>6. ~sent'[k].mine
    BY <1>1 DEF I!Join, I!Put, Grown
<1>7. Covers(c, read[c])'
    <2>1. I!Of(c) \in SUBSET I!Message /\ I!Of(c) \subseteq Nat /\ I!Theirs(c) \subseteq I!Of(c)
        BY Countable DEF NInv
    <2>2. last \in Nat /\ At(c, last) /\ \A m \in I!Of(c) : m <= last
        BY <1>2, <2>1, LatestOf DEF At
    <2>3. last >= cutoff[c] /\ cutoff[c] \in Nat
        BY <2>2 DEF UInv, CutAt, At, NInv, Marks
    <2>4. /\ Beyond(c, last)' = Beyond(c, last) \cup {k} /\ I!Shown(c)' = I!Shown(c) \cup {k}
        BY <1>1, <1>3, <1>6, <2>2, <2>3, GrownBeyond DEF NInv
    <2>5. Beyond(c, last) = {}
        BY <2>1, <2>2 DEF Beyond
    <2>6. Beyond(c, last)' = {k} /\ Beyond(c, last)' \cap I!Shown(c)' = {k}
        BY <2>4, <2>5
    <2>7. Cardinality(Beyond(c, last)') = 1 /\ Cardinality(Beyond(c, last)' \cap I!Shown(c)') = 1
        BY <2>6, FS_Singleton
    <2>8. cutoff'[c] = cutoff[c] /\ read'[c].last = last /\ read'[c].unread = 1
        BY <1>3, <1>4
    <2> QED BY <2>3, <2>7, <2>8 DEF Covers
<1>8. \A p \in Process : tx'[p].read = {} \/ (tx'[p] = tx[p] /\ <<"read", c>> \notin tx[p].docs)
    BY <1>3 DEF I!Kept, I!Idle
<1>9. Covered' /\ Acknowledged'
    BY <1>3, <1>4, <1>5, <1>7, <1>8, OneCovered
<1>10. Owed(c)' = Owed(c) + 1 /\ Owed(c) = 0
    BY <1>3, <1>4 DEF Owed
<1>11. I!SummaryExact'
    BY <1>3, <1>4, <1>10, CountedUp
<1> QED BY <1>1, <1>3, <1>9, <1>11, CutGrown DEF UInv

\* Steps that count nothing.
LEMMA Uncounted ==
    ASSUME NInv, NInv', UInv, UNCHANGED <<member, read, summary, cutoff>>,
           \A d \in Convs : I!Of(d) \subseteq I!Of(d)', \A c \in member : Quiet(c),
           \A p \in Process : tx'[p].read = {} \/ tx'[p] = tx[p]
    PROVE  UInv'
<1>1. PICK X \in SUBSET Convs : X = {}
    OBVIOUS
<1>2. /\ member' \ X = member \ X
      /\ \A d \in member \ X : Quiet(d) /\ read'[d] = read[d]
      /\ \A d \in X \cap member' : Covers(d, read[d])'
    BY <1>1
<1>3. \A p \in Process : \/ tx'[p].read = {}
                         \/ tx'[p] = tx[p] /\ \A d \in X : <<"read", d>> \notin tx[p].docs
    BY <1>1
<1>4. Covered' /\ Acknowledged'
    BY <1>2, <1>3, OthersCovered
<1> QED BY <1>4, CountSame, CutStays DEF UInv

\* A message that nobody has to count is sent.
LEMMA SendUncountedCounts ==
    ASSUME NInv, NInv', UInv, NEW c \in Convs, I!SendUncounted(c)
    PROVE  UInv'
<1>1. PICK k : Grown(c, k)
    <2>1. CASE c \in member
        <3>1. I!Put(c, TRUE, FALSE)
            BY <2>1 DEF I!SendUncounted, I!Put
        <3> QED BY <3>1, PutGrows DEF NInv
    <2>2. CASE c \notin member
        <3>1. I!Put(c, FALSE, FALSE)
            <4>1. (c \in member) = FALSE
                BY <2>2
            <4>2. I!Put(c, c \in member, FALSE)
                BY DEF I!SendUncounted
            <4> QED BY <4>1, <4>2, Zenon
        <3> QED BY <3>1, PutGrows DEF NInv
    <2> QED BY <2>1, <2>2
<1>2. UNCHANGED <<member, read, summary, cutoff, tx>>
    BY DEF I!SendUncounted
<1>3. c \in member => sent'[k].mine
    BY <1>1 DEF I!SendUncounted, I!Put, Grown
<1>4. \A d \in member : Quiet(d)
    BY <1>1, <1>2, <1>3, GrownQuiet DEF NInv, Positions
<1>5. \A d \in Convs : I!Of(d) \subseteq I!Of(d)'
    BY <1>1 DEF Grown
<1> QED BY <1>2, <1>4, <1>5, Uncounted

\* One message less is shown, and the count stays.
LEMMA DeleteCounts ==
    ASSUME NInv, NInv', UInv, NEW m \in I!Id, I!Delete(m)
    PROVE  UInv'
<1>1. sent' = [sent EXCEPT ![m].deleted = TRUE] /\ UNCHANGED <<member, read, summary, cutoff>>
      /\ tx' = I!Kept({<<"guard", m>>})
    BY DEF I!Delete
<1>2. I!Id' = I!Id
    BY <1>1 DEF I!Id
<1>3. \A i \in I!Id : /\ sent'[i].conv = sent[i].conv /\ sent'[i].mine = sent[i].mine
                      /\ sent[i].deleted => sent'[i].deleted
    BY <1>1 DEF NInv, Stored, MessageDoc
<1>4. \A d : I!Of(d)' = I!Of(d) /\ I!Theirs(d)' = I!Theirs(d)
    BY <1>2, <1>3 DEF I!Of, I!Theirs
<1>5. \A d : I!Of(d) \subseteq I!Id
    BY DEF I!Of
<1>6. \A d \in member : Quiet(d)
    BY <1>1, <1>3, <1>4, <1>5 DEF Quiet
<1>7. \A p \in Process : tx'[p].read = {} \/ tx'[p] = tx[p]
    BY <1>1 DEF I!Kept, I!Idle
<1> QED BY <1>1, <1>4, <1>6, <1>7, Uncounted

\* Steps that leave messages and marks alone.
LEMMA StillQuiet ==
    ASSUME UNCHANGED <<sent, cutoff>>
    PROVE  /\ \A d : Quiet(d)
           /\ \A d \in Convs : I!Of(d) \subseteq I!Of(d)'
<1>1. \A d : I!Of(d)' = I!Of(d) /\ I!Theirs(d)' = I!Theirs(d)
    BY DEF I!Id, I!Of, I!Theirs
<1> QED BY <1>1 DEF Quiet

\* What a read from position i up to message m acknowledges.
Acked(c, i, m) == {j \in I!Theirs(c) : i < j /\ j <= m /\ ~sent[j].deleted}

\* Between two positions lies what the second has and the first has not.
LEMMA Apart ==
    ASSUME Stored, NEW c, NEW i \in Nat, NEW m \in Nat, i <= m
    PROVE  /\ I!Cardinality(Acked(c, i, m) \cap I!Shown(c)) \in Nat
           /\ Cardinality(Beyond(c, m) \cap I!Shown(c)) \in Nat
           /\ Cardinality(Beyond(c, i) \cap I!Shown(c))
                = I!Cardinality(Acked(c, i, m) \cap I!Shown(c)) + Cardinality(Beyond(c, m) \cap I!Shown(c))
<1> DEFINE A == Acked(c, i, m) \cap I!Shown(c)
           B == Beyond(c, m) \cap I!Shown(c)
           D == Beyond(c, i) \cap I!Shown(c)
<1>1. /\ I!Of(c) \subseteq Nat /\ I!Theirs(c) \subseteq I!Of(c) /\ I!Shown(c) \subseteq I!Of(c)
      /\ \A j \in I!Shown(c) : ~sent[j].deleted
    BY Countable DEF I!Shown
<1>2. A \subseteq I!Of(c) /\ B \subseteq I!Of(c) /\ D \subseteq I!Of(c)
    BY <1>1
<1>3. A \cup B = D /\ A \cap B = {}
    BY <1>1 DEF Beyond, Acked
<1> HIDE DEF A, B, D
<1>4. IsFiniteSet(A) /\ IsFiniteSet(B) /\ Cardinality(A) \in Nat /\ Cardinality(B) \in Nat
    BY <1>2, Countable
<1>5. Cardinality(D) = Cardinality(A) + Cardinality(B)
    <2>1. Cardinality(A \cup B) = Cardinality(A) + Cardinality(B) - Cardinality(A \cap B)
        BY <1>4, FS_Union
    <2>2. Cardinality(A \cap B) = 0
        BY <1>3, FS_EmptySet
    <2>3. Cardinality(A \cup B) = Cardinality(D)
        BY <1>3
    <2> QED BY <1>4, <2>1, <2>2, <2>3
<1> QED BY <1>4, <1>5, SameCount DEF A, B, D

\* What a read leaves unread covers what it leaves.
LEMMA ReadThroughCovers ==
    ASSUME NInv, UInv, NEW c \in member, NEW m, m \in I!Shown(c) \cup {0}, NEW new \in ReadDoc, new = I!ReadThrough(c, m)
    PROVE  Covers(c, new) /\ new.unread <= read[c].unread
<1>1. PICK i \in Nat, u \in Nat : i = read[c].last /\ u = read[c].unread
    BY DEF NInv, Positions, ReadDoc
<1>2. Covers(c, read[c]) /\ c \in Convs /\ cutoff[c] \in Nat /\ Stored
    BY DEF UInv, Covered, NInv, Positions, Marks
<1>3. i >= cutoff[c] /\ u >= Cardinality(Beyond(c, i) \cap I!Shown(c))
      /\ ((\A j \in I!Of(c) : ~sent[j].deleted) => u = Cardinality(Beyond(c, i)))
    BY <1>1, <1>2 DEF Covers
<1>4. /\ I!Of(c) \in SUBSET I!Message /\ I!Of(c) \subseteq Nat /\ 0 \notin I!Of(c)
      /\ I!Theirs(c) \subseteq I!Of(c) /\ I!Shown(c) \subseteq I!Of(c)
    BY <1>2, Countable
\* With nothing deleted all that is behind the cutoff is shown.
<1>5. ASSUME NEW k \in Nat, k >= cutoff[c], \A j \in I!Of(c) : ~sent[j].deleted
      PROVE  Beyond(c, k) \cap I!Shown(c) = Beyond(c, k)
    BY <1>2, <1>4, <1>5 DEF Beyond, I!Shown
<1>6. PICK x : x = I!Target(c, m)
    OBVIOUS
<1>7. PICK y : y = I!Remaining(c, m)
    OBVIOUS
<1>8. new = IF x # 0 /\ i >= x THEN read[c] ELSE [last |-> x, unread |-> y]
    BY <1>1, <1>6, <1>7 DEF I!ReadThrough
<1>9. CASE x # 0 /\ i >= x
    BY <1>1, <1>2, <1>8, <1>9
<1>10. CASE ~(x # 0 /\ i >= x) /\ m = 0
    <2>1. new.last = x /\ new.unread = 0
        BY <1>7, <1>8, <1>10 DEF I!Remaining
    <2>2. x \in Nat /\ x >= cutoff[c] /\ \A j \in I!Shown(c) : j <= x
        <3>1. CASE I!Shown(c) = {}
            BY <1>1, <1>2, <1>3, <1>6, <1>10, <3>1 DEF I!Target
        <3>2. CASE I!Shown(c) # {}
            <4>1. I!Shown(c) \in SUBSET I!Message
                BY <1>4
            <4>2. x \in I!Shown(c) /\ \A j \in I!Shown(c) : j <= x
                BY <1>6, <1>10, <3>2, <4>1, LatestOf DEF I!Target
            <4> QED BY <1>2, <1>4, <4>2 DEF I!Shown
        <3> QED BY <3>1, <3>2
    <2>3. Beyond(c, x) \cap I!Shown(c) = {}
        BY <1>4, <2>2 DEF Beyond
    <2>4. Cardinality(Beyond(c, x) \cap I!Shown(c)) = 0
        BY <2>3, FS_EmptySet
    <2>5. (\A j \in I!Of(c) : ~sent[j].deleted) => Cardinality(Beyond(c, x)) = 0
        BY <1>5, <2>2, <2>4
    <2> QED BY <1>1, <2>1, <2>2, <2>4, <2>5 DEF Covers
<1>11. CASE ~(x # 0 /\ i >= x) /\ m # 0
    <2>1. m \in I!Shown(c) /\ m \in Nat /\ m > cutoff[c] /\ x = m /\ i < m
        BY <1>1, <1>2, <1>4, <1>6, <1>11 DEF I!Shown, I!Target
    <2>2. PICK A : A = Acked(c, i, m) \cap I!Shown(c)
        OBVIOUS
    <2>3. Acked(c, i, m) \subseteq I!Shown(c)
        BY <1>1, <1>2, <1>3, <1>4 DEF Acked, I!Shown
    <2>4. A = Acked(c, i, m) /\ i <= m
        BY <2>1, <2>2, <2>3
    <2>5. PICK a \in Nat, b \in Nat :
                /\ a = I!Cardinality(A) /\ b = Cardinality(Beyond(c, m) \cap I!Shown(c))
                /\ Cardinality(Beyond(c, i) \cap I!Shown(c)) = a + b
        <3>1. /\ I!Cardinality(Acked(c, i, m) \cap I!Shown(c)) \in Nat
              /\ Cardinality(Beyond(c, m) \cap I!Shown(c)) \in Nat
              /\ Cardinality(Beyond(c, i) \cap I!Shown(c))
                   = I!Cardinality(Acked(c, i, m) \cap I!Shown(c)) + Cardinality(Beyond(c, m) \cap I!Shown(c))
            BY <1>2, <2>1, <2>4, Apart
        <3> QED BY <2>2, <3>1
    <2>6. y = IF a > u THEN 0 ELSE u - a
        BY <1>1, <1>7, <1>11, <2>4, <2>5 DEF Acked, I!Remaining, I!Minus
    <2>7. y = u - a /\ y \in Nat /\ y >= b /\ y <= u
        BY <1>3, <2>5, <2>6
    <2>8. (\A j \in I!Of(c) : ~sent[j].deleted) => y = Cardinality(Beyond(c, m))
        <3> SUFFICES ASSUME \A j \in I!Of(c) : ~sent[j].deleted PROVE y = Cardinality(Beyond(c, m))
            OBVIOUS
        <3>1. Beyond(c, i) \cap I!Shown(c) = Beyond(c, i) /\ Beyond(c, m) \cap I!Shown(c) = Beyond(c, m)
            BY <1>1, <1>2, <1>3, <1>5, <2>1
        <3>2. u = a + b /\ b = Cardinality(Beyond(c, m))
            BY <1>3, <2>5, <3>1
        <3> QED BY <2>5, <2>7, <3>2
    <2>9. new.last = m /\ new.unread = y
        BY <1>8, <1>11, <2>1
    <2>10. m >= cutoff[c] /\ y >= Cardinality(Beyond(c, m) \cap I!Shown(c))
        BY <1>2, <2>1, <2>5, <2>7
    <2> QED BY <1>1, <2>7, <2>8, <2>9, <2>10 DEF Covers
<1> QED BY <1>9, <1>10, <1>11

\* A transaction that begins knows what it is going to write.
LEMMA OpenCounts ==
    ASSUME NInv, NInv', UInv, NEW p \in Process, NEW t, I!Open(p, t),
           \A x \in t.read :
                \E c \in member, new \in ReadDoc :
                    /\ x = <<c, new>> /\ <<"read", c>> \in t.docs
                    /\ Covers(c, new) /\ new.unread <= read[c].unread
    PROVE  UInv'
<1>1. tx' = [tx EXCEPT ![p] = t] /\ UNCHANGED <<sent, member, cutoff, read, summary>>
    BY DEF I!Open
<1>2. /\ \A d : I!Of(d)' = I!Of(d)
      /\ \A c, r : Covers(c, r) => Covers(c, r)'
    <2>1. \A d : I!Of(d)' = I!Of(d) /\ I!Theirs(d)' = I!Theirs(d) /\ I!Shown(d)' = I!Shown(d)
        BY <1>1 DEF I!Id, I!Of, I!Theirs, I!Shown
    <2>2. \A c, i : Beyond(c, i)' = Beyond(c, i)
        BY <2>1 DEF Beyond
    <2> QED BY <1>1, <2>1, <2>2 DEF Covers
<1>3. CutAt'
    BY <1>1, <1>2, CutStays
<1>4. Covered'
    <2>1. ASSUME NEW c \in member PROVE Covers(c, read[c])'
        <3>1. PICK r : r = read[c]
            OBVIOUS
        <3>2. Covers(c, r)'
            BY <1>2, <3>1 DEF UInv, Covered
        <3> QED BY <1>1, <3>1, <3>2
    <2> QED BY <1>1, <2>1 DEF Covered
<1>5. Acknowledged'
    <2>1. ASSUME NEW q \in Process, NEW x \in tx'[q].read
          PROVE  \E c \in member', new \in ReadDoc :
                    /\ x = <<c, new>> /\ <<"read", c>> \in tx'[q].docs
                    /\ Covers(c, new)' /\ new.unread <= read'[c].unread
        <3>1. PICK y : y = tx'[q]
            OBVIOUS
        <3>2. y = t \/ y = tx[q]
            BY <1>1, <3>1 DEF NInv, Engaged
        <3>3. \E c \in member, new \in ReadDoc :
                    /\ x = <<c, new>> /\ <<"read", c>> \in y.docs
                    /\ Covers(c, new) /\ new.unread <= read[c].unread
            BY <2>1, <3>1, <3>2 DEF UInv, Acknowledged
        <3> QED BY <1>1, <1>2, <3>1, <3>3
    <2> QED BY <2>1 DEF Acknowledged
<1> QED BY <1>1, <1>3, <1>4, <1>5, CountSame DEF UInv

LEMMA MarkReadCounts ==
    ASSUME NInv, NInv', UInv, NEW p \in Process, NEW c \in Convs, NEW m \in I!Position, I!MarkRead(p, c, m)
    PROVE  UInv'
<1>1. PICK new : new = I!ReadThrough(c, m)
    OBVIOUS
<1>2. PICK t : t = [I!Idle EXCEPT
                !.docs = {<<"read", c>>} \cup I!SummaryDoc(read[c].unread - new.unread)
                            \cup {<<"note", i>> : i \in {i \in I!Of(c) : note[i] = "valid" /\ i <= new.last}},
                !.read = {<<c, new>>},
                !.notes = [i \in {i \in I!Of(c) : note[i] = "valid" /\ i <= new.last} |-> "invalid"],
                !.latest = (m = 0)]
    OBVIOUS
<1>3. c \in member /\ m \in I!Shown(c) \cup {0} /\ I!Open(p, t)
    BY <1>1, <1>2 DEF I!MarkRead
<1>4. t.read = {<<c, new>>} /\ <<"read", c>> \in t.docs
    BY <1>2 DEF I!Idle
<1>5. new \in ReadDoc
    <2>1. tx'[p] = t
        BY <1>3 DEF I!Open, NInv, Engaged
    <2>2. t # I!Idle
        BY <1>4 DEF I!Idle
    <2>3. Busy(t)'
        BY <2>1 DEF NInv, Engaged, Busy
    <2>4. \E d \in member' : \E y \in ReadDoc : t.read = {<<d, y>>}
        BY <1>4, <2>2, <2>3 DEF Busy, Acknowledges, Creates, Withdraws
    <2>5. PICK d, y : y \in ReadDoc /\ t.read = {<<d, y>>}
        BY <2>4
    <2>6. <<c, new>> = <<d, y>>
        BY <1>4, <2>5
    <2> QED BY <2>5, <2>6
<1>6. Covers(c, new) /\ new.unread <= read[c].unread
    BY <1>1, <1>3, <1>5, ReadThroughCovers
<1> QED BY <1>3, <1>4, <1>5, <1>6, OpenCounts

LEMMA HandleCounts ==
    ASSUME NInv, NInv', UInv, NEW p \in Process, NEW e, I!HandleCreated(p, e) \/ I!HandleDeleted(p, e)
    PROVE  UInv'
<1>1. PICK t : I!Open(p, t) /\ t.read = {}
    <2>1. \E docs, S, status : I!Handle(p, e, docs, S, status)
        BY Zenon DEF I!HandleCreated, I!HandleDeleted
    <2>2. PICK docs, S, status : I!Handle(p, e, docs, S, status)
        BY <2>1
    <2> QED BY <2>2, Handled
<1> QED BY <1>1, OpenCounts

\* A read writes the count it found, since who writes the read state meanwhile
\* makes it begin again.
LEMMA CommitCounts ==
    ASSUME NInv, NInv', UInv, NEW p \in Process, I!Commit(p)
    PROVE  UInv'
<1>1. PICK t : t = tx[p]
    OBVIOUS
<1>2. t # I!Idle /\ Commits(p, t)
    BY <1>1 DEF I!Commit, Commits, NInv, Engaged
<1>3. UNCHANGED <<sent, member, cutoff>> /\ tx' = [I!Kept(t.docs) EXCEPT ![p] = I!Idle]
    BY <1>2 DEF Commits
<1>4. \A q \in Process : tx'[q].read = {} \/ (tx'[q] = tx[q] /\ tx[q].docs \cap t.docs = {})
    BY <1>3 DEF I!Kept, I!Idle
<1>5. (\A d : Quiet(d)) /\ \A d \in Convs : I!Of(d) \subseteq I!Of(d)'
    BY <1>3, StillQuiet
<1>6. ASSUME NEW c \in member, NEW new \in ReadDoc, Acknowledges(t, c, new) PROVE UInv'
    <2>1. t.read = {<<c, new>>} /\ <<"read", c>> \in t.docs
        BY <1>6 DEF Acknowledges
    <2>2. (CHOOSE x \in {<<c, new>>} : TRUE) = <<c, new>>
        OBVIOUS
    <2>3. /\ read' = [read EXCEPT ![c] = new]
          /\ summary' = I!ApplyReadDelta(summary, read[c].unread, new.unread)
        BY <1>1, <2>1, <2>2 DEF I!Commit
    <2>4. c \in Convs /\ read'[c] = new /\ \A d \in member \ {c} : read'[d] = read[d]
        BY <2>3 DEF NInv, Positions
    <2>5. Covers(c, new) /\ new.unread <= read[c].unread
        <3>1. PICK d \in member, y \in ReadDoc :
                    <<c, new>> = <<d, y>> /\ Covers(d, y) /\ y.unread <= read[d].unread
            <4>1. <<c, new>> \in tx[p].read
                BY <1>1, <2>1
            <4> QED BY <4>1, Zenon DEF UInv, Acknowledged
        <3>2. d = c /\ y = new
            BY <3>1
        <3> QED BY <3>1, <3>2
    <2>6. Covers(c, read[c])'
        <3>1. Covers(c, new)'
            BY <1>5, <2>4, <2>5, QuietCovers DEF NInv
        <3> QED BY <2>4, <3>1
    <2>7. Covered' /\ Acknowledged'
        <3>1. \A q \in Process : tx'[q].read = {} \/ (tx'[q] = tx[q] /\ <<"read", c>> \notin tx[q].docs)
            BY <1>4, <2>1
        <3> QED BY <1>3, <1>5, <2>4, <2>6, <3>1, OneCovered
    <2>8. Owed(c) = read[c].unread /\ Owed(c)' = new.unread
        BY <1>3, <2>4 DEF Owed
    <2>9. I!SummaryExact'
        BY <1>3, <2>3, <2>4, <2>5, <2>8, CountedDown
    <2> QED BY <1>3, <1>5, <2>7, <2>9, CutStays DEF UInv
<1>7. ASSUME NEW m \in I!Id, Creates(t, m) \/ Withdraws(t, m) PROVE UInv'
    <2>1. UNCHANGED <<read, summary>>
        BY <1>1, <1>7 DEF I!Commit, Creates, Withdraws
    <2> QED BY <1>3, <1>4, <1>5, <2>1, Uncounted
<1> QED BY <1>2, <1>6, <1>7 DEF Commits, Busy

LEMMA CountsInit == I!Init => UInv
<1> SUFFICES ASSUME I!Init PROVE UInv
    OBVIOUS
<1>1. \A c : I!Of(c) = {} /\ I!Theirs(c) = {}
    BY DEF I!Init, I!NoWrites, I!Id, I!Of, I!Theirs
<1>2. CutAt
    BY DEF I!Init, CutAt, At
<1>3. Covered
    <2>1. ASSUME NEW c \in Convs PROVE Covers(c, [last |-> 0, unread |-> 0])
        <3>1. Beyond(c, 0) = {} /\ Beyond(c, 0) \cap I!Shown(c) = {}
            BY <1>1 DEF Beyond
        <3>2. Cardinality(Beyond(c, 0)) = 0 /\ Cardinality(Beyond(c, 0) \cap I!Shown(c)) = 0
            BY <3>1, FS_EmptySet
        <3> QED BY <3>2 DEF I!Init, Covers
    <2> QED BY <2>1 DEF I!Init, Covered
<1>4. Acknowledged
    BY DEF I!Init, I!Idle, Acknowledged
<1>5. I!SummaryExact
    <2>1. PICK S : S = I!Unread
        OBVIOUS
    <2>2. S = {}
        BY <2>1 DEF I!Init, I!Unread
    <2>3. Cardinality(S) = 0
        BY <2>2, FS_EmptySet
    <2>4. Total(read, S) = 0
        BY <2>2, FS_EmptySet, TotalRule
    <2>5. I!Sum = [convs |-> 0, total |-> 0]
        BY <2>1, <2>3, <2>4, SummaryIs
    <2> QED BY <2>5 DEF I!Init, I!SummaryExact
<1> QED BY <1>2, <1>3, <1>4, <1>5 DEF UInv

LEMMA CountsNext ==
    ASSUME NInv, NInv', UInv, I!Next \/ UNCHANGED inboxVars
    PROVE  UInv'
<1>1. CASE UNCHANGED inboxVars
    <2>1. UNCHANGED <<sent, member, cutoff, read, summary, tx>>
        BY <1>1 DEF inboxVars
    <2> QED BY <2>1, StillQuiet, Uncounted
<1>2. CASE I!Next
    BY <1>2, SendCounts, LeaveCounts, SendUncountedCounts, ClearCounts, JoinCounts, DeleteCounts,
        MarkReadCounts, HandleCounts, CommitCounts DEF I!Next
<1> QED BY <1>1, <1>2

LEMMA CountsGiven == NInv /\ UInv => UnreadCounted
<1> SUFFICES ASSUME NInv, UInv PROVE UnreadCounted
    OBVIOUS
<1>1. \A c \in member : Beyond(c, read[c].last) = I!After(c)
    BY DEF Beyond, I!After
<1>2. \A c \in member :
        /\ read[c].unread >= Cardinality(I!After(c) \cap I!Shown(c))
        /\ (\A m \in I!Of(c) : ~sent[m].deleted) => read[c].unread = Cardinality(I!After(c))
    BY <1>1 DEF UInv, Covered, Covers
<1>3. I!UnreadCovers
    BY <1>2, SameCount DEF I!UnreadCovers
<1> QED BY <1>3 DEF UInv, UnreadCounted

-----------------------------------------------------------------------------
(* The three together: in every step one of them moves and the others rest. *)

ListsInv == PInv /\ TInv /\ NInv /\ UInv

LEMMA Starts == Init => ListsInv
BY PagesInit, TimelineInit, InboxInit, CountsInit DEF Init, ListsInv

LEMMA Moves ==
    ASSUME ListsInv, [Next]_vars
    PROVE  ListsInv' /\ Forward
<1>1. P!Next \/ UNCHANGED pagesVars
    BY DEF Next, vars
<1>2. T!Next \/ UNCHANGED timelineVars
    BY DEF Next, vars
<1>3. I!Next \/ UNCHANGED inboxVars
    BY DEF Next, vars
<1> QED BY <1>1, <1>2, <1>3, PagesNext, TimelineNext, InboxNext, CountsNext DEF ListsInv

LEMMA Invariance == Spec => []ListsInv
<1>1. ListsInv /\ [Next]_vars => ListsInv'
    BY Moves
<1> QED BY <1>1, Starts, PTL DEF Spec

\* Page by page every row of a list comes once, and every row that was there
\* all the time comes (the cursors of the list queries).
THEOREM PagesGiveEachOnce == Spec => []EachOnce
<1>1. ListsInv => EachOnce
    BY PagesGiven DEF ListsInv
<1> QED BY <1>1, Invariance, PTL

\* The counters of tweets and users are the numbers of what they count, and a
\* timeline holds no tweet that is gone (the transactions of TweetService and
\* UserService).
THEOREM CountersAgree == Spec => []TimelineAgrees
<1>1. ListsInv => TimelineAgrees
    BY TimelineGiven DEF ListsInv
<1> QED BY <1>1, Invariance, PTL

\* Nothing that is read or deleted stays notified, in any order of the reads,
\* deletions and handlers (DirectedNotificationReadService and the guards).
THEOREM NoStaleNotes == Spec => []NotesCurrent
<1>1. ListsInv => NotesCurrent
    BY InboxGiven DEF ListsInv
<1> QED BY <1>1, Invariance, PTL

\* The unread messages of a conversation are all counted, and the summary over
\* all conversations is the sum of the read states, through every overlap of
\* reads, messages, clearings and changes of membership (ConversationReadService).
THEOREM UnreadIsCounted == Spec => []UnreadCounted
<1>1. ListsInv => UnreadCounted
    BY CountsGiven DEF ListsInv
<1> QED BY <1>1, Invariance, PTL

\* A read position never goes back (markReadInTransaction).
THEOREM ReadsGoForward == Spec => ForwardOnly
<1>1. ListsInv /\ [Next]_vars => [\A c \in member \cap member' : read'[c].last >= read[c].last]_I!vars
    BY Moves DEF Forward
<1> QED BY <1>1, Invariance, PTL DEF Spec, ForwardOnly, I!ForwardOnly

=============================================================================
