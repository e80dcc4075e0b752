------------------------- MODULE FollowedFanoutProofs -------------------------
(***************************************************************************)
(* Proofs about FollowedFanout.  The chain of pages is never broken: of a  *)
(* follower who is yet to be told, the invariant names what will tell them *)
(* from every stage a job can be in.  A job that waits or runs is before   *)
(* them; the page under way has them in it or will be continued before     *)
(* them; and behind every job that completed there is another, which is    *)
(* why the queue may drop the addition of a job it still keeps.            *)
(***************************************************************************)
EXTENDS FollowedFanout, FiniteSetTheorems, WellFoundedInduction, TLAPS

Live(c) == jobs[c].state \in {"waiting", "active"}

\* No two users share a relation, and a steady user has one, opted in.
Relations ==
    /\ \A u \in User : rel[u] <= lastRel
    /\ \A u, v \in User : rel[u] # 0 /\ rel[u] = rel[v] => u = v
    /\ \A u \in steady : rel[u] # 0 /\ rel[u] \in optedIn /\ u \notin blocked

\* A worker owns the job it runs, and a job in the queue has an attempt left.
Queue ==
    /\ \A c \in Cursor : Live(c) \/ jobs[c].state = "absent" => jobs[c].tries < Attempts /\ jobs[c].stalls < 2
    /\ \A c \in Cursor : jobs[c].state = "failed" => gaveUp
    /\ \A w \in Worker : run[w].at # "idle" => jobs[run[w].cursor].state = "active"
    /\ \A w, v \in Worker : run[w].at # "idle" /\ run[v].at # "idle" /\ run[w].cursor = run[v].cursor
                            => w = v

\* Until the event is marked processed nothing but the first job is added, and
\* it does not get beyond its guard.
Early ==
    ~processed =>
        /\ \A c \in Cursor : IF c = 0 THEN jobs[c].state # "completed" ELSE jobs[c].state = "absent"
        /\ \A w \in Worker : run[w].at \in {"idle", "begin"}

\* An open transaction writes only what is still wanted.
Wanted ==
    \A w \in Worker : run[w].at = "open" =>
        \A u \in run[w].new : tweeted /\ u \notin blocked /\ made[u] = 0

\* The page of w will be continued before u.
Continued(w, u) == run[w].next # 0 /\ run[w].next < rel[u]

\* There is a job behind c and before u.
LiveBetween(c, u) == \E d \in Cursor : c < d /\ d < rel[u] /\ Live(d)

Linked(u) ==
    /\ made[u] = 1 \/ Ahead(u)
    /\ \A c \in Cursor : jobs[c].state = "completed" /\ c < rel[u] => made[u] = 1 \/ LiveBetween(c, u)
    /\ \A w \in Worker : run[w].cursor < rel[u] =>
        /\ run[w].at = "open" => made[u] = 1 \/ u \in run[w].new \/ Continued(w, u)
        /\ run[w].at = "committed" => made[u] = 1 \/ Continued(w, u)
        /\ run[w].at = "added" => made[u] = 1 \/ LiveBetween(run[w].cursor, u)

Chain == processed /\ tweeted /\ ~gaveUp => \A u \in steady : Linked(u)

Forward == \A w \in Worker : run[w].next = 0 \/ run[w].cursor < run[w].next

IInv == TypeOK /\ Relations /\ Queue /\ Early /\ Wanted /\ OnceEach /\ Forward /\ Chain

-----------------------------------------------------------------------------
(* Pages.                                                                  *)

LEMMA Least ==
    ASSUME NEW S \in SUBSET Nat, S # {}
    PROVE  \E x \in S : \A y \in S : x <= y
<1> DEFINE R == OpToRel(<, Nat)
<1>1. IsWellFoundedOn(R, Nat)
    BY NatLessThanWellFounded
<1>2. R = {ss \in Nat \X Nat : ss[1] < ss[2]}
    BY DEF OpToRel
<1> HIDE DEF R
<1>3. PICK x \in S : \A y \in S : ~(<<y, x>> \in R)
    BY <1>1, WFMin
<1>4. ASSUME NEW y \in S PROVE x <= y
    <2>1. ~(<<y, x>> \in R) /\ x \in Nat /\ y \in Nat
        BY <1>3
    <2>2. y < x => <<y, x>> \in R
        BY <1>2, <2>1
    <2> QED BY <2>1, <2>2
<1> QED BY <1>4

LEMMA Greatest ==
    ASSUME NEW S \in SUBSET Nat, S # {}, NEW n \in Nat, \A x \in S : x <= n
    PROVE  Max(S) \in S /\ \A x \in S : x <= Max(S)
<1> DEFINE B == {b \in Nat : \A x \in S : x <= b}
<1>1. PICK m \in B : \A b \in B : m <= b
    BY Least
<1>2. m \in S
    <2> SUFFICES ASSUME m \notin S PROVE FALSE
        OBVIOUS
    <2>1. \A x \in S : x <= m /\ x # m /\ x \in Nat
        OBVIOUS
    <2>2. m \in Nat /\ m # 0
        <3>1. PICK x \in S : TRUE
            OBVIOUS
        <3> QED BY <2>1, <3>1
    <2>3. m - 1 \in B
        BY <2>1, <2>2
    <2> HIDE DEF B
    <2> QED BY <1>1, <2>2, <2>3
<1> QED BY <1>1, <1>2 DEF Max

\* A page short of what is behind its cursor is not empty, and all it leaves
\* out is behind its last relation.
LEMMA PageCut ==
    ASSUME TypeOK, NEW c \in Cursor
    PROVE  /\ Page(c) \subseteq Behind(c) /\ Behind(c) \subseteq User
           /\ Page(c) # Behind(c) =>
                /\ LastOf(Page(c)) \in Cursor /\ c < LastOf(Page(c))
                /\ \A u \in Behind(c) \ Page(c) : LastOf(Page(c)) < rel[u]
<1> DEFINE Below(u) == {v \in Behind(c) : rel[v] < rel[u]}
           RelsOf(S) == {rel[u] : u \in S}
<1>1. Page(c) \subseteq Behind(c) /\ Behind(c) \subseteq User
    BY DEF Page, Behind
<1>2. ASSUME NEW u \in User
      PROVE  IsFiniteSet(Below(u)) /\ Cardinality(Below(u)) \in Nat
    <2>1. IsFiniteSet(User)
        BY FS_Interval, FanoutAssumption DEF User
    <2> QED BY <1>1, <2>1, FS_Subset, FS_CardinalityType
<1>3. \A u \in User : rel[u] \in Nat /\ rel[u] \in Cursor /\ rel[u] <= MaxRelation
    BY FanoutAssumption DEF TypeOK, Cursor
<1> SUFFICES ASSUME Page(c) # Behind(c)
             PROVE  /\ LastOf(Page(c)) \in Cursor /\ c < LastOf(Page(c))
                    /\ \A u \in Behind(c) \ Page(c) : LastOf(Page(c)) < rel[u]
    BY <1>1
<1>4. Page(c) # {}
    <2>1. PICK u \in Behind(c) : \A v \in Behind(c) : rel[u] <= rel[v]
        <3>1. RelsOf(Behind(c)) \in SUBSET Nat /\ RelsOf(Behind(c)) # {}
            BY <1>1, <1>3
        <3> HIDE DEF RelsOf
        <3>2. PICK x \in RelsOf(Behind(c)) : \A y \in RelsOf(Behind(c)) : x <= y
            BY <3>1, Least
        <3> QED BY <3>2 DEF RelsOf
    <2>2. Below(u) = {}
        BY <1>1, <1>3, <2>1
    <2>3. Cardinality(Below(u)) < Batch
        BY <2>2, FS_EmptySet, FanoutAssumption
    <2> QED BY <2>1, <2>3 DEF Page
<1>5. LastOf(Page(c)) \in RelsOf(Page(c)) /\ \A x \in RelsOf(Page(c)) : x <= LastOf(Page(c))
    <2>1. /\ RelsOf(Page(c)) \in SUBSET Nat /\ RelsOf(Page(c)) # {}
          /\ \A x \in RelsOf(Page(c)) : x <= MaxRelation
        BY <1>1, <1>3, <1>4
    <2>2. LastOf(Page(c)) = Max(RelsOf(Page(c)))
        BY DEF LastOf
    <2> HIDE DEF RelsOf
    <2> QED BY <2>1, <2>2, Greatest, FanoutAssumption
<1>6. PICK v \in Page(c) : LastOf(Page(c)) = rel[v]
    BY <1>5
<1>7. LastOf(Page(c)) \in Cursor /\ c < LastOf(Page(c))
    BY <1>1, <1>3, <1>6 DEF Behind
<1>8. ASSUME NEW u \in Behind(c) \ Page(c), ~(rel[v] < rel[u])
      PROVE  FALSE
    <2>1. Below(u) \subseteq Below(v)
        BY <1>1, <1>3, <1>8
    <2>2. Cardinality(Below(u)) <= Cardinality(Below(v))
        <3> HIDE DEF Below
        <3> QED BY <1>1, <1>2, <2>1, FS_Subset
    <2>3. Cardinality(Below(v)) < Batch
        BY DEF Page
    <2>4. Cardinality(Below(u)) < Batch
        <3> HIDE DEF Below
        <3> QED BY <1>1, <1>2, <2>2, <2>3, FanoutAssumption
    <2> QED BY <1>8, <2>4 DEF Page
<1> QED BY <1>6, <1>7, <1>8

-----------------------------------------------------------------------------
(* The invariant holds at first, and while users change what they like.    *)

LEMMA InitInv == Init => IInv
<1> SUFFICES ASSUME Init PROVE IInv
    OBVIOUS
<1> USE FanoutAssumption DEF Init
<1>1. TypeOK
    <2>1. rel \in [User -> Cursor] /\ lastRel \in Cursor /\ optedIn \subseteq Relation /\ steady \subseteq User
        BY DEF User, Relation, Cursor
    <2>2. Absent \in Job /\ Idle \in Run
        BY DEF Absent, Job, Idle, Run, Cursor
    <2>3. jobs \in [Cursor -> Job] /\ run \in [Worker -> Run]
        BY <2>2
    <2>4. tweeted \in BOOLEAN /\ processed \in BOOLEAN /\ gaveUp \in BOOLEAN
        OBVIOUS
    <2>5. blocked \subseteq User /\ made \in [User -> Nat] /\ changes \in 0..MaxChanges /\ faults \in 0..MaxFaults
        OBVIOUS
    <2> QED BY <2>1, <2>3, <2>4, <2>5 DEF TypeOK
<1>2. Relations
    BY DEF Relations, User
<1>3. Queue /\ Early /\ Wanted /\ Forward /\ Chain
    BY DEF Queue, Early, Wanted, Forward, Chain, Live, Absent, Idle
<1>4. OnceEach
    BY DEF OnceEach
<1> QED BY <1>1, <1>2, <1>3, <1>4 DEF IInv

\* What a conflict leaves of the workers.
LEMMA ConflictRuns ==
    ASSUME run \in [Worker -> Run], NEW ws
    PROVE  /\ Conflict(ws) \in [Worker -> Run]
           /\ \A w \in Worker :
                /\ Conflict(ws)[w].cursor = run[w].cursor
                /\ Conflict(ws)[w].next = run[w].next /\ Conflict(ws)[w].new = run[w].new
                /\ Conflict(ws)[w].at = IF run[w].at = "open" /\ w \in ws THEN "begin" ELSE run[w].at
BY DEF Conflict, Run

\* Open pages start over or stay; the relations of the steady stay.
Loosened ==
    \A w \in Worker :
        /\ run'[w].cursor = run[w].cursor /\ run'[w].next = run[w].next /\ run'[w].new = run[w].new
        /\ run'[w].at = run[w].at \/ (run[w].at = "open" /\ run'[w].at = "begin")

LEMMA MeanwhileInv ==
    ASSUME IInv, TypeOK', Relations', Loosened, Wanted',
           UNCHANGED <<processed, jobs, made, gaveUp>>,
           tweeted' => tweeted, steady' \subseteq steady, \A u \in steady' : rel'[u] = rel[u]
    PROVE  IInv'
<1> USE DEF IInv
<1>1. Queue'
    BY DEF Queue, Live, Loosened
<1>2. Early' /\ Forward' /\ OnceEach'
    BY DEF Early, Forward, OnceEach, Loosened
<1>3. Chain'
    <2> SUFFICES ASSUME processed, tweeted, ~gaveUp, NEW u \in steady' PROVE Linked(u)'
        BY DEF Chain
    <2>1. Linked(u) /\ rel'[u] = rel[u]
        BY DEF Chain
    <2> QED BY <2>1 DEF Linked, LiveBetween, Ahead, Live, Continued, Loosened
<1> QED BY <1>1, <1>2, <1>3

LEMMA FollowInv == ASSUME IInv, NEW u \in User, Follow(u) PROVE IInv'
<1> USE FanoutAssumption DEF IInv, Follow
<1>1. TypeOK'
    BY DEF TypeOK, Cursor
<1>2. Relations'
    BY DEF TypeOK, Relations, Cursor, User
<1>3. Loosened /\ Wanted' /\ \A v \in steady : rel'[v] = rel[v]
    BY DEF TypeOK, Relations, Loosened, Wanted
<1> QED BY <1>1, <1>2, <1>3, MeanwhileInv

LEMMA UnfollowInv == ASSUME IInv, NEW u \in User, Unfollow(u) PROVE IInv'
<1> USE FanoutAssumption DEF IInv, Unfollow
<1>1. TypeOK'
    BY DEF TypeOK, Cursor
<1>2. Relations'
    BY DEF TypeOK, Relations, Cursor
<1>3. Loosened /\ Wanted' /\ \A v \in steady' : rel'[v] = rel[v]
    BY DEF TypeOK, Loosened, Wanted
<1> QED BY <1>1, <1>2, <1>3, MeanwhileInv

LEMMA PreferInv == ASSUME IInv, NEW u \in User, Prefer(u) PROVE IInv'
<1> USE FanoutAssumption DEF IInv, Prefer
<1>1. TypeOK'
    <2>1. rel[u] \in Relation
        BY DEF TypeOK, Cursor, Relation
    <2> QED BY <2>1 DEF TypeOK
<1>2. Relations'
    BY DEF TypeOK, Relations, Cursor
<1>3. Loosened /\ Wanted'
    BY DEF TypeOK, Loosened, Wanted
<1> QED BY <1>1, <1>2, <1>3, MeanwhileInv

LEMMA BlockInv == ASSUME IInv, NEW u \in User, Block(u) PROVE IInv'
<1> USE FanoutAssumption DEF IInv, Block
<1>1. TypeOK'
    BY ConflictRuns DEF TypeOK, Cursor
<1>2. Relations'
    BY DEF TypeOK, Relations, Cursor
<1>3. Loosened /\ \A v \in steady' : rel'[v] = rel[v]
    BY ConflictRuns DEF TypeOK, Loosened
<1>4. Wanted'
    <2> SUFFICES ASSUME NEW w \in Worker, run'[w].at = "open", NEW v \in run'[w].new
                 PROVE  tweeted /\ v \notin blocked' /\ made[v] = 0
        BY DEF Wanted
    <2>1. run[w].at = "open" /\ u \notin run[w].new /\ run'[w].new = run[w].new
        BY ConflictRuns DEF TypeOK
    <2> QED BY <2>1 DEF Wanted
<1> QED BY <1>1, <1>2, <1>3, <1>4, MeanwhileInv

LEMMA DeleteTweetInv == ASSUME IInv, DeleteTweet PROVE IInv'
<1> USE FanoutAssumption DEF IInv, DeleteTweet
<1>1. TypeOK'
    <2>1. tweeted' \in BOOLEAN
        OBVIOUS
    <2>2. run' \in [Worker -> Run] /\ changes' \in 0..MaxChanges
        BY ConflictRuns DEF TypeOK
    <2> QED BY <2>1, <2>2 DEF TypeOK
<1>2. Relations'
    BY DEF Relations
<1>3. Loosened /\ Wanted'
    BY ConflictRuns DEF TypeOK, Loosened, Wanted
<1> QED BY <1>1, <1>2, <1>3, MeanwhileInv

-----------------------------------------------------------------------------
(* The jobs.                                                               *)

\* An addition leaves a job that lives, or that ended.
LEMMA Added ==
    ASSUME TypeOK, Queue, NEW c \in Cursor
    PROVE  /\ WithJob(jobs, c) \in [Cursor -> Job]
           /\ \A d \in Cursor : \/ WithJob(jobs, c)[d] = jobs[d]
                                \/ /\ d = c /\ jobs[c].state = "absent"
                                   /\ WithJob(jobs, c)[c].state = "waiting"
                                   /\ WithJob(jobs, c)[c].tries = jobs[c].tries
                                   /\ WithJob(jobs, c)[c].stalls = jobs[c].stalls
           /\ WithJob(jobs, c)[c].state # "absent"
BY DEF TypeOK, WithJob, Job

\* An addition breaks no chain, and nothing but the first job is added before
\* the event is processed.
LEMMA AddedInv ==
    ASSUME IInv, NEW c \in Cursor, jobs' = WithJob(jobs, c), c = 0 \/ processed,
           UNCHANGED <<env, made, gaveUp, processed>>
    PROVE  /\ jobs' \in [Cursor -> Job]
           /\ \A d \in Cursor :
                /\ (Live(d) \/ jobs[d].state = "absent")' => jobs'[d].tries < Attempts /\ jobs'[d].stalls < 2
                /\ jobs'[d].state = "failed" => gaveUp
                /\ jobs[d].state = "active" => jobs'[d].state = "active"
                /\ jobs'[d].state = "completed" => jobs[d].state = "completed"
                /\ ~processed => IF d = 0 THEN jobs'[d].state # "completed" ELSE jobs'[d].state = "absent"
           /\ \A d \in Cursor : Live(d) => Live(d)'
           /\ \A u \in User : Ahead(u) => Ahead(u)'
           /\ \A u \in User, d \in Cursor : LiveBetween(d, u) => LiveBetween(d, u)'
<1> USE DEF IInv
<1>1. jobs' \in [Cursor -> Job]
    BY Added
<1>2. ASSUME NEW d \in Cursor
      PROVE  /\ (Live(d) \/ jobs[d].state = "absent")' => jobs'[d].tries < Attempts /\ jobs'[d].stalls < 2
             /\ jobs'[d].state = "failed" => gaveUp
             /\ jobs[d].state = "active" => jobs'[d].state = "active"
             /\ jobs'[d].state = "completed" => jobs[d].state = "completed"
             /\ ~processed => IF d = 0 THEN jobs'[d].state # "completed" ELSE jobs'[d].state = "absent"
             /\ Live(d) => Live(d)'
    <2>1. CASE jobs'[d] = jobs[d]
        BY <2>1 DEF Queue, Early, Live
    <2>2. CASE /\ d = c /\ jobs[d].state = "absent" /\ jobs'[d].state = "waiting"
               /\ jobs'[d].tries = jobs[d].tries /\ jobs'[d].stalls = jobs[d].stalls
        BY <2>2 DEF Queue, Early, Live
    <2> QED BY <2>1, <2>2, Added
<1>3. \A d \in Cursor : Live(d) => Live(d)'
    BY <1>2
<1>4. \A u \in User : rel'[u] = rel[u]
    BY DEF env
<1>5. \A u \in User : Ahead(u) => Ahead(u)'
    BY <1>3, <1>4 DEF Ahead, Live
<1>6. \A u \in User, d \in Cursor : LiveBetween(d, u) => LiveBetween(d, u)'
    BY <1>3, <1>4 DEF LiveBetween
<1> HIDE DEF IInv
<1> QED BY <1>1, <1>2, <1>3, <1>5, <1>6

LEMMA AddFirstInv == ASSUME IInv, AddFirst PROVE IInv'
<1> USE DEF IInv, AddFirst
<1>1. 0 \in Cursor
    BY FanoutAssumption DEF Cursor
<1>2. TypeOK'
    BY <1>1, AddedInv DEF TypeOK, env
<1>3. Relations' /\ Wanted' /\ OnceEach' /\ Forward'
    BY DEF Relations, Wanted, OnceEach, Forward, env
<1>4. Queue' /\ Early'
    <2>1. \A w \in Worker : run[w].cursor \in Cursor
        BY DEF TypeOK, Run
    <2> QED BY <1>1, <2>1, AddedInv DEF Queue, Early
<1>5. Chain'
    <2> SUFFICES ASSUME processed, tweeted, ~gaveUp, NEW u \in steady PROVE Linked(u)'
        BY DEF Chain, env
    <2>1. Linked(u) /\ u \in User /\ \A w \in Worker : run[w].cursor \in Cursor
        BY DEF Chain, TypeOK, Run
    <2> QED BY <1>1, <2>1, AddedInv DEF Linked, Continued, env
<1> QED BY <1>2, <1>3, <1>4, <1>5

LEMMA MarkInv == ASSUME IInv, Mark PROVE IInv'
<1> USE DEF IInv, Mark
<1>1. TypeOK' /\ Relations' /\ Queue' /\ Wanted' /\ OnceEach' /\ Forward'
    BY DEF TypeOK, Relations, Queue, Wanted, OnceEach, Forward, env, Live
<1>2. Early'
    BY DEF Early
<1>3. Chain'
    <2> SUFFICES ASSUME tweeted, ~gaveUp, NEW u \in steady PROVE Linked(u)'
        BY DEF Chain, env
    <2>1. CASE processed
        BY <2>1 DEF Chain, Linked, Continued, LiveBetween, Live, Ahead, env
    <2>2. CASE ~processed
        <3>1. 0 \in Cursor /\ Live(0)
            BY <2>2, FanoutAssumption DEF Early, Queue, TypeOK, Job, Cursor, Live
        <3>2. 0 < rel[u]
            BY DEF Relations, TypeOK, Cursor
        <3>3. Ahead(u)'
            BY <3>1, <3>2 DEF Ahead, Live, env
        <3>4. \A c \in Cursor : jobs'[c].state # "completed"
            BY <2>2 DEF Early
        <3>5. \A w \in Worker : run'[w].at \in {"idle", "begin"}
            BY <2>2 DEF Early
        <3> QED BY <3>3, <3>4, <3>5 DEF Linked
    <2> QED BY <2>1, <2>2
<1> QED BY <1>1, <1>2, <1>3

-----------------------------------------------------------------------------
(* The workers.                                                            *)

LEMMA TakeInv == ASSUME IInv, NEW w \in Worker, NEW c \in Cursor, Take(w, c) PROVE IInv'
<1> USE DEF IInv, Take
<1>1. /\ run' \in [Worker -> Run] /\ run'[w].at = "begin" /\ run'[w].cursor = c /\ run'[w].next = 0
      /\ \A v \in Worker : v # w => run'[v] = run[v]
    BY DEF TypeOK, Run, Idle, Cursor
<1>2. /\ jobs' \in [Cursor -> Job] /\ jobs'[c].state = "active"
      /\ jobs'[c].tries = jobs[c].tries /\ jobs'[c].stalls = jobs[c].stalls
      /\ \A d \in Cursor : d # c => jobs'[d] = jobs[d]
    BY DEF TypeOK, Job
<1>3. \A d \in Cursor : Live(d)' <=> Live(d)
    BY <1>2 DEF Live
<1> HIDE DEF Take
<1> USE DEF env
<1>4. /\ UNCHANGED <<rel, lastRel, optedIn, blocked, tweeted, steady, changes, processed, made, gaveUp, faults>>
      /\ run[w] = Idle /\ jobs[c].state = "waiting"
    BY DEF Take
<1>5. TypeOK' /\ Relations' /\ OnceEach'
    BY <1>1, <1>2, <1>4 DEF TypeOK, Relations, OnceEach
<1>6. Wanted' /\ Forward'
    BY <1>1, <1>4 DEF Wanted, Forward
<1>7. Early'
    BY <1>1, <1>2, <1>4 DEF Early
<1>8. Queue'
    <2>1. \A d \in Cursor : (Live(d) \/ jobs[d].state = "absent")' => jobs'[d].tries < Attempts /\ jobs'[d].stalls < 2
        BY <1>2, <1>4 DEF Queue, Live
    <2>2. \A d \in Cursor : jobs'[d].state = "failed" => gaveUp'
        BY <1>2, <1>4 DEF Queue
    <2>3. \A v \in Worker : v # w /\ run[v].at # "idle" => run[v].cursor # c /\ run[v].cursor \in Cursor
        BY <1>4 DEF Queue, TypeOK, Run
    <2>4. \A v \in Worker : run'[v].at # "idle" => jobs'[run'[v].cursor].state = "active"
        BY <1>1, <1>2, <2>3 DEF Queue
    <2>5. \A v, x \in Worker : run'[v].at # "idle" /\ run'[x].at # "idle" /\ run'[v].cursor = run'[x].cursor => v = x
        BY <1>1, <2>3 DEF Queue
    <2> QED BY <2>1, <2>2, <2>4, <2>5 DEF Queue
<1>9. Chain'
    <2> SUFFICES ASSUME processed, tweeted, ~gaveUp, NEW u \in steady PROVE Linked(u)'
        BY <1>4 DEF Chain
    <2>1. Linked(u)
        BY DEF Chain
    <2>2. Ahead(u) => Ahead(u)'
        BY <1>3, <1>4 DEF Ahead, Live
    <2>3. \A d \in Cursor : LiveBetween(d, u) => LiveBetween(d, u)'
        BY <1>3, <1>4 DEF LiveBetween
    <2>4. \A d \in Cursor : jobs'[d].state = "completed" => jobs[d].state = "completed"
        BY <1>2
    <2>5. \A v \in Worker : run[v].cursor \in Cursor
        BY DEF TypeOK, Run
    <2> QED BY <1>1, <1>4, <2>1, <2>2, <2>3, <2>4, <2>5 DEF Linked, Continued
<1> QED BY <1>5, <1>6, <1>7, <1>8, <1>9

\* However a job ends: it completes only with a job behind it for all who are
\* yet to be told.
LEMMA EndsInv ==
    ASSUME IInv, NEW w \in Worker, run[w].at # "idle",
           NEW state \in {"waiting", "failed", "completed"},
           NEW tries \in 0..Attempts, NEW stalls \in 0..2, EndsIn(w, state, tries, stalls),
           state = "waiting" => tries < Attempts /\ stalls < 2,
           state = "completed" => run[w].at = "added",
           UNCHANGED <<env, processed, made>>, faults' \in 0..MaxFaults
    PROVE  IInv'
<1> USE DEF IInv
<1>1. PICK c \in Cursor : c = run[w].cursor /\ jobs[c].state = "active"
    BY DEF TypeOK, Run, Queue
<1>2. /\ run' \in [Worker -> Run] /\ run'[w] = Idle
      /\ \A v \in Worker : v # w => run'[v] = run[v]
    <2>1. Idle \in Run
        BY FanoutAssumption DEF Idle, Run, Cursor
    <2>2. run' = [run EXCEPT ![w] = Idle] /\ run \in [Worker -> Run]
        BY DEF EndsIn, TypeOK
    <2> QED BY <2>1, <2>2
<1>3. /\ jobs' \in [Cursor -> Job]
      /\ jobs'[c] = [state |-> state, tries |-> tries, stalls |-> stalls]
      /\ \A d \in Cursor : d # c => jobs'[d] = jobs[d]
    BY <1>1 DEF EndsIn, TypeOK, Job
<1>4. gaveUp' \in BOOLEAN /\ (gaveUp' <=> gaveUp \/ state = "failed")
    BY DEF EndsIn
<1>5. UNCHANGED <<rel, lastRel, optedIn, blocked, tweeted, steady, changes, processed, made>>
    BY DEF env
<1>7. TypeOK' /\ Relations' /\ OnceEach'
    BY <1>2, <1>3, <1>4, <1>5 DEF TypeOK, Relations, OnceEach
<1>8. Wanted' /\ Forward'
    BY <1>2, <1>5 DEF Wanted, Forward, Idle
<1>9. Early'
    <2> SUFFICES ASSUME ~processed PROVE Early'
        BY <1>5 DEF Early
    <2>1. c = 0 /\ state # "completed"
        BY <1>1 DEF Early
    <2> QED BY <1>2, <1>3, <1>5, <2>1 DEF Early, Idle
<1>10. \A v \in Worker : v # w /\ run[v].at # "idle" => run[v].cursor # c /\ run[v].cursor \in Cursor
    BY <1>1 DEF Queue, TypeOK, Run
<1>11. Queue'
    <2>1. \A d \in Cursor : (Live(d) \/ jobs[d].state = "absent")' => jobs'[d].tries < Attempts /\ jobs'[d].stalls < 2
        <3> SUFFICES ASSUME NEW d \in Cursor, (Live(d) \/ jobs[d].state = "absent")'
                     PROVE  jobs'[d].tries < Attempts /\ jobs'[d].stalls < 2
            OBVIOUS
        <3>1. CASE d = c
            BY <1>3, <3>1 DEF Live
        <3>2. CASE d # c
            BY <1>3, <3>2 DEF Queue, Live
        <3> QED BY <3>1, <3>2
    <2>2. \A d \in Cursor : jobs'[d].state = "failed" => gaveUp'
        BY <1>3, <1>4 DEF Queue
    <2>3. \A v \in Worker : run'[v].at # "idle" => jobs'[run'[v].cursor].state = "active"
        BY <1>2, <1>3, <1>10 DEF Queue, Idle
    <2>4. \A v, x \in Worker : run'[v].at # "idle" /\ run'[x].at # "idle" /\ run'[v].cursor = run'[x].cursor => v = x
        BY <1>2 DEF Queue, Idle
    <2> QED BY <2>1, <2>2, <2>3, <2>4 DEF Queue
<1>12. Chain'
    <2> SUFFICES ASSUME processed, tweeted, ~gaveUp, state # "failed", NEW u \in steady PROVE Linked(u)'
        BY <1>4, <1>5 DEF Chain
    <2>1. Linked(u) /\ rel[u] \in Nat /\ c \in Nat /\ Cursor \subseteq Nat
        BY <1>1 DEF Chain, TypeOK, Cursor
    <2>2. CASE state = "waiting"
        <3>1. \A d \in Cursor : Live(d) => Live(d)'
            BY <1>3, <2>2 DEF Live
        <3>2. \A d \in Cursor : jobs'[d].state = "completed" => jobs[d].state = "completed"
            BY <1>3, <2>2
        <3>3. Ahead(u) => Ahead(u)'
            BY <1>5, <3>1 DEF Ahead, Live
        <3>4. \A d \in Cursor : LiveBetween(d, u) => LiveBetween(d, u)'
            BY <1>5, <3>1 DEF LiveBetween
        <3>5. ASSUME NEW v \in Worker, run'[v].cursor < rel[u]
              PROVE  /\ run'[v].at = "open" => made[u] = 1 \/ u \in run'[v].new \/ Continued(v, u)'
                     /\ run'[v].at = "committed" => made[u] = 1 \/ Continued(v, u)'
                     /\ run'[v].at = "added" => made[u] = 1 \/ LiveBetween(run[v].cursor, u)'
            <4>1. CASE v = w
                BY <1>2, <4>1 DEF Idle
            <4>2. CASE v # w
                <5>1. run'[v] = run[v] /\ run[v].cursor \in Cursor
                    BY <1>2, <4>2 DEF TypeOK, Run
                <5> QED BY <1>5, <2>1, <3>4, <3>5, <5>1 DEF Linked, Continued
            <4> QED BY <4>1, <4>2
        <3> QED BY <1>5, <2>1, <3>2, <3>3, <3>4, <3>5 DEF Linked
    <2>3. CASE state = "completed"
        <3>1. \A d \in Cursor : Live(d) /\ d # c => Live(d)'
            BY <1>3 DEF Live
        <3>2. c < rel[u] => made[u] = 1 \/ LiveBetween(c, u)
            BY <1>1, <2>1, <2>3 DEF Linked
        <3>3. LiveBetween(c, u) => LiveBetween(c, u)'
            <4> SUFFICES ASSUME LiveBetween(c, u) PROVE LiveBetween(c, u)'
                OBVIOUS
            <4>1. PICK d \in Cursor : c < d /\ d < rel[u] /\ Live(d)
                BY DEF LiveBetween
            <4>2. d # c
                BY <2>1, <4>1
            <4> QED BY <1>5, <3>1, <4>1, <4>2 DEF LiveBetween
        <3>4. ASSUME NEW d \in Cursor, LiveBetween(d, u), made[u] # 1
              PROVE  LiveBetween(d, u)'
            <4>1. PICK e \in Cursor : d < e /\ e < rel[u] /\ Live(e)
                BY <3>4 DEF LiveBetween
            <4>2. CASE e # c
                BY <1>5, <3>1, <4>1, <4>2 DEF LiveBetween
            <4>3. CASE e = c
                <5>1. PICK f \in Cursor : c < f /\ f < rel[u] /\ Live(f)
                    BY <3>2, <3>4, <4>1, <4>3 DEF LiveBetween
                <5>2. d \in Nat /\ f \in Nat /\ d < c /\ c < f
                    BY <2>1, <4>1, <4>3, <5>1
                <5>3. d < f /\ f # c
                    BY <2>1, <5>2
                <5>4. Live(f)'
                    BY <3>1, <5>1, <5>3
                <5> QED BY <1>5, <5>1, <5>3, <5>4 DEF LiveBetween
            <4> QED BY <4>2, <4>3
        <3>5. made[u] # 1 => Ahead(u)'
            <4> SUFFICES ASSUME made[u] # 1 PROVE Ahead(u)'
                OBVIOUS
            <4>1. PICK e \in Cursor : e < rel[u] /\ Live(e)
                BY <2>1 DEF Linked, Ahead, Live
            <4>2. CASE e # c
                BY <1>5, <3>1, <4>1, <4>2 DEF Ahead, Live
            <4>3. CASE e = c
                BY <1>5, <3>2, <3>3, <4>1, <4>3 DEF LiveBetween, Ahead, Live
            <4> QED BY <4>2, <4>3
        <3>6. ASSUME NEW d \in Cursor, jobs'[d].state = "completed", d < rel[u]
              PROVE  made[u] = 1 \/ LiveBetween(d, u)'
            <4>1. CASE d = c
                BY <3>2, <3>3, <3>6, <4>1
            <4>2. CASE d # c
                BY <1>3, <2>1, <3>4, <3>6, <4>2 DEF Linked
            <4> QED BY <4>1, <4>2
        <3>7. ASSUME NEW v \in Worker, run'[v].cursor < rel[u]
              PROVE  /\ run'[v].at = "open" => made[u] = 1 \/ u \in run'[v].new \/ Continued(v, u)'
                     /\ run'[v].at = "committed" => made[u] = 1 \/ Continued(v, u)'
                     /\ run'[v].at = "added" => made[u] = 1 \/ LiveBetween(run[v].cursor, u)'
            <4>1. CASE v = w
                BY <1>2, <4>1 DEF Idle
            <4>2. CASE v # w
                <5>1. run'[v] = run[v] /\ run[v].cursor \in Cursor
                    BY <1>2, <4>2 DEF TypeOK, Run
                <5> QED BY <1>5, <2>1, <3>4, <3>7, <5>1 DEF Linked, Continued
            <4> QED BY <4>1, <4>2
        <3> QED BY <1>5, <3>5, <3>6, <3>7 DEF Linked
    <2> QED BY <2>2, <2>3
<1> HIDE DEF IInv
<1> QED BY <1>7, <1>8, <1>9, <1>11, <1>12 DEF IInv

LEMMA JobOf ==
    ASSUME IInv, NEW w \in Worker, run[w].at # "idle"
    PROVE  /\ jobs[run[w].cursor].tries \in 0..(Attempts - 1) /\ jobs[run[w].cursor].stalls \in 0..1
           /\ faults \in 0..MaxFaults
BY FanoutAssumption DEF IInv, TypeOK, Job, Run, Queue, Live

LEMMA ThrowsInv ==
    ASSUME IInv, NEW w \in Worker, run[w].at # "idle", Throws(w), UNCHANGED <<env, processed, made>>,
           faults' \in 0..MaxFaults
    PROVE  IInv'
<1> DEFINE j == jobs[run[w].cursor]
<1>1. /\ j.tries + 1 \in 0..Attempts /\ j.stalls \in 0..2 /\ j.stalls < 2
    BY JobOf, FanoutAssumption
<1>2. EndsIn(w, IF j.tries + 1 < Attempts THEN "waiting" ELSE "failed", j.tries + 1, j.stalls)
    BY DEF Throws
<1> HIDE DEF j
<1>3. CASE j.tries + 1 < Attempts
    <2>1. EndsIn(w, "waiting", j.tries + 1, j.stalls)
        BY <1>2, <1>3
    <2> QED BY <1>1, <1>3, <2>1, EndsInv
<1>4. CASE ~(j.tries + 1 < Attempts)
    <2>1. EndsIn(w, "failed", j.tries + 1, j.stalls)
        BY <1>2, <1>4
    <2> QED BY <1>1, <1>4, <2>1, EndsInv
<1> QED BY <1>3, <1>4

LEMMA TooEarlyInv == ASSUME IInv, NEW w \in Worker, TooEarly(w) PROVE IInv'
BY ThrowsInv DEF TooEarly, IInv, TypeOK

LEMMA FinishInv == ASSUME IInv, NEW w \in Worker, Finish(w) PROVE IInv'
<1> DEFINE j == jobs[run[w].cursor]
<1>1. run[w].at = "added" /\ EndsIn(w, "completed", j.tries, j.stalls)
    BY DEF Finish
<1>2. j.tries \in 0..Attempts /\ j.stalls \in 0..2 /\ faults \in 0..MaxFaults
    BY <1>1, JobOf, FanoutAssumption
<1> HIDE DEF j
<1> QED BY <1>1, <1>2, EndsInv DEF Finish

LEMMA FailsInv == ASSUME IInv, NEW w \in Worker, Fails(w) PROVE IInv'
<1>1. run[w].at # "idle" /\ faults' \in 0..MaxFaults
    BY FanoutAssumption DEF Fails, IInv, TypeOK
<1> QED BY <1>1, ThrowsInv DEF Fails

LEMMA CrashInv == ASSUME IInv, NEW w \in Worker, Crash(w) PROVE IInv'
<1> DEFINE j == jobs[run[w].cursor]
<1>1. run[w].at # "idle" /\ faults' \in 0..MaxFaults
    BY FanoutAssumption DEF Crash, IInv, TypeOK
<1>2. j.tries \in 0..Attempts /\ j.tries < Attempts /\ j.stalls \in 0..1 /\ j.stalls + 1 \in 0..2
    BY <1>1, JobOf, FanoutAssumption
<1>3. /\ EndsIn(w, IF j.stalls = 0 THEN "waiting" ELSE "failed", j.tries, j.stalls + 1)
      /\ UNCHANGED <<env, processed, made>>
    BY DEF Crash
<1> HIDE DEF j
<1>4. CASE j.stalls = 0
    <2>1. EndsIn(w, "waiting", j.tries, j.stalls + 1)
        BY <1>3, <1>4
    <2> QED BY <1>1, <1>2, <1>3, <1>4, <2>1, EndsInv
<1>5. CASE j.stalls # 0
    <2>1. EndsIn(w, "failed", j.tries, j.stalls + 1)
        BY <1>3, <1>5
    <2> QED BY <1>1, <1>2, <1>3, <1>5, <2>1, EndsInv
<1> QED BY <1>4, <1>5

\* What a step of worker w keeps that leaves the queue alone.
LEMMA AloneInv ==
    ASSUME IInv, NEW w \in Worker, run[w].at # "idle", run'[w].at # "idle",
           run' \in [Worker -> Run], run'[w].cursor = run[w].cursor,
           \A v \in Worker : /\ run'[v].cursor = run[v].cursor
                             /\ run'[v].at # "idle" => run[v].at # "idle"
                             /\ v # w => run'[v].next = run[v].next,
           run'[w].next = 0 \/ run[w].cursor < run'[w].next,
           made' \in [User -> Nat], UNCHANGED <<env, processed, jobs, gaveUp, faults>>, processed
    PROVE  TypeOK' /\ Relations' /\ Queue' /\ Early' /\ Forward'
<1> USE DEF IInv, env
<1>1. TypeOK' /\ Relations'
    BY DEF TypeOK, Relations
<1>2. Queue'
    BY DEF Queue, Live
<1>3. Early' /\ Forward'
    BY DEF Early, Forward
<1> QED BY <1>1, <1>2, <1>3

LEMMA ReadPageInv == ASSUME IInv, NEW w \in Worker, ReadPage(w) PROVE IInv'
<1> USE DEF IInv
<1> DEFINE page == Page(run[w].cursor)
           next == IF page = Behind(run[w].cursor) THEN 0 ELSE LastOf(page)
<1>1. run[w].at = "begin" /\ processed /\ run[w].cursor \in Cursor /\ UNCHANGED <<env, processed, jobs, made, gaveUp, faults>>
    BY DEF ReadPage, TypeOK, Run
<1>2. PICK c \in Cursor : c = run[w].cursor
    BY <1>1
<1>3. PICK p, n : p = page /\ n = next
    OBVIOUS
<1>4. /\ p \subseteq Behind(c) /\ Behind(c) \subseteq User
      /\ n \in Cursor /\ (n = 0 \/ c < n)
      /\ \A u \in Behind(c) \ p : n # 0 /\ n < rel[u]
    BY <1>2, <1>3, PageCut, FanoutAssumption DEF Cursor
<1>5. run' = [run EXCEPT ![w].at = "open", ![w].new = ToNotify(p), ![w].next = n]
    BY <1>3 DEF ReadPage
<1> HIDE DEF page, next
<1>6. ToNotify(p) \subseteq p
    BY DEF ToNotify
<1>7. run' \in [Worker -> Run]
    BY <1>4, <1>5, <1>6 DEF TypeOK, Run
<1>8. /\ run'[w].at = "open" /\ run'[w].cursor = c /\ run'[w].new = ToNotify(p) /\ run'[w].next = n
      /\ \A v \in Worker : v # w => run'[v] = run[v]
    BY <1>2, <1>5 DEF TypeOK, Run
<1>9. TypeOK' /\ Relations' /\ Queue' /\ Early' /\ Forward'
    <2>1. made' \in [User -> Nat]
        BY <1>1 DEF TypeOK
    <2> QED BY <1>1, <1>2, <1>4, <1>7, <1>8, <2>1, AloneInv
<1>10. Wanted' /\ OnceEach'
    BY <1>1, <1>8 DEF Wanted, OnceEach, ToNotify, env
<1>11. Chain'
    <2> SUFFICES ASSUME tweeted, ~gaveUp, NEW u \in steady PROVE Linked(u)'
        BY <1>1 DEF Chain, env
    <2>1. Linked(u) /\ u \in User /\ rel'[u] = rel[u] /\ rel[u] \in optedIn /\ u \notin blocked /\ made[u] \in Nat /\ made[u] <= 1
        BY <1>1 DEF Chain, Relations, OnceEach, TypeOK, env
    <2>2. Ahead(u)' <=> Ahead(u)
        BY <1>1, <2>1 DEF Ahead
    <2>3. \A d \in Cursor : LiveBetween(d, u)' <=> LiveBetween(d, u)
        BY <1>1, <2>1 DEF LiveBetween, Live
    <2>4. c < rel[u] => made[u] = 1 \/ u \in ToNotify(p) \/ (n # 0 /\ n < rel[u])
        BY <1>4, <2>1 DEF Behind, ToNotify
    <2>5. ASSUME NEW v \in Worker, run'[v].cursor < rel[u]
          PROVE  /\ run'[v].at = "open" => made[u] = 1 \/ u \in run'[v].new \/ Continued(v, u)'
                 /\ run'[v].at = "committed" => made[u] = 1 \/ Continued(v, u)'
                 /\ run'[v].at = "added" => made[u] = 1 \/ LiveBetween(run[v].cursor, u)'
        <3>1. CASE v = w
            BY <1>8, <2>1, <2>4, <2>5, <3>1 DEF Continued
        <3>2. CASE v # w
            <4>1. run'[v] = run[v] /\ run[v].cursor \in Cursor
                BY <1>8, <3>2 DEF TypeOK, Run
            <4> QED BY <2>1, <2>3, <2>5, <4>1 DEF Linked, Continued
        <3> QED BY <3>1, <3>2
    <2> QED BY <1>1, <2>1, <2>2, <2>3, <2>5 DEF Linked
<1> QED BY <1>9, <1>10, <1>11

LEMMA CommitInv == ASSUME IInv, NEW w \in Worker, Commit(w) PROVE IInv'
<1> USE DEF IInv
<1>1. run[w].at = "open" /\ UNCHANGED <<env, processed, jobs, gaveUp, faults>>
    BY DEF Commit
<1>2. /\ run' \in [Worker -> Run] /\ run'[w] = [run[w] EXCEPT !.at = "committed"]
      /\ \A v \in Worker : v # w => /\ run'[v].cursor = run[v].cursor
                                    /\ run'[v].next = run[v].next /\ run'[v].new = run[v].new
                                    /\ run'[v].at = IF run[v].at = "open" THEN "begin" ELSE run[v].at
    <2>1. run \in [Worker -> Run]
        BY DEF TypeOK
    <2>2. Conflict(Worker \ {w})[w] = run[w]
        BY DEF Conflict
    <2>3. run' = [Conflict(Worker \ {w}) EXCEPT ![w].at = "committed"]
        BY DEF Commit
    <2>4. Conflict(Worker \ {w}) \in [Worker -> Run]
        BY <2>1, ConflictRuns
    <2>5. run' \in [Worker -> Run] /\ run'[w] = [run[w] EXCEPT !.at = "committed"]
        BY <2>2, <2>3, <2>4 DEF Run
    <2>6. \A v \in Worker : v # w => run'[v] = Conflict(Worker \ {w})[v]
        BY <2>3, <2>4
    <2> QED BY <2>1, <2>5, <2>6, ConflictRuns
<1>3. /\ run'[w].at = "committed" /\ run'[w].cursor = run[w].cursor
      /\ run'[w].next = run[w].next /\ run'[w].new = run[w].new
    BY <1>2 DEF TypeOK, Run
<1>4. /\ made' \in [User -> Nat]
      /\ \A u \in User : made'[u] = IF u \in run[w].new THEN 1 ELSE made[u]
    <2>1. made' = [u \in User |-> made[u] + (IF u \in run[w].new THEN 1 ELSE 0)]
        BY DEF Commit
    <2>2. \A u \in User : made[u] \in Nat /\ (u \in run[w].new => made[u] = 0)
        BY <1>1 DEF TypeOK, Wanted
    <2> QED BY <2>1, <2>2
<1>5. TypeOK' /\ Relations' /\ Queue' /\ Early' /\ Forward'
    <2>1. processed
        BY <1>1 DEF Early
    <2>2. run[w].next = 0 \/ run[w].cursor < run[w].next
        BY DEF Forward
    <2>3. \A v \in Worker : /\ run'[v].cursor = run[v].cursor
                            /\ run'[v].at # "idle" => run[v].at # "idle"
                            /\ v # w => run'[v].next = run[v].next
        BY <1>1, <1>2, <1>3
    <2> QED BY <1>1, <1>2, <1>3, <1>4, <2>1, <2>2, <2>3, AloneInv
<1>6. Wanted'
    BY <1>2, <1>3 DEF Wanted
<1>7. OnceEach'
    BY <1>4 DEF OnceEach
<1>8. Chain'
    <2> SUFFICES ASSUME processed, tweeted, ~gaveUp, NEW u \in steady PROVE Linked(u)'
        BY <1>1 DEF Chain, env
    <2>1. Linked(u) /\ u \in User /\ rel'[u] = rel[u]
        BY <1>1 DEF Chain, TypeOK, env
    <2>2. Ahead(u)' <=> Ahead(u)
        BY <1>1, <2>1 DEF Ahead
    <2>3. \A d \in Cursor : LiveBetween(d, u)' <=> LiveBetween(d, u)
        BY <1>1, <2>1 DEF LiveBetween, Live
    <2>4. (made[u] = 1 => made'[u] = 1) /\ (u \in run[w].new => made'[u] = 1)
        BY <1>4, <2>1
    <2>5. ASSUME NEW v \in Worker, run'[v].cursor < rel[u]
          PROVE  /\ run'[v].at = "open" => made'[u] = 1 \/ u \in run'[v].new \/ Continued(v, u)'
                 /\ run'[v].at = "committed" => made'[u] = 1 \/ Continued(v, u)'
                 /\ run'[v].at = "added" => made'[u] = 1 \/ LiveBetween(run[v].cursor, u)'
        <3>1. CASE v = w
            BY <1>1, <1>3, <2>1, <2>4, <2>5, <3>1 DEF Linked, Continued
        <3>2. CASE v # w
            <4>1. run[v].cursor \in Cursor
                BY DEF TypeOK, Run
            <4> QED BY <1>2, <2>1, <2>3, <2>4, <2>5, <3>2, <4>1 DEF Linked, Continued
        <3> QED BY <3>1, <3>2
    <2>6. \A v \in Worker : run'[v].cursor = run[v].cursor
        BY <1>2, <1>3
    <2> QED BY <1>1, <2>1, <2>2, <2>3, <2>4, <2>5, <2>6 DEF Linked
<1> QED BY <1>5, <1>6, <1>7, <1>8

LEMMA AddNextInv == ASSUME IInv, NEW w \in Worker, AddNext(w) PROVE IInv'
<1> USE DEF IInv
<1>1. run[w].at = "committed" /\ UNCHANGED <<env, processed, made, gaveUp, faults>>
    BY DEF AddNext
<1>2. /\ run' \in [Worker -> Run]
      /\ run'[w].at = "added" /\ run'[w].cursor = run[w].cursor /\ run'[w].next = run[w].next
      /\ \A v \in Worker : v # w => run'[v] = run[v]
    BY DEF AddNext, TypeOK, Run
<1>3. PICK n \in Cursor : n = run[w].next
    BY DEF TypeOK, Run
<1>4. processed
    BY <1>1 DEF Early
<1>5. /\ jobs' \in [Cursor -> Job]
      /\ \A d \in Cursor :
            /\ (Live(d) \/ jobs[d].state = "absent")' => jobs'[d].tries < Attempts /\ jobs'[d].stalls < 2
            /\ jobs'[d].state = "failed" => gaveUp
            /\ jobs[d].state = "active" => jobs'[d].state = "active"
            /\ jobs'[d].state = "completed" => jobs[d].state = "completed"
      /\ \A u \in User : Ahead(u) => Ahead(u)'
      /\ \A u \in User, d \in Cursor : LiveBetween(d, u) => LiveBetween(d, u)'
    <2>1. CASE n = 0
        <3>1. jobs' = jobs
            BY <1>3, <2>1 DEF AddNext
        <3> QED BY <1>1, <3>1 DEF TypeOK, Queue, Live, Ahead, LiveBetween, env
    <2>2. CASE n # 0
        <3>1. jobs' = WithJob(jobs, n)
            BY <1>3, <2>2 DEF AddNext
        <3> QED BY <1>1, <1>4, <3>1, AddedInv
    <2> QED BY <2>1, <2>2
<1>6. TypeOK' /\ Relations' /\ OnceEach'
    BY <1>1, <1>2, <1>5 DEF TypeOK, Relations, OnceEach, env
<1>7. Wanted' /\ Early' /\ Forward'
    BY <1>1, <1>2, <1>4 DEF Wanted, Early, Forward, env
<1>8. Queue'
    <2>1. \A v \in Worker : /\ run[v].cursor \in Cursor /\ run'[v].cursor = run[v].cursor
                            /\ run'[v].at # "idle" => run[v].at # "idle"
        BY <1>1, <1>2 DEF TypeOK, Run
    <2> QED BY <1>1, <1>5, <2>1 DEF Queue
<1>9. Chain'
    <2> SUFFICES ASSUME tweeted, ~gaveUp, NEW u \in steady PROVE Linked(u)'
        BY <1>1 DEF Chain, env
    <2>1. Linked(u) /\ u \in User /\ rel'[u] = rel[u] /\ rel[u] \in Nat
        BY <1>1, <1>4 DEF Chain, TypeOK, Cursor, env
    <2>2. n # 0 /\ n < rel[u] /\ made[u] # 1 => LiveBetween(run[w].cursor, u)'
        <3> SUFFICES ASSUME n # 0, n < rel[u], made[u] # 1 PROVE LiveBetween(run[w].cursor, u)'
            OBVIOUS
        <3>1. jobs' = WithJob(jobs, n)
            BY <1>3 DEF AddNext
        <3>2. jobs'[n].state # "absent" /\ jobs'[n] \in Job /\ jobs'[n].state # "failed"
            BY <1>5, <3>1, Added
        <3>3. run'[w].cursor < n
            BY <1>2, <1>3 DEF Forward
        <3>4. CASE Live(n)'
            BY <2>1, <3>3, <3>4 DEF LiveBetween
        <3>5. CASE jobs'[n].state = "completed"
            <4>1. LiveBetween(n, u)'
                BY <1>5, <2>1, <3>5 DEF Linked
            <4>2. PICK d \in Cursor : n < d /\ d < rel[u] /\ Live(d)'
                BY <2>1, <4>1 DEF LiveBetween
            <4>3. run'[w].cursor < d
                BY <1>2, <3>3, <4>2 DEF TypeOK, Run, Cursor
            <4> QED BY <2>1, <4>2, <4>3 DEF LiveBetween
        <3> QED BY <3>2, <3>4, <3>5 DEF Job, Live
    <2>3. ASSUME NEW v \in Worker, run'[v].cursor < rel[u]
          PROVE  /\ run'[v].at = "open" => made[u] = 1 \/ u \in run'[v].new \/ Continued(v, u)'
                 /\ run'[v].at = "committed" => made[u] = 1 \/ Continued(v, u)'
                 /\ run'[v].at = "added" => made[u] = 1 \/ LiveBetween(run[v].cursor, u)'
        <3>1. CASE v = w
            BY <1>1, <1>2, <1>3, <2>1, <2>2, <2>3, <3>1 DEF Linked, Continued
        <3>2. CASE v # w
            <4>1. run'[v] = run[v] /\ run[v].cursor \in Cursor
                BY <1>2, <3>2 DEF TypeOK, Run
            <4> QED BY <1>5, <2>1, <2>3, <4>1 DEF Linked, Continued
        <3> QED BY <3>1, <3>2
    <2>4. \A d \in Cursor : jobs'[d].state = "completed" /\ d < rel[u] => made[u] = 1 \/ LiveBetween(d, u)'
        BY <1>5, <2>1 DEF Linked
    <2> QED BY <1>1, <1>5, <2>1, <2>3, <2>4 DEF Linked
<1> QED BY <1>6, <1>7, <1>8, <1>9

LEMMA EvictInv == ASSUME IInv, NEW c \in Cursor, Evict(c) PROVE IInv'
<1> USE DEF IInv
<1>1. /\ jobs[c].state \in {"completed", "failed"} /\ faults < MaxFaults /\ faults' = faults + 1
      /\ UNCHANGED <<env, processed, run, made, gaveUp>>
    BY DEF Evict
<1>2. /\ jobs' \in [Cursor -> Job] /\ jobs'[c] = Absent
      /\ \A d \in Cursor : d # c => jobs'[d] = jobs[d]
    <2>1. Absent \in Job
        BY FanoutAssumption DEF Absent, Job
    <2> QED BY <2>1 DEF Evict, TypeOK
<1>3. TypeOK' /\ Relations' /\ OnceEach' /\ Wanted' /\ Forward'
    <2>1. faults' \in 0..MaxFaults
        BY <1>1, FanoutAssumption DEF TypeOK
    <2> QED BY <1>1, <1>2, <2>1 DEF TypeOK, Relations, OnceEach, Wanted, Forward, env
<1>4. Queue'
    <2>1. \A d \in Cursor : (Live(d) \/ jobs[d].state = "absent")' => jobs'[d].tries < Attempts /\ jobs'[d].stalls < 2
        BY <1>2, FanoutAssumption DEF Queue, Live, Absent
    <2>2. \A d \in Cursor : jobs'[d].state = "failed" => gaveUp'
        BY <1>1, <1>2 DEF Queue, Absent
    <2>3. \A v \in Worker : run[v].at # "idle" => run[v].cursor # c /\ run[v].cursor \in Cursor
        BY <1>1 DEF Queue, TypeOK, Run
    <2> QED BY <1>1, <1>2, <2>1, <2>2, <2>3 DEF Queue
<1>5. Early'
    BY <1>1, <1>2 DEF Early, Absent
<1>6. Chain'
    <2> SUFFICES ASSUME processed, tweeted, ~gaveUp, NEW u \in steady PROVE Linked(u)'
        BY <1>1 DEF Chain, env
    <2>1. Linked(u) /\ rel'[u] = rel[u]
        BY <1>1 DEF Chain, env
    <2>2. \A d \in Cursor : Live(d)' <=> Live(d)
        BY <1>1, <1>2 DEF Live, Absent
    <2>3. Ahead(u) => Ahead(u)'
        BY <2>1, <2>2 DEF Ahead, Live
    <2>4. \A d \in Cursor : LiveBetween(d, u) => LiveBetween(d, u)'
        BY <2>1, <2>2 DEF LiveBetween
    <2>5. \A d \in Cursor : jobs'[d].state = "completed" => jobs[d].state = "completed"
        BY <1>2 DEF Absent
    <2>6. \A v \in Worker : run[v].cursor \in Cursor
        BY DEF TypeOK, Run
    <2> QED BY <1>1, <2>1, <2>3, <2>4, <2>5, <2>6 DEF Linked, Continued
<1> QED BY <1>3, <1>4, <1>5, <1>6

-----------------------------------------------------------------------------
(* Every step, and what follows.                                           *)

LEMMA StepInv == IInv /\ [Next]_vars => IInv'
<1> SUFFICES ASSUME IInv, [Next]_vars PROVE IInv'
    OBVIOUS
<1>1. CASE UNCHANGED vars
    <2>1. \A u \in User : Linked(u) => Linked(u)'
        BY <1>1 DEF vars, env, Linked, Ahead, LiveBetween, Live, Continued
    <2>2. TypeOK' /\ Relations' /\ Queue' /\ Early' /\ Wanted' /\ OnceEach' /\ Forward'
        BY <1>1 DEF vars, env, IInv, TypeOK, Relations, Queue, Live, Early, Wanted, OnceEach, Forward
    <2>3. Chain'
        BY <1>1, <2>1 DEF vars, env, IInv, Chain, TypeOK
    <2> QED BY <2>2, <2>3 DEF IInv
<1>2. ASSUME NEW u \in User, Follow(u) \/ Unfollow(u) \/ Prefer(u) \/ Block(u) PROVE IInv'
    BY <1>2, FollowInv, UnfollowInv, PreferInv, BlockInv
<1>3. CASE DeleteTweet \/ AddFirst \/ Mark
    BY <1>3, DeleteTweetInv, AddFirstInv, MarkInv
<1>4. ASSUME NEW w \in Worker, Step(w) PROVE IInv'
    BY <1>4, TakeInv, TooEarlyInv, ReadPageInv, CommitInv, AddNextInv, FinishInv DEF Step
<1>5. ASSUME NEW w \in Worker, Fails(w) \/ Crash(w) PROVE IInv'
    BY <1>5, FailsInv, CrashInv
<1>6. ASSUME NEW c \in Cursor, Evict(c) PROVE IInv'
    BY <1>6, EvictInv
<1> QED BY <1>1, <1>2, <1>3, <1>4, <1>5, <1>6 DEF Next

LEMMA Invariant == Spec => []IInv
BY InitInv, StepInv, PTL DEF Spec

\* The variables keep their types.
THEOREM TypeCorrect == Spec => []TypeOK
<1>1. IInv => TypeOK
    BY DEF IInv
<1> QED BY <1>1, Invariant, PTL

\* However many users, pages and workers there are, and whatever fails, nobody
\* gets two notifications of the tweet (NotificationFanoutWorker.process and the
\* deduplication keys of createIndividualNotificationsBatch).
THEOREM EachToldOnce == Spec => []OnceEach
<1>1. IInv => OnceEach
    BY DEF IInv
<1> QED BY <1>1, Invariant, PTL

\* The chain of pages is never broken: a steady follower is told, or has a job
\* before them, as long as no job failed for good.
THEOREM ChainUnbroken == Spec => []NobodySkipped
<1>1. IInv => NobodySkipped
    BY DEF IInv, NobodySkipped, Chain, Linked
<1> QED BY <1>1, Invariant, PTL

LEMMA StepWanted == IInv /\ [Next]_vars => \A u \in User : made'[u] # made[u] => tweeted /\ u \notin blocked
<1> SUFFICES ASSUME IInv, Next, NEW u \in User, made'[u] # made[u] PROVE tweeted /\ u \notin blocked
    BY DEF vars
<1>1. PICK w \in Worker : Commit(w)
    BY DEF Next, Step, Follow, Unfollow, Prefer, Block, DeleteTweet, AddFirst, Mark,
           Take, TooEarly, ReadPage, AddNext, Finish, Fails, Crash, Evict
<1>2. run[w].at = "open" /\ made'[u] = made[u] + (IF u \in run[w].new THEN 1 ELSE 0)
    BY <1>1 DEF Commit
<1>3. u \in run[w].new
    BY <1>2 DEF IInv, TypeOK
<1> QED BY <1>2, <1>3 DEF IInv, Wanted

\* Nobody is told of a tweet that is gone, or of one by a user in a block: the
\* guards of the tweet and of the pair are in every page's transaction.
THEOREM WantedOnly == Spec => OnlyWanted
<1>1. IInv /\ [Next]_vars => [\A u \in User : made'[u] # made[u] => tweeted /\ u \notin blocked]_vars
    BY StepWanted
<1> QED BY <1>1, Invariant, PTL DEF Spec, OnlyWanted

=============================================================================
