---------------------------- MODULE BlockLifecycle ----------------------------
(***************************************************************************)
(* Blocking between a recipient and one actor who mentions and likes: what *)
(* becomes of the actor's notifications.  UserService.blockUser and        *)
(* unblockUser write the pair's lifecycle guard, every handler that        *)
(* notifies the pair touches it (loadEligibleRecipientIds), and the event  *)
(* of a block cleans up page by page (handleUserBlocked).  Only what the   *)
(* actor does is followed; the other direction is the same.                *)
(*                                                                         *)
(* Times are readings of one clock.  A request reads it before its         *)
(* transaction, which may commit much later.  A like relation is named by  *)
(* its time.  A handler's writes commit with the mark of its event, or are *)
(* dropped when another transaction first commits a write to one of its    *)
(* documents.                                                              *)
(***************************************************************************)
EXTENDS Naturals, FiniteSets

CONSTANTS
    Items,     \* individual notifications, numbered in the order of their ids
    Worker,    \* jobs that the notification worker runs at once
    Blockers,  \* who of the two ever asks to block
    MaxAsk,    \* bound on requests to block or unblock under way
    MaxTime,   \* bound on the clock
    MaxFails   \* bound on handlers that throw or crash

\* Of the constants.
BlockAssumption ==
    /\ Items \in Nat /\ MaxAsk \in Nat /\ MaxTime \in Nat /\ MaxFails \in Nat
    /\ Blockers \subseteq {"actor", "recipient"}

Item == 1..Items
Time == 0..MaxTime     \* 0 is no time
By == {"actor", "recipient"}

VARIABLES
    now,           \* the clock
    block,         \* who blocks the other
    blocked_at,    \* the guard of the pair, also unblocked_at
    unblocked_at,
    ask,           \* requests to block or unblock that have read the clock
    like,          \* the actor's like relation
    item,          \* the individual notifications
    agg,           \* the open window of the recipient's tweet, with the actor's edge
    pending,       \* events not processed yet
    job,           \* the transaction each worker has open
    fails

vars == <<now, block, blocked_at, unblocked_at, ask, like, item, agg, pending, job, fails>>

Doc == [st: {"absent", "valid", "invalid"}, created_at: Time]
\* src, edge_at: the relation and the creation time of the actor's edge.
Agg == [created_at: Time, others: BOOLEAN, src: Time, edge_at: Time]
NoAgg == [created_at |-> 0, others |-> FALSE, src |-> 0, edge_at |-> 0]
Stage == {"individual", "aggregate_blocker", "aggregate_blocked"}
Event ==
    [kind: {"mention"}, at: Time, item: Item] \cup [kind: {"liked", "liked by other"}, at: Time]
    \cup [kind: {"unliked"}, of: Time]
    \cup [kind: {"block"}, by: By, at: Time, stage: Stage, cursor: 0..Items]
Request == [op: {"block", "unblock"}, by: By, at: Time]
\* The event handled, the documents written, whether the guard is, and the
\* events published.
Idle == [event |-> {}, items |-> [i \in {} |-> 0], agg |-> {}, guard |-> FALSE, publish |-> {}]

TypeOK ==
    /\ now \in Time /\ block \subseteq By /\ blocked_at \in Time /\ unblocked_at \in Time
    /\ ask \subseteq Request
    /\ like \in Time /\ item \in [Item -> Doc]
    /\ agg \in Agg /\ (agg.src # 0 <=> agg.edge_at # 0)
    /\ (agg.created_at # 0 <=> agg.src # 0 \/ agg.others)   \* an open window shows somebody
    /\ pending \subseteq Event
    /\ \A w \in Worker :
        /\ job[w].event \subseteq Event /\ job[w].publish \subseteq Event
        /\ DOMAIN job[w].items \subseteq Item /\ \A i \in DOMAIN job[w].items : job[w].items[i] \in Doc
        /\ job[w].agg \subseteq Agg /\ job[w].guard \in BOOLEAN
    /\ fails \in 0..MaxFails

Init ==
    /\ now = 0 /\ block = {} /\ blocked_at = 0 /\ unblocked_at = 0 /\ ask = {}
    /\ like = 0 /\ item = [i \in Item |-> [st |-> "absent", created_at |-> 0]]
    /\ agg = NoAgg /\ pending = {} /\ job = [w \in Worker |-> Idle] /\ fails = 0

Tick == now < MaxTime /\ now' = now + 1

-----------------------------------------------------------------------------
(* What the actor and another user do.                                     *)

\* A tweet mentions the recipient, again if it was edited.
Mention(i) ==
    /\ Tick
    /\ pending' = pending \cup {[kind |-> "mention", at |-> now + 1, item |-> i]}
    /\ UNCHANGED <<block, blocked_at, unblocked_at, ask, like, item, agg, job, fails>>

Like ==
    /\ Tick /\ like = 0
    /\ like' = now + 1
    /\ pending' = pending \cup {[kind |-> "liked", at |-> now + 1]}
    /\ UNCHANGED <<block, blocked_at, unblocked_at, ask, item, agg, job, fails>>

Unlike ==
    /\ like # 0
    /\ like' = 0
    /\ pending' = pending \cup {[kind |-> "unliked", of |-> like]}
    /\ UNCHANGED <<now, block, blocked_at, unblocked_at, ask, item, agg, job, fails>>

OtherLikes ==
    /\ Tick
    /\ pending' = pending \cup {[kind |-> "liked by other", at |-> now + 1]}
    /\ UNCHANGED <<block, blocked_at, unblocked_at, ask, like, item, agg, job, fails>>

-----------------------------------------------------------------------------
(* Block and unblock.  The commit writes the guard, and so aborts every    *)
(* handler that has touched it.                                            *)

Ask(op, by) ==
    /\ Tick /\ Cardinality(ask) < MaxAsk
    /\ ask' = ask \cup {[op |-> op, by |-> by, at |-> now + 1]}
    /\ UNCHANGED <<block, blocked_at, unblocked_at, like, item, agg, pending, job, fails>>

Unguarded == [w \in Worker |-> IF job[w].guard THEN Idle ELSE job[w]]

\* Mutant: a block starts its clean-up at the second stage.
BlockCleansAggregates(q) ==
    /\ q \in ask /\ q.op = "block" /\ q.by \notin block
    /\ block' = block \cup {q.by} /\ blocked_at' = q.at /\ unblocked_at' = 0
    /\ pending' = pending \cup
            {[kind |-> "block", by |-> q.by, at |-> q.at, stage |-> "aggregate_blocker", cursor |-> 0]}
    /\ ask' = ask \ {q} /\ job' = Unguarded
    /\ UNCHANGED <<now, like, item, agg, fails>>

Block(q) ==
    /\ q \in ask /\ q.op = "block" /\ q.by \notin block
    /\ block' = block \cup {q.by} /\ blocked_at' = q.at /\ unblocked_at' = 0
    /\ pending' = pending \cup
            {[kind |-> "block", by |-> q.by, at |-> q.at, stage |-> "individual", cursor |-> 0]}
    /\ ask' = ask \ {q} /\ job' = Unguarded
    /\ UNCHANGED <<now, like, item, agg, fails>>

Unblock(q) ==
    /\ q \in ask /\ q.op = "unblock" /\ q.by \in block
    /\ block' = block \ {q.by} /\ unblocked_at' = q.at
    /\ ask' = ask \ {q} /\ job' = Unguarded
    /\ UNCHANGED <<now, blocked_at, like, item, agg, pending, fails>>

\* The relation is there already, or is not: the transaction is aborted.
Refuse(q) ==
    /\ q \in ask /\ (q.op = "block" <=> q.by \in block)
    /\ ask' = ask \ {q}
    /\ UNCHANGED <<now, block, blocked_at, unblocked_at, like, item, agg, pending, job, fails>>

-----------------------------------------------------------------------------
(* The handlers.                                                           *)

Handled(w, e, items, aggs, guard, publish) ==
    /\ job[w] = Idle /\ e \in pending
    /\ job' = [job EXCEPT ![w] = [event |-> {e}, items |-> items, agg |-> aggs,
                                  guard |-> guard, publish |-> publish]]
    /\ UNCHANGED <<now, block, blocked_at, unblocked_at, ask, like, item, agg, pending, fails>>

NoItems == [i \in {} |-> 0]

\* loadEligibleRecipientIds: no block either way, and not from before the last
\* unblock.
Eligible(e) == block = {} /\ ~(unblocked_at # 0 /\ e.at < unblocked_at)

\* Mutant: the pair's guard is read and not touched.
HandleMentionUnguarded(w, e) ==
    LET i == e.item
        created == IF item[i].st = "absent" THEN e.at ELSE item[i].created_at
        hit == {j \in {i} : Eligible(e) /\ item[j].st # "valid"} IN
    /\ e.kind = "mention"
    /\ Handled(w, e, [j \in hit |-> [st |-> "valid", created_at |-> created]], {}, FALSE, {})

\* createIndividualNotification: inserted, reactivated with its old creation
\* time, or a duplicate.
HandleMention(w, e) ==
    LET i == e.item
        created == IF item[i].st = "absent" THEN e.at ELSE item[i].created_at
        hit == {j \in {i} : Eligible(e) /\ item[j].st # "valid"} IN
    /\ e.kind = "mention"
    /\ Handled(w, e, [j \in hit |-> [st |-> "valid", created_at |-> created]], {}, TRUE, {})

\* addActor: the actor joins the open window or opens one; an edge taken over
\* from an earlier relation keeps its creation time.
Joined(e) ==
    [agg EXCEPT !.created_at = IF @ = 0 THEN e.at ELSE @,
                !.src = e.at,
                !.edge_at = IF agg.src = 0 THEN e.at ELSE @]

HandleLiked(w, e) ==
    /\ e.kind = "liked"
    /\ Handled(w, e, NoItems, {g \in {Joined(e)} : like = e.at /\ Eligible(e)}, like = e.at, {})

HandleOtherLiked(w, e) ==
    /\ e.kind = "liked by other"
    /\ Handled(w, e, NoItems,
               {[agg EXCEPT !.created_at = IF @ = 0 THEN e.at ELSE @, !.others = TRUE]}, FALSE, {})

\* The window without the actor; an empty one is invalidated.
Departed == IF agg.others THEN [agg EXCEPT !.src = 0, !.edge_at = 0] ELSE NoAgg

\* removeActor.
HandleUnliked(w, e) ==
    /\ e.kind = "unliked"
    /\ Handled(w, e, NoItems, {g \in {Departed} : agg.src = e.of}, FALSE, {})

\* Mutant: the last page ends the clean-up.
CleanIndividualOnly(w, e) ==
    LET targets == {i \in Item : item[i].st = "valid" /\ item[i].created_at <= e.at /\ i > e.cursor}
        page == {i \in targets : \A j \in targets : i <= j} IN
    /\ e.kind = "block" /\ e.stage = "individual"
    /\ Handled(w, e, [i \in page |-> [item[i] EXCEPT !.st = "invalid"]], {}, FALSE,
               {[e EXCEPT !.cursor = i] : i \in {j \in page : targets # page}})

\* The first stage, a page of one: invalidateMatchingPage, and the event of the
\* next page or stage.
CleanIndividual(w, e) ==
    LET targets == {i \in Item : item[i].st = "valid" /\ item[i].created_at <= e.at /\ i > e.cursor}
        page == {i \in targets : \A j \in targets : i <= j} IN
    /\ e.kind = "block" /\ e.stage = "individual"
    /\ Handled(w, e, [i \in page |-> [item[i] EXCEPT !.st = "invalid"]], {}, FALSE,
               IF targets = page THEN {[e EXCEPT !.stage = "aggregate_blocker", !.cursor = 0]}
               ELSE {[e EXCEPT !.cursor = i] : i \in page})

\* The other stages: removeActorFromRecipientAggregatesPage.  The actor's edge
\* is in the window of the recipient, who is the blocker or the blocked.
CleanAggregates(w, e) ==
    LET concerned == e.by = (IF e.stage = "aggregate_blocker" THEN "recipient" ELSE "actor")
        found == agg.src # 0 /\ agg.created_at <= e.at /\ agg.edge_at <= e.at IN
    /\ e.kind = "block" /\ e.stage # "individual"
    /\ Handled(w, e, NoItems, {g \in {Departed} : concerned /\ found}, FALSE,
               {[e EXCEPT !.stage = s] : s \in {"aggregate_blocked"} \ {e.stage}})

Conflict(i, j) ==
    \/ i.event \cap j.event # {}
    \/ DOMAIN i.items \cap DOMAIN j.items # {}
    \/ i.agg # {} /\ j.agg # {}
    \/ i.guard /\ j.guard

Commit(w) ==
    LET d == job[w] IN
    /\ d # Idle
    /\ item' = [i \in Item |-> IF i \in DOMAIN d.items THEN d.items[i] ELSE item[i]]
    /\ agg' = IF d.agg = {} THEN agg ELSE CHOOSE g \in d.agg : TRUE
    /\ pending' = (pending \ d.event) \cup d.publish
    /\ job' = [v \in Worker |-> IF v = w \/ Conflict(job[v], d) THEN Idle ELSE job[v]]
    /\ UNCHANGED <<now, block, blocked_at, unblocked_at, ask, like, fails>>

\* The handler throws or its process dies: the event stays for a retry.
Fail(w) ==
    /\ job[w] # Idle /\ fails < MaxFails
    /\ fails' = fails + 1
    /\ job' = [job EXCEPT ![w] = Idle]
    /\ UNCHANGED <<now, block, blocked_at, unblocked_at, ask, like, item, agg, pending>>

-----------------------------------------------------------------------------
Handle(w) ==
    \E e \in pending : \/ HandleMention(w, e) \/ HandleLiked(w, e) \/ HandleOtherLiked(w, e)
                       \/ HandleUnliked(w, e) \/ CleanIndividual(w, e) \/ CleanAggregates(w, e)

Next ==
    \/ \E i \in Item : Mention(i)
    \/ Like \/ Unlike \/ OtherLikes
    \/ \E op \in {"block", "unblock"}, by \in Blockers : Ask(op, by)
    \/ \E q \in ask : Block(q) \/ Unblock(q) \/ Refuse(q)
    \/ \E w \in Worker : Handle(w) \/ Commit(w) \/ Fail(w)

Spec == Init /\ [][Next]_vars

\* A free worker takes a job that waits, and a handler comes to its end.
Fairness == \A w \in Worker : WF_vars(Handle(w)) /\ WF_vars(Commit(w))

FairSpec == Spec /\ Fairness

-----------------------------------------------------------------------------
(* Properties.                                                             *)

\* While one blocks the other nothing the actor did makes a notification
\* appear, come back or show the actor, however the handling of the event and
\* the request to block overlap.
SuppressedWhileBlocked ==
    [][block # {} => /\ \A i \in Item : item'[i].st = "valid" => item[i].st = "valid"
                     /\ agg'.src # 0 => agg'.src = agg.src]_vars

CleaningUp == \E e \in pending : e.kind = "block"
Remains(t) ==
    \/ \E i \in Item : item[i].st = "valid" /\ item[i].created_at <= t
    \/ agg.src # 0 /\ agg.created_at <= t /\ agg.edge_at <= t

\* When the clean-ups of all blocks are over and a block stands, nothing from
\* before it is left, in any stage and on any page, however many blocks,
\* unblocks and reactivations came before.
CleanedUp == block # {} /\ ~CleaningUp => ~Remains(blocked_at)

\* A block is cleaned up after, unless it is lifted.
CleanupEnds == block # {} ~> (block = {} \/ ~Remains(blocked_at))

\* Stated by the design, and not so (see the README): when all events are
\* processed and a block stands, no notification of the actor is left.
NoneLeft == block # {} /\ pending = {} => agg.src = 0 /\ \A i \in Item : item[i].st # "valid"

=============================================================================
