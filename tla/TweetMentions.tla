---------------------------- MODULE TweetMentions -----------------------------
(***************************************************************************)
(* The individual notifications of one tweet: a mention for every user it  *)
(* mentions and the reply of somebody else to its author.  The author      *)
(* edits, hides, restores and deletes the tweet (TweetService.updateTweet, *)
(* deleteTweet); the events of that are handled in any order               *)
(* (NotificationEventHandler with resolveTweetPlan, handleTweetDeleted and *)
(* handleTweetVisibilityRevoked), by several workers at once.              *)
(*                                                                         *)
(* A request reads the clock before its transaction.  A handler's writes   *)
(* commit with the mark of its event, or are dropped when another          *)
(* transaction first commits a write to one of its documents; a handler    *)
(* that fails leaves no trace either.                                      *)
(***************************************************************************)
EXTENDS Naturals, FiniteSets

CONSTANTS
    Users,     \* users the tweet may mention, numbered as their notifications' ids are
    Worker,    \* jobs that the notification worker runs at once
    MaxAsk,    \* bound on requests of the author under way
    MaxTime    \* bound on the clock

\* Of the constants.
MentionsAssumption == Users \in Nat /\ MaxAsk \in Nat /\ MaxTime \in Nat

User == 1..Users
Reply == Users + 1         \* the notification of the reply
Note == 1..Users + 1
Time == 0..MaxTime         \* 0 is no time
Doc == [st: {"absent", "valid", "invalid"}, created_at: Time]

VARIABLES
    now,
    tweet,          \* its state, and when each user was mentioned last, 0 if not mentioned
    replied,        \* there is a reply
    restored_at,    \* of the tweet's lifecycle guard
    hidden_at,
    ask,            \* requests of the author that have read the clock
    note,           \* the notifications
    pending,        \* events not processed yet
    job             \* the transaction each worker has open

vars == <<now, tweet, replied, restored_at, hidden_at, ask, note, pending, job>>

Audience == {"public", "private"}
Request ==
    [op: {"update"}, at: Time, audience: Audience, mentions: SUBSET User] \cup [op: {"delete"}, at: Time]
\* "changed" stands for TweetCreated too, which adds its mentions.
Event ==
    [kind: {"changed"}, at: Time, added: SUBSET User, removed: SUBSET User]
    \cup [kind: {"clean"}, at: Time, cursor: 0..Users] \cup [kind: {"replied"}, at: Time]
Idle == [event |-> {}, notes |-> [n \in {} |-> 0], guard |-> FALSE, publish |-> {}]

Mentioned == {u \in User : tweet.mentions[u] # 0}

TypeOK ==
    /\ now \in Time /\ restored_at \in Time /\ hidden_at \in Time
    /\ tweet \in [st: Audience \cup {"absent", "deleted"}, mentions: [User -> Time]]
    /\ replied \in BOOLEAN /\ ask \subseteq Request /\ pending \subseteq Event
    /\ note \in [Note -> Doc] /\ \A n \in Note : note[n].st # "absent" <=> note[n].created_at # 0
    /\ \A w \in Worker :
        /\ job[w].event \subseteq pending /\ job[w].publish \subseteq Event
        /\ DOMAIN job[w].notes \subseteq Note
        /\ \A n \in DOMAIN job[w].notes : job[w].notes[n] \in Doc

Init ==
    /\ now = 0 /\ restored_at = 0 /\ hidden_at = 0 /\ replied = FALSE
    /\ tweet = [st |-> "absent", mentions |-> [u \in User |-> 0]]
    /\ ask = {} /\ pending = {} /\ job = [w \in Worker |-> Idle]
    /\ note = [n \in Note |-> [st |-> "absent", created_at |-> 0]]

Tick == now < MaxTime /\ now' = now + 1

-----------------------------------------------------------------------------
(* The author, and the one who replies.                                    *)

Create(audience, mentions) ==
    /\ tweet.st = "absent" /\ Tick
    /\ tweet' = [st |-> audience, mentions |-> [u \in User |-> IF u \in mentions THEN now + 1 ELSE 0]]
    /\ pending' = {[kind |-> "changed", at |-> now + 1, added |-> mentions, removed |-> {}]}
    /\ UNCHANGED <<replied, restored_at, hidden_at, ask, note, job>>

PostReply ==
    /\ tweet.st \in Audience /\ ~replied /\ Tick
    /\ replied' = TRUE
    /\ pending' = pending \cup {[kind |-> "replied", at |-> now + 1]}
    /\ UNCHANGED <<tweet, restored_at, hidden_at, ask, note, job>>

Ask(r) ==
    /\ tweet.st \in Audience /\ Cardinality(ask) < MaxAsk /\ Tick
    /\ ask' = ask \cup {r}
    /\ UNCHANGED <<tweet, replied, restored_at, hidden_at, note, pending, job>>

\* The commit writes the guard, and so aborts the handlers that touched it.
Unguarded == [w \in Worker |-> IF job[w].guard THEN Idle ELSE job[w]]

Update(q) ==
    LET added == q.mentions \ Mentioned
        removed == Mentioned \ q.mentions
        hides == tweet.st = "public" /\ q.audience = "private"
        restores == tweet.st = "private" /\ q.audience = "public" IN
    /\ q \in ask /\ q.op = "update" /\ tweet.st \in Audience
    /\ tweet' = [st |-> q.audience,
                 mentions |-> [u \in User |-> IF u \in added THEN q.at
                                              ELSE IF u \in removed THEN 0 ELSE tweet.mentions[u]]]
    /\ restored_at' = IF restores THEN q.at ELSE IF hides THEN 0 ELSE restored_at
    /\ hidden_at' = IF hides THEN q.at ELSE hidden_at
    /\ pending' = pending \cup
            (IF hides THEN {[kind |-> "clean", at |-> q.at, cursor |-> 0]}
             ELSE IF added \cup removed = {} THEN {}
             ELSE {[kind |-> "changed", at |-> q.at, added |-> added, removed |-> removed]})
    /\ ask' = ask \ {q} /\ job' = Unguarded
    /\ UNCHANGED <<now, replied, note>>

Delete(q) ==
    /\ q \in ask /\ q.op = "delete" /\ tweet.st \in Audience
    /\ tweet' = [tweet EXCEPT !.st = "deleted"]
    /\ restored_at' = 0 /\ hidden_at' = q.at
    /\ pending' = pending \cup {[kind |-> "clean", at |-> q.at, cursor |-> 0]}
    /\ ask' = ask \ {q} /\ job' = Unguarded
    /\ UNCHANGED <<now, replied, note>>

\* The tweet is deleted: the transaction is aborted.
Refuse(q) ==
    /\ q \in ask /\ tweet.st = "deleted"
    /\ ask' = ask \ {q}
    /\ UNCHANGED <<now, tweet, replied, restored_at, hidden_at, note, pending, job>>

-----------------------------------------------------------------------------
(* The handlers.                                                           *)

Handled(w, e, notes, guard, publish) ==
    /\ job[w] = Idle /\ e \in pending
    /\ job' = [job EXCEPT ![w] = [event |-> {e}, notes |-> notes, guard |-> guard, publish |-> publish]]
    /\ UNCHANGED <<now, tweet, replied, restored_at, hidden_at, ask, note, pending>>

\* createIndividualNotification: inserted, or reactivated with its old time.
Created(n, e) ==
    [st |-> "valid", created_at |-> IF note[n].st = "absent" THEN e.at ELSE note[n].created_at]
Invalidated(n) == [note[n] EXCEPT !.st = "invalid"]
Valid(n) == note[n].st = "valid"

\* touchTarget and resolveTweetPlan: whom the tweet mentions now; nobody, for
\* an event from before the last restore.
PredatesRestore(e) == restored_at # 0 /\ e.at < restored_at

Current(e) == IF PredatesRestore(e) \/ tweet.st # "public" THEN {} ELSE Mentioned

\* Mutant: an invalidated notification does not come back.
HandleChangedInsertOnly(w, e) ==
    LET create == {u \in e.added \cap Current(e) : note[u].st = "absent"}
        remove == {u \in e.removed \ Current(e) : Valid(u)} IN
    /\ e.kind = "changed"
    /\ Handled(w, e, [u \in create \cup remove |-> IF u \in create THEN Created(u, e) ELSE Invalidated(u)],
               TRUE, {})

\* Mutant: the guard is read and not touched.
HandleChangedUnguarded(w, e) ==
    LET create == {u \in e.added \cap Current(e) : ~Valid(u)}
        remove == {u \in e.removed \ Current(e) : Valid(u)} IN
    /\ e.kind = "changed"
    /\ Handled(w, e, [u \in create \cup remove |-> IF u \in create THEN Created(u, e) ELSE Invalidated(u)],
               FALSE, {})

HandleChanged(w, e) ==
    LET create == {u \in e.added \cap Current(e) : ~Valid(u)}
        remove == {u \in e.removed \ Current(e) : Valid(u)} IN
    /\ e.kind = "changed"
    /\ Handled(w, e, [u \in create \cup remove |-> IF u \in create THEN Created(u, e) ELSE Invalidated(u)],
               TRUE, {})

\* The reply's own guard is touched, its parent is only read.
HandleReplied(w, e) ==
    /\ e.kind = "replied"
    /\ Handled(w, e, [n \in {m \in {Reply} : tweet.st # "deleted"} |-> Created(n, e)], FALSE, {})

\* invalidateTargetPage, a page of one, and the event of the next page.
Clean(w, e) ==
    LET targets == {n \in Note : Valid(n) /\ note[n].created_at <= e.at /\ n > e.cursor}
        page == {n \in targets : \A m \in targets : n <= m} IN
    /\ e.kind = "clean"
    /\ Handled(w, e, [n \in page |-> Invalidated(n)], FALSE,
               {[e EXCEPT !.cursor = n] : n \in {m \in page : targets # page}})

Conflict(i, j) ==
    \/ i.event \cap j.event # {}
    \/ DOMAIN i.notes \cap DOMAIN j.notes # {}
    \/ i.guard /\ j.guard

Commit(w) ==
    LET d == job[w] IN
    /\ d # Idle
    /\ note' = [n \in Note |-> IF n \in DOMAIN d.notes THEN d.notes[n] ELSE note[n]]
    /\ pending' = (pending \ d.event) \cup d.publish
    /\ job' = [v \in Worker |-> IF v = w \/ Conflict(job[v], d) THEN Idle ELSE job[v]]
    /\ UNCHANGED <<now, tweet, replied, restored_at, hidden_at, ask>>

-----------------------------------------------------------------------------
Next ==
    \/ \E a \in Audience, m \in SUBSET User : Create(a, m)
    \/ PostReply
    \/ \E a \in Audience, m \in SUBSET User :
            Ask([op |-> "update", at |-> now + 1, audience |-> a, mentions |-> m])
    \/ Ask([op |-> "delete", at |-> now + 1])
    \/ \E q \in ask : Update(q) \/ Delete(q) \/ Refuse(q)
    \/ \E w \in Worker, e \in pending : HandleChanged(w, e) \/ HandleReplied(w, e) \/ Clean(w, e)
    \/ \E w \in Worker : Commit(w)

Spec == Init /\ [][Next]_vars

-----------------------------------------------------------------------------
(* Properties.                                                             *)

\* Nobody is notified of a mention that is gone, or in a tweet that is not
\* public, however the handling of an older event overlaps with the edit.
OnlyCurrentMentions ==
    [][\A u \in User : (tweet.st # "public" \/ u \notin Mentioned) /\ note'[u].st = "valid" => Valid(u)]_vars

\* When every event has been processed, whatever the order, a tweet that was
\* always public notifies exactly the users it mentions; and when the clean-up
\* of one that is hidden or deleted is over, no mention from before is left on
\* any page.
MentionsConverge ==
    /\ tweet.st = "public" /\ restored_at = 0 /\ pending = {}
        => \A u \in User : Valid(u) <=> u \in Mentioned
    /\ tweet.st \in {"private", "deleted"} /\ (\A e \in pending : e.kind # "clean")
        => \A u \in User : Valid(u) => note[u].created_at > hidden_at

\* Stated by the design, and not so (see the README): when every event has
\* been processed a mention added since the last restore has its notification.
AddedShown ==
    tweet.st = "public" /\ pending = {}
        => \A u \in Mentioned : tweet.mentions[u] >= restored_at => Valid(u)

\* Stated by the design, and not so (see the README): when every event has
\* been processed a deleted tweet has no notification.
DeletedGone == tweet.st = "deleted" /\ pending = {} => \A n \in Note : ~Valid(n)

=============================================================================
