------------------------------ MODULE Timeline ------------------------------
(***************************************************************************)
(* Tweets, what users do with them, follows, and the counters and home     *)
(* timelines derived from all this (TweetService, UserService).  Every     *)
(* operation but a bookmark is a transaction that writes the document of   *)
(* the tweet or user it counts on, so that two of them on one document     *)
(* come one after the other and each is one step here.  A bookmark and its *)
(* count are two writes without a transaction.                             *)
(***************************************************************************)
EXTENDS Integers, FiniteSets

CONSTANTS
    Readers,      \* users
    Tweets,       \* ids of tweets
    MaxSteps      \* bound on operations


Counted == {"retweet", "comment", "quote"}
NoParent == 0
\* Of the constants.
TimelineAssumption ==
    /\ IsFiniteSet(Readers) /\ IsFiniteSet(Tweets)
    /\ MaxSteps \in Nat /\ NoParent \notin Tweets

VARIABLES
    tweet,        \* the tweets by id
    like,         \* <<user, tweet>>
    mark,         \* bookmarks, <<user, tweet>>
    feed,         \* newsFeeds, <<user, tweet>>
    follow,       \* <<follower, followed>>
    likes,        \* like_count by tweet
    marks,        \* bookmark_count by tweet
    children,     \* retweet_count, reply_count and quote_count by tweet
    followers,    \* follower_count by user
    following,    \* following_count by user
    owed,         \* bookmark counts to come, <<tweet, by how much>> by user
    lost,         \* tweets with a bookmark count that never came
    steps

vars == <<tweet, like, mark, feed, follow, likes, marks, children, followers, following, owed, lost, steps>>

Absent == [st |-> "absent", kind |-> "tweet", by |-> "", parent |-> NoParent]
Live(t) == tweet[t].st = "live"
Nothing == <<NoParent, 0>>

TypeOK ==
    /\ tweet \in [Tweets -> [st: {"absent", "live", "deleted", "undone"}, kind: Counted \cup {"tweet"},
                             by: Readers \cup {""}, parent: Tweets \cup {NoParent}]]
    /\ like \subseteq Readers \X Tweets /\ mark \subseteq Readers \X Tweets
    /\ feed \subseteq Readers \X Tweets /\ follow \subseteq Readers \X Readers
    /\ likes \in [Tweets -> Int] /\ marks \in [Tweets -> Int] /\ children \in [Tweets \X Counted -> Int]
    /\ followers \in [Readers -> Int] /\ following \in [Readers -> Int]
    /\ owed \in [Readers -> (Tweets \cup {NoParent}) \X (-1..1)] /\ lost \subseteq Tweets

Init ==
    /\ tweet = [t \in Tweets |-> Absent]
    /\ like = {} /\ mark = {} /\ feed = {} /\ follow = {}
    /\ likes = [t \in Tweets |-> 0] /\ marks = [t \in Tweets |-> 0]
    /\ children = [c \in Tweets \X Counted |-> 0]
    /\ followers = [u \in Readers |-> 0] /\ following = [u \in Readers |-> 0]
    /\ owed = [u \in Readers |-> Nothing] /\ lost = {} /\ steps = 0

Step == steps < MaxSteps /\ steps' = steps + 1

\* A counter of a tweet that is gone is no document to write to.
Bump(f, d, by) == [f EXCEPT ![d] = @ + by]
BumpIf(f, t, d, by) == IF t \in Tweets /\ Live(t) THEN Bump(f, d, by) ELSE f
\* As unlikeTweet and unretweet do it.
DropIf(f, t, d) == IF t \in Tweets /\ Live(t) THEN [f EXCEPT ![d] = IF @ > 0 THEN @ - 1 ELSE 0] ELSE f

-----------------------------------------------------------------------------
(* Tweets.                                                                 *)

\* The unique index on retweets.
Retweeted(u, t) == \E c \in Tweets : Live(c) /\ tweet[c].kind = "retweet" /\ tweet[c].by = u /\ tweet[c].parent = t

\* createTweet, to the timelines of the author and his followers; the parent
\* may be gone by now.
Post(u, t, kind, parent) ==
    /\ Step /\ tweet[t] = Absent
    /\ kind = "tweet" <=> parent = NoParent
    /\ parent # NoParent => tweet[parent].st # "absent" /\ parent # t
    /\ kind = "retweet" => ~Retweeted(u, parent)
    /\ tweet' = [tweet EXCEPT ![t] = [st |-> "live", kind |-> kind, by |-> u, parent |-> parent]]
    /\ children' = BumpIf(children, parent, <<parent, kind>>, 1)
    /\ feed' = feed \cup {<<v, t>> : v \in {u} \cup {w \in Readers : <<w, u>> \in follow}}
    /\ UNCHANGED <<like, mark, follow, likes, marks, followers, following, owed, lost>>

\* Mutant: deleting a retweet counts down the replies.
DeleteAsReply(u, t) ==
    LET d == tweet[t] kind == IF d.kind = "quote" THEN "quote" ELSE "comment" IN
    /\ Step /\ Live(t) /\ d.by = u
    /\ tweet' = [tweet EXCEPT ![t].st = "deleted"]
    /\ like' = {l \in like : l[2] # t} /\ mark' = {m \in mark : m[2] # t}
    /\ feed' = {f \in feed : f[2] # t}
    /\ children' = BumpIf(children, d.parent, <<d.parent, kind>>, -1)
    /\ UNCHANGED <<follow, likes, marks, followers, following, owed, lost>>

\* deleteTweet, with its likes, bookmarks and timeline entries.
DeleteTweet(u, t) ==
    LET d == tweet[t] IN
    /\ Step /\ Live(t) /\ d.by = u
    /\ tweet' = [tweet EXCEPT ![t].st = "deleted"]
    /\ like' = {l \in like : l[2] # t} /\ mark' = {m \in mark : m[2] # t}
    /\ feed' = {f \in feed : f[2] # t}
    /\ children' = BumpIf(children, d.parent, <<d.parent, d.kind>>, -1)
    /\ UNCHANGED <<follow, likes, marks, followers, following, owed, lost>>

\* unretweet: the retweet goes, but not the likes and bookmarks of it.
Unretweet(u, t) ==
    LET d == tweet[t] IN
    /\ Step /\ Live(t) /\ d.by = u /\ d.kind = "retweet"
    /\ tweet' = [tweet EXCEPT ![t].st = "undone"]
    /\ children' = DropIf(children, d.parent, <<d.parent, "retweet">>)
    /\ feed' = {f \in feed : f[2] # t}
    /\ UNCHANGED <<like, mark, follow, likes, marks, followers, following, owed, lost>>

-----------------------------------------------------------------------------
(* Likes, bookmarks, follows.                                              *)

\* likeTweet; a second like changes nothing.
Like(u, t) ==
    /\ Step /\ Live(t) /\ <<u, t>> \notin like
    /\ like' = like \cup {<<u, t>>} /\ likes' = Bump(likes, t, 1)
    /\ UNCHANGED <<tweet, mark, feed, follow, marks, children, followers, following, owed, lost>>

\* unlikeTweet, also of a tweet that is gone.
Unlike(u, t) ==
    /\ Step /\ <<u, t>> \in like
    /\ like' = like \ {<<u, t>>} /\ likes' = DropIf(likes, t, t)
    /\ UNCHANGED <<tweet, mark, feed, follow, marks, children, followers, following, owed, lost>>

\* bookmarkTweet, the first write: no look at whether the tweet is there.
Bookmark(u, t) ==
    /\ Step /\ tweet[t].st # "absent" /\ <<u, t>> \notin mark /\ owed[u] = Nothing
    /\ mark' = mark \cup {<<u, t>>} /\ owed' = [owed EXCEPT ![u] = <<t, 1>>]
    /\ UNCHANGED <<tweet, like, feed, follow, likes, marks, children, followers, following, lost>>

\* unbookmarkTweet, the first write.
Unbookmark(u, t) ==
    /\ Step /\ <<u, t>> \in mark /\ owed[u] = Nothing
    /\ mark' = mark \ {<<u, t>>} /\ owed' = [owed EXCEPT ![u] = <<t, -1>>]
    /\ UNCHANGED <<tweet, like, feed, follow, likes, marks, children, followers, following, lost>>

\* The second write of either.
CountMark(u) ==
    /\ owed[u] # Nothing
    /\ marks' = BumpIf(marks, owed[u][1], owed[u][1], owed[u][2])
    /\ owed' = [owed EXCEPT ![u] = Nothing]
    /\ UNCHANGED <<tweet, like, mark, feed, follow, likes, children, followers, following, lost, steps>>

\* The process dies between the two.
DieMarking(u) ==
    /\ owed[u] # Nothing
    /\ owed' = [owed EXCEPT ![u] = Nothing] /\ lost' = lost \cup {owed[u][1]}
    /\ UNCHANGED <<tweet, like, mark, feed, follow, likes, marks, children, followers, following, steps>>

\* followUser; the unique index refuses a second.
FollowUser(u, v) ==
    /\ Step /\ u # v /\ <<u, v>> \notin follow
    /\ follow' = follow \cup {<<u, v>>}
    /\ following' = Bump(following, u, 1) /\ followers' = Bump(followers, v, 1)
    /\ UNCHANGED <<tweet, like, mark, feed, likes, marks, children, owed, lost>>

\* unfollowUser; what is in the timeline stays.
UnfollowUser(u, v) ==
    /\ Step /\ <<u, v>> \in follow
    /\ follow' = follow \ {<<u, v>>}
    /\ following' = Bump(following, u, -1) /\ followers' = Bump(followers, v, -1)
    /\ UNCHANGED <<tweet, like, mark, feed, likes, marks, children, owed, lost>>

-----------------------------------------------------------------------------
Next ==
    \E u \in Readers :
        \/ \E t \in Tweets :
            \/ \E kind \in Counted \cup {"tweet"}, parent \in Tweets \cup {NoParent} : Post(u, t, kind, parent)
            \/ DeleteTweet(u, t) \/ Unretweet(u, t) \/ Like(u, t) \/ Unlike(u, t)
            \/ Bookmark(u, t) \/ Unbookmark(u, t)
        \/ \E v \in Readers : FollowUser(u, v) \/ UnfollowUser(u, v)
        \/ CountMark(u) \/ DieMarking(u)

Spec == Init /\ [][Next]_vars

-----------------------------------------------------------------------------
(* Properties.                                                             *)

\* What a tweet or a user is counted to have it has, whichever of several
\* ways its likes, replies, retweets and followers came and went: a retweet
\* goes by unretweet and by deleteTweet, a like also with its tweet.
CountsAgree ==
    /\ \A t \in Tweets : Live(t) =>
        /\ likes[t] = Cardinality({u \in Readers : <<u, t>> \in like})
        /\ \A k \in Counted : children[<<t, k>>] =
            Cardinality({c \in Tweets : Live(c) /\ tweet[c].parent = t /\ tweet[c].kind = k})
    /\ \A u \in Readers :
        /\ followers[u] = Cardinality({v \in Readers : <<v, u>> \in follow})
        /\ following[u] = Cardinality({v \in Readers : <<u, v>> \in follow})

\* The bookmarks of a tweet and their count differ by what bookmarks and
\* unbookmarks under way still owe, for ever only after a crash between their
\* two writes.
MarksOwed ==
    \A t \in Tweets : Live(t) /\ t \notin lost =>
        marks[t] = Cardinality({u \in Readers : <<u, t>> \in mark})
                   - Cardinality({u \in Readers : owed[u] = <<t, 1>>})
                   + Cardinality({u \in Readers : owed[u] = <<t, -1>>})

\* Nothing is left of a tweet that is gone, in a timeline or as a like; only
\* the likes of a retweet stay when it is undone.
NothingLeft ==
    /\ \A f \in feed : Live(f[2])
    /\ \A l \in like : Live(l[2]) \/ tweet[l[2]].st = "undone"

=============================================================================
