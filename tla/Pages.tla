------------------------------- MODULE Pages -------------------------------
(***************************************************************************)
(* A client reads a list page by page while others change it.  All lists   *)
(* are in descending order of an immutable key (an ObjectId, or the pair   *)
(* of creation time and ObjectId of a notification), a cursor is the key   *)
(* of the last row of a page, and the services differ in two points:       *)
(* whether rows the reader may not see are sorted out before or after the  *)
(* limit, and how they find out that there is another page.                *)
(***************************************************************************)
EXTENDS Naturals, FiniteSets, FiniteSetsExt

CONSTANTS
    MaxKey,       \* keys of rows
    Limit,        \* rows of a page
    MaxChanges    \* bound on changes by others during the walk

\* Of the constants.
PagesAssumption == MaxKey \in Nat /\ Limit \in Nat \ {0} /\ MaxChanges \in Nat

Keys == 1..MaxKey
End == MaxKey + 1                    \* above all rows: no cursor yet
Lists == {"exact", "full", "late", "likes", "cached", "context"}

VARIABLES
    list,       \* how this list is read; "none" before the first page
    rows,       \* the rows there are
    hidden,     \* rows the reader may not see: deleted for him, of a blocked author, private
    past,       \* the rows shown at an earlier time, from which there are cached pages
    cursor,     \* the rows below it come next
    more,       \* has_next_page
    got,        \* the rows given
    twice,      \* those of them given again
    held,       \* the rows that a late list left out of its pages
    kept,       \* the rows there for the reader all along
    changes

vars == <<list, rows, hidden, past, cursor, more, got, twice, held, kept, changes>>

TypeOK ==
    /\ list \in Lists \cup {"none"} /\ cursor \in 1..End /\ more \in BOOLEAN
    /\ rows \subseteq Keys /\ hidden \subseteq Keys /\ changes \in 0..MaxChanges
    /\ past \subseteq Keys /\ got \subseteq Keys /\ twice \subseteq got /\ held \subseteq Keys /\ kept \subseteq rows \ hidden

Init ==
    /\ list = "none" /\ cursor = End /\ more = FALSE
    /\ rows = {} /\ hidden = {} /\ past = {}
    /\ got = {} /\ twice = {} /\ held = {} /\ kept = {} /\ changes = 0

-----------------------------------------------------------------------------
(* The changes of others.                                                  *)

Changed(r, h, k) ==
    /\ list # "none" /\ changes < MaxChanges
    /\ changes' = changes + 1
    /\ rows' = r /\ hidden' = h /\ kept' = k
    /\ UNCHANGED <<list, past, cursor, more, got, twice, held>>

\* A key is taken before its row is committed, so it need not be the highest.
Insert(i) == i \notin rows \cup got \cup held /\ Changed(rows \cup {i}, hidden \ {i}, kept)

Delete(i) == i \in rows /\ Changed(rows \ {i}, hidden, kept \ {i})

Hide(i) == i \in rows \ hidden /\ Changed(rows, hidden \cup {i}, kept \ {i})

Show(i) == i \in rows \cap hidden /\ Changed(rows, hidden \ {i}, kept)

-----------------------------------------------------------------------------
(* The queries.                                                            *)

Newest(s, n) == {i \in s : Cardinality({j \in s : j > i}) < n}
Oldest(s, n) == {i \in s : Cardinality({j \in s : j < i}) < n}
Below(s) == {i \in s : i < cursor}

\* The answer: a page, whether there is more, the rows the cursor goes by and
\* what else was read.
GiveOf(page, next, seen, left) ==
    /\ got' = got \cup page
    /\ twice' = twice \cup (got \cap page)
    /\ held' = held \cup left
    /\ more' = next
    /\ cursor' = IF seen = {} THEN cursor ELSE Min(seen)

Give(page, next, left) == GiveOf(page, next, page, left)

\* Mutant: the row read to see whether there is more becomes the cursor.
ExactFromNext ==
    LET found == Newest(Below(rows \ hidden), Limit + 1) IN
    /\ got' = got \cup Newest(found, Limit)
    /\ twice' = twice /\ held' = held
    /\ more' = (Cardinality(found) > Limit)
    /\ cursor' = IF found = {} THEN cursor ELSE Min(found)
    /\ UNCHANGED kept

\* Notifications, messages, their search and media, groups: one row more than
\* the limit is read and tells whether there is another page.
Exact ==
    LET found == Newest(Below(rows \ hidden), Limit + 1) IN
    Give(Newest(found, Limit), Cardinality(found) > Limit, {}) /\ UNCHANGED kept

\* Replies, the timeline for you, tweets of a user or a hashtag, user search:
\* a full page is taken as a sign of another.
Full(shown) ==
    LET page == Newest(Below(shown), Limit) IN
    Give(page, Cardinality(page) = Limit, {})

\* The home timeline, bookmarks, who likes a tweet: what the reader may not see
\* is left out after the limit, and only a page that is full even so is not the
\* last.
Late ==
    LET read == Newest(Below(rows), Limit) page == read \ hidden IN
    Give(page, Cardinality(page) = Limit, read \cap hidden) /\ UNCHANGED kept

\* The tweets a user likes: those that are gone are left out like that, but
\* private ones only after it is known whether the page is full.
Likes ==
    LET read == Newest(Below(rows), Limit) IN
    /\ \E gone \in SUBSET (read \cap hidden) :
        GiveOf(read \ hidden, Cardinality(read \ gone) = Limit, read \ gone, gone)
    /\ UNCHANGED kept

\* The search of tweets and users: a page may be up to a minute old.
Cached ==
    \/ Full(rows \ hidden) /\ UNCHANGED kept
    \/ Full(past) /\ kept' = kept \cap past

\* A message with some of its neighbours; older ones are read from there on.
Around(before, after) ==
    \E t \in rows \ hidden :
        LET older == Newest({i \in rows \ hidden : i < t}, before + 1)
            newer == Oldest({i \in rows \ hidden : i > t}, after + 1)
            page == Newest(older, before) \cup {t} \cup Oldest(newer, after) IN
        /\ Give(page, Cardinality(older) > before /\ before > 0, {})
        /\ kept' = {i \in kept : i <= Max(page) /\ (before > 0 \/ i >= t)}

\* One more page.
Page ==
    CASE list \in {"exact", "context"} -> Exact
      [] list = "full" -> Full(rows \ hidden) /\ UNCHANGED kept
      [] list = "late" -> Late
      [] list = "likes" -> Likes
      [] list = "cached" -> Cached

\* The client starts to read, when the list is what it is.
Start(l, all, some) ==
    /\ list = "none" /\ list' = l
    /\ rows' = all /\ hidden' = some /\ kept' = all \ some
    /\ more' = (l # "context")
    /\ past' \in IF l = "cached" THEN SUBSET Keys ELSE {{}}
    /\ UNCHANGED <<cursor, got, twice, held, changes>>

First ==
    /\ list = "context" /\ got = {} /\ ~more
    /\ \E before, after \in 0..1 : Around(before, after)
    /\ UNCHANGED <<list, rows, hidden, past, changes>>

Next ==
    \/ \E l \in Lists, all \in SUBSET Keys : \E some \in SUBSET all : Start(l, all, some)
    \/ First
    \/ more /\ Page /\ UNCHANGED <<list, rows, hidden, past, changes>>
    \/ \E i \in Keys : Insert(i) \/ Delete(i) \/ Hide(i) \/ Show(i)

Spec == Init /\ [][Next]_vars

-----------------------------------------------------------------------------
(* Properties.                                                             *)

\* No row is given on two pages of one walk, however the list changes and
\* even when some pages come from a cache.
NoneTwice == twice = {}

\* A walk that has come to its end has given every row that was there for the
\* reader all along, whatever was added, deleted, hidden or shown meanwhile;
\* but a list that sorts out after the limit may end early, below a row that
\* it left out (see the README).
NoneSkipped ==
    (list # "none" /\ ~more /\ (list = "context" => got # {})) =>
        \A i \in kept \ got : \E j \in held : j > i

=============================================================================
