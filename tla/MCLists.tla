------------------------------- MODULE MCLists -------------------------------
(***************************************************************************)
(* What a client is shown of the database: the unread counts of its        *)
(* conversations, the counters and timelines of tweets, and lists page by  *)
(* page.  The three parts share no document and are checked side by side:  *)
(* every behaviour is one of a single part, and the other two rest.        *)
(***************************************************************************)
EXTENDS Naturals, FiniteSets, TLC

CONSTANTS
    Convs, Process, MaxMessages, MaxClears,    \* ConversationInbox
    Readers, Tweets, MaxSteps,                 \* Timeline
    MaxKey, Limit, MaxChanges                  \* Pages

VARIABLES
    part,
    sent, member, cutoff, joined, read, summary, note, pending, tx, clears,
    tweet, like, mark, feed, follow, likes, marks, children, followers, following, owed, lost, steps,
    list, rows, hidden, past, cursor, more, got, twice, held, kept, changes

inboxVars == <<sent, member, cutoff, joined, read, summary, note, pending, tx, clears>>
timelineVars == <<tweet, like, mark, feed, follow, likes, marks, children, followers, following, owed, lost, steps>>
pagesVars == <<list, rows, hidden, past, cursor, more, got, twice, held, kept, changes>>
vars == <<part, inboxVars, timelineVars, pagesVars>>

I == INSTANCE ConversationInbox
T == INSTANCE Timeline
P == INSTANCE Pages

ASSUME ConstantsFit == I!InboxAssumption /\ T!TimelineAssumption /\ P!PagesAssumption

Init == part \in {"inbox", "timeline", "pages"} /\ I!Init /\ T!Init /\ P!Init

Next ==
    \/ /\ part = "inbox" /\ I!Next
       /\ UNCHANGED <<part, timelineVars, pagesVars>>
    \/ /\ part = "timeline" /\ T!Next
       /\ UNCHANGED <<part, inboxVars, pagesVars>>
    \/ /\ part = "pages" /\ P!Next
       /\ UNCHANGED <<part, inboxVars, timelineVars>>

Spec == Init /\ [][Next]_vars

Symmetry == Permutations(Convs) \cup Permutations(Process) \cup Permutations(Readers)

-----------------------------------------------------------------------------
\* The summary over all conversations is the sum of the read states, and no
\* unread message is left out of the count of its conversation.
UnreadCounted == I!SummaryExact /\ I!UnreadCovers

\* Two tabs may acknowledge in any order: the read position never goes back.
ForwardOnly == I!ForwardOnly

\* A message that is read, or deleted for the user once all events are
\* processed, has no notification.
NotesCurrent == I!ReadNotNotified /\ I!DeletedGone

\* Counters and timelines agree with the tweets, likes, bookmarks and follows.
TimelineAgrees == T!CountsAgree /\ T!MarksOwed /\ T!NothingLeft

\* A walk through the pages of a list gives each row once.
EachOnce == P!NoneTwice /\ P!NoneSkipped

=============================================================================
