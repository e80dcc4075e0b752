-------------------------- MODULE ConversationInbox --------------------------
(***************************************************************************)
(* What one user has to read: the read state of each of the user's         *)
(* conversations, the summary over all of them and the notifications of    *)
(* the messages that mention the user or reply to one of the user's.       *)
(* Others send messages (ConversationMessageCommandService), the user      *)
(* reads, deletes messages and clears the history, leaves and is added     *)
(* again, and the notification worker handles the events of all that       *)
(* (ConversationReadService, DirectedNotificationReadService).             *)
(*                                                                         *)
(* The operations are MongoDB transactions.  One that writes a document    *)
(* another one has written since it began is dropped and begins again.  A  *)
(* send, a deletion, a clearing and a change of membership write the       *)
(* conversation or the read state as well as all they depend on, so that   *)
(* they take one step here; a read and a handler may stay open.            *)
(***************************************************************************)
EXTENDS Naturals, FiniteSets, FiniteSetsExt

CONSTANTS
    Convs,         \* the conversations
    Process,       \* requests and jobs under way at the same time
    MaxMessages,   \* bound on messages
    MaxClears      \* bound on history clearings and departures

\* Of the constants.
InboxAssumption == MaxMessages \in Nat /\ MaxClears \in Nat /\ IsFiniteSet(Convs)

Message == 1..MaxMessages      \* ids, in the order of the commits
Position == 0..MaxMessages     \* a message, or 0 for none

VARIABLES
    sent,       \* the messages: their conversation, whether they are the user's,
                \* concern the user, and are deleted for the user
    member,     \* conversations the user is in
    cutoff,     \* the user's mark in history_cleared_by
    joined,     \* the last message when the user was added
    read,       \* the read states: last_read_message_id, unread_message_count
    summary,    \* the UserMessageState: conversations and messages unread
    note,       \* the notifications of messages
    pending,    \* events not processed yet
    tx,         \* the transaction each process has open
    clears

vars == <<sent, member, cutoff, joined, read, summary, note, pending, tx, clears>>

Read == [last: Position, unread: Position]
Summary == [convs: 0..Cardinality(Convs), total: Position]
Event == [kind: {"created", "deleted"}, msg: Message]

Id == DOMAIN sent
Of(c) == {m \in Id : sent[m].conv = c}
Shown(c) == {m \in Of(c) : ~sent[m].deleted /\ m > cutoff[c]}
Theirs(c) == {m \in Of(c) : ~sent[m].mine}
After(c) == {m \in Theirs(c) : m > read[c].last}
Latest(S) == IF S = {} THEN 0 ELSE Max(S)
Minus(i, j) == IF j > i THEN 0 ELSE i - j

\* docs: the documents it writes; the rest is what it writes to them, and
\* whether it is a read up to the latest message.
NoWrites == [m \in {} |-> 0]
Idle == [docs |-> {}, event |-> {}, read |-> {}, notes |-> NoWrites, latest |-> FALSE]

TypeOK ==
    /\ Id = 1..Cardinality(Id) /\ Id \subseteq Message
    /\ \A m \in Id : sent[m] \in [conv: Convs, mine: BOOLEAN, directed: BOOLEAN, deleted: BOOLEAN]
    /\ member \subseteq Convs /\ read \in [member -> Read]
    /\ cutoff \in [Convs -> Position] /\ joined \in [Convs -> Position]
    /\ summary \in Summary
    /\ note \in [Message -> {"absent", "valid", "invalid"}] /\ pending \subseteq Event
    /\ \A m \in Message : note[m] # "absent" => m \in Id /\ sent[m].directed /\ ~sent[m].mine
    /\ clears \in 0..MaxClears
    /\ \A p \in Process : tx[p].event \subseteq pending /\ DOMAIN tx[p].notes \subseteq Id

Init ==
    /\ sent = NoWrites /\ member = Convs
    /\ cutoff = [c \in Convs |-> 0] /\ joined = [c \in Convs |-> 0]
    /\ read = [c \in Convs |-> [last |-> 0, unread |-> 0]]
    /\ summary = [convs |-> 0, total |-> 0]
    /\ note = [m \in Message |-> "absent"] /\ pending = {}
    /\ tx = [p \in Process |-> Idle] /\ clears = 0

Kept(docs) == [p \in Process |-> IF tx[p].docs \cap docs # {} THEN Idle ELSE tx[p]]

\* applyReadDelta: nothing is written for an empty delta.
ApplyReadDelta(s, old, new) ==
    IF new >= old THEN s
    ELSE [convs |-> Minus(s.convs, IF new = 0 THEN 1 ELSE 0), total |-> Minus(s.total, old - new)]
SummaryDoc(delta) == IF delta > 0 THEN {<<"summary">>} ELSE {}

\* incrementForMessages: one message more in a conversation with old unread.
Count(s, old) == [convs |-> s.convs + (IF old = 0 THEN 1 ELSE 0), total |-> s.total + 1]

-----------------------------------------------------------------------------
(* Requests that take one step.                                            *)

NewId == Cardinality(Id) + 1

\* The next message of conversation c.
Put(c, mine, directed) ==
    /\ NewId \in Message
    /\ sent' = [m \in Id \cup {NewId} |->
                IF m = NewId THEN [conv |-> c, mine |-> mine, directed |-> directed, deleted |-> FALSE]
                ELSE sent[m]]

\* send, by another member: the message is stored and counted.
Send(c, directed) ==
    /\ c \in member
    /\ Put(c, FALSE, directed)
    /\ read' = [read EXCEPT ![c].unread = @ + 1]
    /\ summary' = Count(summary, read[c].unread)
    /\ pending' = pending \cup {[kind |-> "created", msg |-> NewId]}
    /\ tx' = Kept({<<"read", c>>, <<"summary">>})
    /\ UNCHANGED <<member, cutoff, joined, note, clears>>

\* A message of the user, or of the others while the user is out of the group,
\* is no reason to count.
SendUncounted(c) ==
    /\ Put(c, c \in member, FALSE)
    /\ UNCHANGED <<member, cutoff, joined, read, summary, note, pending, tx, clears>>

\* deleteMessage, for the user only.  The read state is left alone, and the
\* history may have been cleared since the message was looked up.
Delete(m) ==
    /\ m \in Id /\ ~sent[m].deleted /\ sent[m].conv \in member
    /\ sent' = [sent EXCEPT ![m].deleted = TRUE]
    /\ pending' = pending \cup {[kind |-> "deleted", msg |-> m]}
    /\ tx' = Kept({<<"guard", m>>})
    /\ UNCHANGED <<member, cutoff, joined, read, summary, note, clears>>

\* clearConversationHistory with clearForHistoryInTransaction.
Clear(c) ==
    /\ c \in member /\ clears < MaxClears
    /\ clears' = clears + 1
    /\ cutoff' = [cutoff EXCEPT ![c] = Latest(Of(c))]
    /\ read' = [read EXCEPT ![c] = [last |-> Latest(Of(c)), unread |-> 0]]
    /\ summary' = ApplyReadDelta(summary, read[c].unread, 0)
    /\ tx' = Kept({<<"read", c>>} \cup SummaryDoc(read[c].unread))
    /\ UNCHANGED <<sent, member, joined, note, pending>>

\* Mutant: the one who leaves keeps the unread messages in the summary.
LeaveUnread(c, mine) ==
    /\ c \in member /\ clears < MaxClears
    /\ clears' = clears + 1
    /\ Put(c, mine, FALSE)
    /\ member' = member \ {c}
    /\ read' = [d \in member \ {c} |-> read[d]]
    /\ tx' = Kept({<<"read", c>>})
    /\ UNCHANGED <<cutoff, joined, summary, note, pending>>

\* leaveGroup (mine) and removeGroupMember with clearMembershipInTransaction and
\* the system message, which is not the user's to count any more.
Leave(c, mine) ==
    /\ c \in member /\ clears < MaxClears
    /\ clears' = clears + 1
    /\ Put(c, mine, FALSE)
    /\ member' = member \ {c}
    /\ read' = [d \in member \ {c} |-> read[d]]
    /\ summary' = ApplyReadDelta(summary, read[c].unread, 0)
    /\ tx' = Kept({<<"read", c>>} \cup SummaryDoc(read[c].unread))
    /\ UNCHANGED <<cutoff, joined, note, pending>>

\* addGroupMembers with initializeMembership and the system message, which is
\* the first one the new member has to read.
Join(c) ==
    /\ c \in Convs \ member
    /\ Put(c, FALSE, FALSE)
    /\ member' = member \cup {c}
    /\ joined' = [joined EXCEPT ![c] = Latest(Of(c))]
    /\ read' = [d \in member \cup {c} |->
                    IF d = c THEN [last |-> Latest(Of(c)), unread |-> 1] ELSE read[d]]
    /\ summary' = Count(summary, 0)
    /\ tx' = Kept({<<"read", c>>, <<"summary">>})
    /\ UNCHANGED <<cutoff, note, pending, clears>>

-----------------------------------------------------------------------------
(* Transactions that stay open.                                            *)

Open(p, t) ==
    /\ tx[p] = Idle
    /\ tx' = [tx EXCEPT ![p] = t]
    /\ UNCHANGED <<sent, member, cutoff, joined, read, summary, note, pending, clears>>

Target(c, m) == IF m # 0 THEN m ELSE IF Shown(c) = {} THEN read[c].last ELSE Latest(Shown(c))

\* What is left unread after a read up to message m, or up to the latest for m = 0.
Remaining(c, m) ==
    LET acknowledged == {i \in Theirs(c) : read[c].last < i /\ i <= m /\ ~sent[i].deleted} IN
    IF m = 0 THEN 0 ELSE Minus(read[c].unread, Cardinality(acknowledged))

\* Mutant: the position follows the message that is read.
ReadTo(c, m) == [last |-> Target(c, m), unread |-> Remaining(c, m)]

\* The read state after the read: one that goes back changes nothing.
ReadThrough(c, m) ==
    IF Target(c, m) # 0 /\ read[c].last >= Target(c, m) THEN read[c]
    ELSE [last |-> Target(c, m), unread |-> Remaining(c, m)]

\* markReadInTransaction with invalidateThroughReadPosition.
MarkRead(p, c, m) ==
    LET new == ReadThrough(c, m)
        hit == {i \in Of(c) : note[i] = "valid" /\ i <= new.last} IN
    /\ c \in member /\ m \in Shown(c) \cup {0}
    /\ Open(p, [Idle EXCEPT
                !.docs = {<<"read", c>>} \cup SummaryDoc(read[c].unread - new.unread)
                            \cup {<<"note", i>> : i \in hit},
                !.read = {<<c, new>>}, !.notes = [i \in hit |-> "invalid"], !.latest = (m = 0)])

\* The transaction of a handler that sets the notifications of messages S.
Handle(p, e, docs, S, status) ==
    Open(p, [Idle EXCEPT !.docs = docs \cup {<<"event", e>>} \cup {<<"note", i>> : i \in S},
                         !.event = {e}, !.notes = [i \in S |-> status]])

\* resolveMessagePlan: the message replies to one of the user's or mentions the
\* user, and is not deleted for the user.
Wanted(m) == sent[m].directed /\ ~sent[m].deleted

\* retainCommandsAfterReadPosition: nothing is created for a message that is read.
AlreadyRead(m) == LET c == sent[m].conv IN c \in member /\ read[c].last >= m

\* Mutant: the read state is read and not written.
HandleCreatedUntouched(p, e) ==
    LET m == e.msg IN
    /\ e \in pending /\ e.kind = "created"
    /\ Handle(p, e, {<<"guard", m>>}, {i \in {m} : Wanted(i) /\ ~AlreadyRead(i)}, "valid")

\* The guard of the message and the read state are written, so that a deletion
\* or a read under way at the same time makes the handler begin again.
HandleCreated(p, e) ==
    LET m == e.msg
        states == {<<"read", c>> : c \in {c \in member : Wanted(m) /\ c = sent[m].conv}} IN
    /\ e \in pending /\ e.kind = "created"
    /\ Handle(p, e, {<<"guard", m>>} \cup states,
              {i \in {m} : Wanted(i) /\ ~AlreadyRead(i)}, "valid")

\* handleMessageDeletedForRecipient.
HandleDeleted(p, e) ==
    /\ e \in pending /\ e.kind = "deleted"
    /\ Handle(p, e, {}, {i \in {e.msg} : note[i] = "valid"}, "invalid")

Commit(p) ==
    LET t == tx[p] IN
    /\ t # Idle
    /\ IF t.read = {} THEN UNCHANGED <<read, summary>>
       ELSE LET r == CHOOSE x \in t.read : TRUE IN
            /\ read' = [read EXCEPT ![r[1]] = r[2]]
            /\ summary' = ApplyReadDelta(summary, read[r[1]].unread, r[2].unread)
    /\ note' = [m \in Message |-> IF m \in DOMAIN t.notes THEN t.notes[m] ELSE note[m]]
    /\ pending' = pending \ t.event
    /\ tx' = [Kept(t.docs) EXCEPT ![p] = Idle]
    /\ UNCHANGED <<sent, member, cutoff, joined, clears>>

-----------------------------------------------------------------------------
Next ==
    \/ \E c \in Convs : \/ \E d \in BOOLEAN : Send(c, d) \/ Leave(c, d)
                        \/ SendUncounted(c) \/ Clear(c) \/ Join(c)
    \/ \E m \in Id : Delete(m)
    \/ \E p \in Process : \/ \E c \in Convs, m \in Position : MarkRead(p, c, m)
                          \/ \E e \in pending : HandleCreated(p, e) \/ HandleDeleted(p, e)
                          \/ Commit(p)

Spec == Init /\ [][Next]_vars

-----------------------------------------------------------------------------
(* Properties.                                                             *)

Unread == {c \in member : read[c].unread > 0}
Sum == [convs |-> Cardinality(Unread), total |-> MapThenSumSet(LAMBDA c : read[c].unread, Unread)]

\* The summary is the sum of the read states, through every overlap of reads,
\* messages, clearings and departures.
SummaryExact == summary = Sum

\* No unread message is left out of the count; it is exact when no message of
\* the conversation was deleted.
UnreadCovers ==
    \A c \in member :
        /\ read[c].unread >= Cardinality(After(c) \cap Shown(c))
        /\ (\A m \in Of(c) : ~sent[m].deleted) => read[c].unread = Cardinality(After(c))

\* Two tabs may acknowledge in any order: the read position never goes back.
ForwardOnly == [][\A c \in member \cap member' : read'[c].last >= read[c].last]_vars

\* A message the user has read has no notification, whichever of the read and
\* the handler of the message comes first, but for what a clearing or a
\* joining skipped.
ReadNotNotified ==
    \A c \in member : \A m \in Of(c) :
        cutoff[c] < m /\ joined[c] < m /\ m <= read[c].last => note[m] # "valid"

\* When all events are processed a message deleted for the user has no
\* notification.
DeletedGone == pending = {} => \A m \in Id : sent[m].deleted => note[m] # "valid"

\* Stated by the design, and not so (see the README): a read up to the latest
\* message leaves nothing unread.
ReadLatestClears ==
    [][\A p \in Process : Commit(p) /\ tx[p].latest
            => \A r \in tx[p].read : read'[r[1]].unread = 0]_vars

\* Stated by the design, and not so (see the README): no message up to the read
\* position has a notification.
ReadPositionNotified ==
    \A c \in member : \A m \in Of(c) : m <= read[c].last => note[m] # "valid"

=============================================================================
