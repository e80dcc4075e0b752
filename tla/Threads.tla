------------------------------- MODULE Threads -------------------------------
(***************************************************************************)
(* One group conversation: its messages, the preview of the last one that  *)
(* the list of conversations shows, and what each member has done to it    *)
(* for himself (ConversationService).  The preview is a copy, kept in the  *)
(* conversation and, for a member to whom it does not apply, in an         *)
(* override; it has to follow messages that are sent, revoked, deleted by  *)
(* one member, or cleared with the history.                                *)
(*                                                                         *)
(* A revocation and a deletion are transactions over a snapshot that write *)
(* their message and, where the preview changes, the conversation.  They   *)
(* stay open here; the others write the conversation whatever they read    *)
(* and take one step.                                                      *)
(***************************************************************************)
EXTENDS Naturals, Sequences, FiniteSets, FiniteSetsExt

CONSTANTS
    Users,         \* members and others who may be added
    Process,       \* revocations and deletions under way at the same time
    MaxMessages,   \* bound on messages, system messages included
    MaxChanges     \* bound on all that is done besides sending

ASSUME ThreadsAssumption == MaxMessages \in Nat /\ MaxChanges \in Nat

Conversation == 0      \* its document, next to those of the messages
System == "system"     \* the kind of messages that nobody revokes or edits

VARIABLES
    msg,         \* the messages: author, status, whether they have a content,
                 \* who reacted, who deleted them
    preview,     \* last_message_preview: of which message, with its content or not
    own,         \* last_message_overrides
    cutoff,      \* history_cleared_by: cleared_through_message_id
    restore,     \* history_cleared_by: those with restore_on_next_message
    hidden, muted, members,
    tx,          \* what each process is doing
    edited,      \* revoked messages with a content again
    hid,         \* who has hidden the conversation himself, when it was to be seen
    back,        \* of those with a marker, who was gone or was added since
    raced,       \* messages revoked while a transaction was about to show them
    stale,       \* whose override was chosen with a cut-off from before a clearing
    changes

vars == <<msg, preview, own, cutoff, restore, hidden, muted, members, tx, edited, hid, back, raced, stale, changes>>
mine == <<cutoff, restore, hidden, muted, members, hid, back>>

Id == DOMAIN msg
Nothing == [of |-> 0, text |-> FALSE]
NoOverrides == [u \in {} |-> Nothing]
Idle == [kind |-> "idle"]
Latest(S) == IF S = {} THEN 0 ELSE Max(S)

Init ==
    /\ msg = <<>> /\ preview = Nothing /\ own = NoOverrides
    /\ cutoff = [u \in Users |-> 0] /\ restore = {} /\ hidden = {} /\ muted = {}
    /\ members = Users /\ hid = {} /\ back = {}
    /\ tx = [p \in Process |-> Idle]
    /\ edited = {} /\ raced = {} /\ stale = {} /\ changes = 0

\* What the list of conversations shows to u.
ShownTo(u) == IF u \in DOMAIN own THEN own[u] ELSE preview

\* buildLastMessagePreview, of message i with the statuses s.
Preview(i, s) == [of |-> i, text |-> i # 0 /\ s[i] = "sent"]
Status == [i \in Id |-> msg[i].status]

\* What an override may show u: neither deleted nor cleared.
Remaining(u, through) == {i \in Id : i > through /\ u \notin msg[i].deleted}

\* A committed write makes transactions with the same document begin again.
Begun(t) == IF t.kind = "delete" THEN [t EXCEPT !.docs = {}] ELSE Idle
Spoil(docs) == [p \in Process |-> IF tx[p] # Idle /\ tx[p].docs \cap docs # {} THEN Begun(tx[p]) ELSE tx[p]]

Bounded == changes < MaxChanges /\ changes' = changes + 1

-----------------------------------------------------------------------------
(* Steps that write the conversation at once.                              *)

Add(by) ==
    /\ Len(msg) < MaxMessages
    /\ msg' = Append(msg, [by |-> by, status |-> "sent", text |-> TRUE, reactions |-> {}, deleted |-> {}])
    /\ preview' = [of |-> Len(msg) + 1, text |-> TRUE]
    /\ tx' = Spoil({Conversation}) /\ stale' = {}

\* Whoever cleared the history finds the conversation again.
Restore ==
    /\ hidden' = hidden \ restore /\ muted' = muted \ restore /\ restore' = {}
    /\ hid' = hid \ restore /\ back' = {}

\* Mutant: the overrides survive the message.
SendKeepingOverrides(u) ==
    /\ u \in members /\ Add(u) /\ Restore
    /\ UNCHANGED <<own, cutoff, members, edited, raced, changes>>

\* persistPrepared.
Send(u) ==
    /\ u \in members /\ Add(u) /\ Restore
    /\ own' = NoOverrides
    /\ UNCHANGED <<cutoff, members, edited, raced, changes>>

\* leaveGroup and removeGroupMember with their system message; the marker of
\* the cleared history stays.
Leave(u) ==
    /\ u \in members /\ Bounded /\ Add(System)
    /\ members' = members \ {u} /\ hidden' = hidden \ {u} /\ muted' = muted \ {u}
    /\ hid' = hid \ {u} /\ back' = back \cup ({u} \cap restore) /\ own' = NoOverrides
    /\ UNCHANGED <<cutoff, restore, edited, raced>>

\* addGroupMembers: those asked for find the conversation, the members among
\* them too; a system message only if somebody is new.
Join(u, S) ==
    /\ u \in members /\ S # {} /\ u \notin S /\ Bounded
    /\ \/ S \subseteq members /\ tx' = Spoil({Conversation}) /\ UNCHANGED <<msg, preview, own, stale>>
       \/ ~(S \subseteq members) /\ Add(System) /\ own' = NoOverrides
    /\ members' = members \cup S /\ hidden' = hidden \ S
    /\ hid' = hid \ S /\ back' = back \cup (S \cap restore)
    /\ UNCHANGED <<cutoff, restore, muted, edited, raced>>

\* Mutant: the cut-off is kept in a document of its own.
ClearBeside(u) ==
    /\ u \in members /\ Bounded
    /\ cutoff' = [cutoff EXCEPT ![u] = Len(msg)]
    /\ restore' = restore \cup {u} /\ hidden' = hidden \cup {u} /\ muted' = muted \ {u}
    /\ hid' = hid \ {u} /\ back' = back \ {u} /\ stale' = stale \ {u}
    /\ own' = [v \in DOMAIN own \cup {u} |-> IF v = u THEN Nothing ELSE own[v]]
    /\ UNCHANGED <<msg, preview, members, edited, tx, raced>>

\* clearConversationHistory.
Clear(u) ==
    /\ u \in members /\ Bounded
    /\ cutoff' = [cutoff EXCEPT ![u] = Len(msg)]
    /\ restore' = restore \cup {u} /\ hidden' = hidden \cup {u} /\ muted' = muted \ {u}
    /\ hid' = hid \ {u} /\ back' = back \ {u} /\ stale' = stale \ {u}
    /\ own' = [v \in DOMAIN own \cup {u} |-> IF v = u THEN Nothing ELSE own[v]]
    /\ tx' = Spoil({Conversation})
    /\ UNCHANGED <<msg, preview, members, edited, raced>>

Personal ==
    /\ Bounded /\ tx' = Spoil({Conversation})
    /\ UNCHANGED <<msg, preview, own, cutoff, members, edited, raced, stale>>

\* deleteConversation, which changes nothing for one that is hidden already.
Hide(u) ==
    /\ u \in members \ hidden /\ hidden' = hidden \cup {u} /\ hid' = hid \cup {u}
    /\ Personal /\ UNCHANGED <<restore, muted, back>>

\* Mutant: the marker still waits for the next message.
UnhideOnly(u) ==
    /\ u \in members \cap hidden /\ hidden' = hidden \ {u} /\ hid' = hid \ {u}
    /\ Personal /\ UNCHANGED <<restore, muted, back>>

\* unhideConversation and the reopening of a direct conversation.
Unhide(u) ==
    /\ u \in members \cap hidden
    /\ hidden' = hidden \ {u} /\ restore' = restore \ {u}
    /\ muted' = IF u \in restore THEN muted \ {u} ELSE muted
    /\ hid' = hid \ {u} /\ back' = back \ {u}
    /\ Personal

\* muteConversation, which leaves alone what is hidden, and unmuteConversation.
Mute(u) ==
    /\ u \in members \ hidden /\ muted' = muted \cup {u}
    /\ Personal /\ UNCHANGED <<hidden, restore, hid, back>>

Unmute(u) ==
    /\ u \in members \cap muted /\ muted' = muted \ {u}
    /\ Personal /\ UNCHANGED <<hidden, restore, hid, back>>

-----------------------------------------------------------------------------
(* Steps that write one message.                                           *)

Write(m, new) ==
    /\ Bounded
    /\ msg' = [msg EXCEPT ![m] = new]
    /\ tx' = Spoil({m})
    /\ UNCHANGED <<preview, own, mine, raced, stale>>

Visible(u, m) == u \in members /\ m > cutoff[u] /\ msg[m].status = "sent" /\ u \notin msg[m].deleted

\* reactMessage and unreactMessage.
React(u, m) ==
    /\ Visible(u, m) /\ msg[m].by # System
    /\ Write(m, [msg[m] EXCEPT !.reactions = IF u \in @ THEN @ \ {u} ELSE @ \cup {u}])
    /\ UNCHANGED edited

\* editMessage looks at the author only, not at the status or the membership.
Edit(m) ==
    /\ msg[m].by # System /\ ~msg[m].text
    /\ Write(m, [msg[m] EXCEPT !.text = TRUE])
    /\ edited' = edited \cup {m}

-----------------------------------------------------------------------------
(* Revocation and deletion.                                                *)

Open(p, t) ==
    /\ tx' = [tx EXCEPT ![p] = t]
    /\ UNCHANGED <<msg, preview, own, mine, edited, raced, stale>>

\* Mutant: the overrides are not looked at.
RevokeShared(p, m) ==
    LET s == [Status EXCEPT ![m] = "revoked"]
        last == Latest({i \in Id : s[i] = "sent"}) IN
    /\ tx[p] = Idle /\ msg[m].status = "sent" /\ msg[m].by \in members /\ Bounded
    /\ Open(p, [kind |-> "revoke", m |-> m,
                docs |-> {m} \cup IF last <= m THEN {Conversation} ELSE {},
                preview |-> IF last > m THEN preview ELSE Preview(IF last = 0 THEN m ELSE last, s),
                own |-> own])

\* revokeMessage with syncLastMessagePreviewAfterRevoke: the preview goes back
\* to the last message still sent, when that is an earlier one, and the
\* overrides that showed the message are made anew.
Revoke(p, m) ==
    LET s == [Status EXCEPT ![m] = "revoked"]
        last == Latest({i \in Id : s[i] = "sent"})
        affected == {u \in DOMAIN own : own[u].of = m} IN
    /\ tx[p] = Idle /\ msg[m].status = "sent" /\ msg[m].by \in members /\ Bounded
    /\ Open(p, [kind |-> "revoke", m |-> m,
                docs |-> {m} \cup IF last <= m \/ affected # {} THEN {Conversation} ELSE {},
                preview |-> IF last > m THEN preview ELSE Preview(IF last = 0 THEN m ELSE last, s),
                own |-> [u \in DOMAIN own |-> IF u \in affected THEN Preview(Latest(Remaining(u, cutoff[u])), s) ELSE own[u]]])

\* deleteMessage checks the access, with the cleared history, before its transaction.
Access(p, u, m) ==
    /\ tx[p] = Idle /\ Visible(u, m) /\ Bounded
    /\ Open(p, [kind |-> "delete", m |-> m, by |-> u, through |-> cutoff[u], docs |-> {},
                preview |-> preview, own |-> own])

\* Its transaction, with setLastMessageOverride.
Delete(p) ==
    LET t == tx[p] IN
    /\ t.kind = "delete" /\ t.docs = {}
    /\ IF msg[t.m].status # "sent" \/ t.by \in msg[t.m].deleted
       THEN Open(p, Idle)
       ELSE LET new == Preview(Latest(Remaining(t.by, t.through) \ {t.m}), Status) IN
            Open(p, [t EXCEPT !.docs = {t.m, Conversation}, !.preview = preview,
                              !.own = [u \in DOMAIN own \cup {t.by} |-> IF u = t.by THEN new ELSE own[u]]])
    /\ UNCHANGED changes

\* r revokes a message without the conversation while t is about to write
\* the conversation with the content of that message: neither hinders the other.
Missed(r, t) ==
    /\ r.kind = "revoke" /\ r.docs \cap t.docs = {} /\ Conversation \in t.docs
    /\ [of |-> r.m, text |-> TRUE] \in {t.preview} \cup {t.own[u] : u \in DOMAIN t.own}

Commit(p) ==
    LET t == tx[p]
        new == IF t.kind = "delete" THEN [msg[t.m] EXCEPT !.deleted = @ \cup {t.by}]
               ELSE [msg[t.m] EXCEPT !.status = "revoked", !.text = FALSE, !.reactions = {}] IN
    /\ t # Idle /\ t.docs # {}
    /\ msg' = [msg EXCEPT ![t.m] = new]
    /\ preview' = IF Conversation \in t.docs THEN t.preview ELSE preview
    /\ own' = IF Conversation \in t.docs THEN t.own ELSE own
    /\ tx' = [Spoil(t.docs) EXCEPT ![p] = Idle]
    /\ raced' = raced \cup {tx[q].m : q \in {q \in Process \ {p} : tx[q] # Idle /\ Missed(tx[q], t)}}
                     \cup {i \in {t.m} : \E q \in Process \ {p} : tx[q] # Idle /\ Missed(t, tx[q])}
    /\ stale' = IF t.kind = "delete" /\ t.through # cutoff[t.by] THEN stale \cup {t.by} ELSE stale
    /\ UNCHANGED <<mine, edited, changes>>

-----------------------------------------------------------------------------
Next ==
    \/ \E u \in Users : \/ Send(u) \/ Leave(u) \/ Clear(u) \/ \E S \in SUBSET Users : Join(u, S)
                        \/ Hide(u) \/ Unhide(u) \/ Mute(u) \/ Unmute(u)
    \/ \E m \in Id : \/ Edit(m) \/ \E u \in Users : React(u, m)
                     \/ \E p \in Process : \/ Revoke(p, m)
                                           \/ \E u \in Users : Access(p, u, m)
    \/ \E p \in Process : Delete(p) \/ Commit(p)

Spec == Init /\ [][Next]_vars

-----------------------------------------------------------------------------
(* Properties.                                                             *)

\* The list shows each member the latest message the member may see, or a
\* later one that was revoked: no override outlives a new message, through
\* every overlap.
PreviewCurrent ==
    \A u \in members : ShownTo(u).of >= Latest({i \in Id : Visible(u, i)})

\* A revoked message has no reactions, no content unless it was edited since,
\* and no preview has its content, however revocations, deletions, clearings
\* and messages overlap; but for one revoked while another transaction was
\* about to show it.
Withdrawn ==
    /\ \A i \in Id : msg[i].status = "revoked" => msg[i].reactions = {} /\ (msg[i].text => i \in edited)
    /\ \A u \in members : ShownTo(u).text => msg[ShownTo(u).of].status = "sent" \/ ShownTo(u).of \in raced

\* A member is shown nothing he has deleted or cleared, through every overlap,
\* unless a later message was revoked, or his own deletion had looked at the
\* cut-off before he cleared the history.
Forgotten ==
    \A u \in members \ stale :
        LET i == ShownTo(u).of IN
        i # 0 /\ ShownTo(u).text => \/ i > cutoff[u] /\ u \notin msg[i].deleted
                                    \/ \E j \in Id : j > i /\ msg[j].status = "revoked"

\* The next message brings a conversation back, and lifts its mute, only for
\* those for whom a clearing has hidden it and who have not since, with it in
\* view again, hidden or muted it; and for these it does: what a clearing has
\* hidden is hidden no longer than until a message.  But not for one who was
\* gone since, or was added although he was there (see the README).
RestoredAsMeant ==
    /\ \A u \in restore \ back : u \in hidden /\ u \notin hid \cup muted
    /\ \A u \in hidden \ hid : \A i \in Id : i > cutoff[u] => msg[i].by = System

\* Stated by the interface, and not so (see the README): the next message
\* brings back no conversation that its member has hidden, and lifts no mute.
HiddenStaysHidden == restore \cap (hid \cup muted) = {}

\* Stated by the interface, and not so (see the README): no preview has the
\* content of a revoked message.
PreviewWithoutRevoked ==
    \A u \in members : ShownTo(u).text => msg[ShownTo(u).of].status = "sent"

=============================================================================
