--------------------------- MODULE MessageCommands ---------------------------
(***************************************************************************)
(* Sending and forwarding of messages under keys of the client             *)
(* (ConversationMessageCommandService): a client repeats a request when no *)
(* answer came, possibly while the first is still under way, and the       *)
(* server may die between the commit and the answer.  A forward writes to  *)
(* several conversations in one transaction, under a key derived for each. *)
(*                                                                         *)
(* A transaction reads one snapshot, so that all it reads is read when it  *)
(* opens; a commit of another one that writes a document it writes, or     *)
(* takes a key it takes, spoils it.  What it only reads (the source, the   *)
(* blocks) may change before it commits.                                   *)
(***************************************************************************)
EXTENDS Naturals, Sequences, FiniteSets, SequencesExt

CONSTANTS
    Convs,         \* the conversations the sender is in at first
    Direct,        \* those with one partner; the others are groups
    Others,        \* users other than the sender
    Texts,         \* contents of messages, media and mentions included
    None,          \* no origin
    Requests,      \* what the client asks for: kind, key, convs, what (a text
                   \* to send, an origin to forward)
    Process,       \* requests under way at the same time
    MaxRequests,   \* bound on requests and repeats
    MaxChanges     \* bound on changes of members, blocks and sources

ASSUME CommandsAssumption ==
    /\ Direct \subseteq Convs /\ MaxRequests \in Nat /\ MaxChanges \in Nat
    /\ \A r \in Requests :
        /\ r.convs \in SUBSET Convs /\ IsFiniteSet(r.convs)
        /\ \/ r.kind = "send" /\ r.what \in Texts /\ \E c \in Convs : r.convs = {c}
           \/ r.kind = "forward" /\ r.what # None

VARIABLES
    messages,      \* the stored messages: key, hash, conversation, recipients
    members,       \* of each conversation, without the sender
    inside,        \* the conversations the sender is a member of
    blocked,       \* a block between the sender and the partner of a direct one
    source,        \* of each origin: its text, and whether the sender may see it
    req,           \* what each process is doing
    emitted,       \* how often each message was sent to the rooms
    answers,       \* what clients were told
    requests, changes

vars == <<messages, members, inside, blocked, source, req, emitted, answers, requests, changes>>
env == <<members, inside, blocked, source, changes>>

Sources == {r.what : r \in {r \in Requests : r.kind = "forward"}}
Id == DOMAIN messages

Idle == [phase |-> "idle"]

Init ==
    /\ messages = <<>> /\ emitted = <<>> /\ answers = {}
    /\ members \in [Convs -> SUBSET Others]
    /\ \A c \in Convs : IF c \in Direct THEN Cardinality(members[c]) = 1 ELSE members[c] = Others
    /\ inside = Convs /\ blocked = {}
    /\ source \in [Sources -> [text: Texts, visible: {TRUE}]]
    /\ req = [p \in Process |-> Idle]
    /\ requests = 0 /\ changes = 0

-----------------------------------------------------------------------------
(* Keys and identities.                                                    *)

\* A forward derives a key for each of its conversations.
Key(r, c) == IF r.kind = "send" THEN <<r.key>> ELSE <<r.key, c>>

\* createClientPayloadHash, over what the message would be and its origin.
Hash(r, c) ==
    [conv |-> c, text |-> IF r.kind = "send" THEN r.what ELSE source[r.what].text,
     origin |-> IF r.kind = "send" THEN None ELSE r.what]

Find(key) == {i \in Id : messages[i].key = key}
Stored(r) == UNION {Find(Key(r, c)) : c \in r.convs}

\* Mutant: whatever has the key is the message.
AnyIdentity(r, c, i) == TRUE

\* assertMessageIdentity in loadExistingResult, which has no origin.
Identity(r, c, i) == messages[i].hash = [Hash(r, c) EXCEPT !.origin = None]

\* The check a forward makes before it.
ForwardIdentity(r, c, i) == r.kind = "forward" => messages[i].hash = Hash(r, c)

Same(r) ==
    \A c \in r.convs : \A i \in Find(Key(r, c)) : ForwardIdentity(r, c, i) /\ Identity(r, c, i)

\* resolveConversation with assertDirectAllowed.
MayWrite(c) == c \in inside /\ c \notin blocked

Visible(r) == r.kind = "forward" => source[r.what].visible

-----------------------------------------------------------------------------
(* Changes of what the commands read.                                      *)

\* A committed write to a document spoils the transactions that write it too.
Spoil(docs) ==
    [p \in Process |-> IF req[p].phase = "open" /\ req[p].docs \cap docs # {}
                      THEN [req[p] EXCEPT !.phase = "spoiled"] ELSE req[p]]

Change ==
    /\ changes < MaxChanges /\ changes' = changes + 1
    /\ UNCHANGED <<messages, emitted, answers, requests>>

\* addGroupMembers and removeGroupMember, of another user.
ChangeMember(c, u) ==
    /\ c \notin Direct /\ Change
    /\ members' = [members EXCEPT ![c] = IF u \in @ THEN @ \ {u} ELSE @ \cup {u}]
    /\ req' = Spoil({<<"conv", c>>})
    /\ UNCHANGED <<inside, blocked, source>>

\* removeGroupMember, of the sender.
Expel(c) ==
    /\ c \in inside \ Direct /\ Change
    /\ inside' = inside \ {c}
    /\ req' = Spoil({<<"conv", c>>})
    /\ UNCHANGED <<members, blocked, source>>

\* blockUser and unblockUser write userBlocks, which a command only reads.
ToggleBlock(c) ==
    /\ c \in Direct /\ Change
    /\ blocked' = IF c \in blocked THEN blocked \ {c} ELSE blocked \cup {c}
    /\ UNCHANGED <<members, inside, source, req>>

\* editMessage of the origin by its author.
EditSource(o, t) ==
    /\ source[o].text # t /\ Change
    /\ source' = [source EXCEPT ![o].text = t]
    /\ UNCHANGED <<members, inside, blocked, req>>

\* revokeMessage of the origin, or its deletion by the sender.
HideSource(o) ==
    /\ source[o].visible /\ Change
    /\ source' = [source EXCEPT ![o].visible = FALSE]
    /\ UNCHANGED <<members, inside, blocked, req>>

-----------------------------------------------------------------------------
(* One request.                                                            *)

Become(p, r) == req' = [req EXCEPT ![p] = r]

\* A send or a forward comes in; a send looks for its key before the transaction.
Ask(p, r) ==
    /\ req[p] = Idle /\ requests < MaxRequests
    /\ requests' = requests + 1
    /\ Become(p, [phase |-> IF r.kind = "send" THEN "check" ELSE "begin", of |-> r])
    /\ UNCHANGED <<messages, emitted, answers, env>>

Refuse(p, why) ==
    /\ answers' = answers \cup {[to |-> req[p].of, ok |-> FALSE, ids |-> {}, why |-> why]}
    /\ Become(p, Idle)
    /\ UNCHANGED <<messages, emitted, requests, env>>

\* The result is on its way to the delivery: the messages it names, and those it created.
Result(p, ids, created) ==
    /\ Become(p, [phase |-> "deliver", of |-> req[p].of, ids |-> ids, created |-> created])

\* loadExistingResult, of every message of the request.
Load(p) ==
    LET r == req[p].of IN
    \/ ~Same(r) /\ Refuse(p, "conflict")
    \/ /\ Same(r) /\ Result(p, Stored(r), {})
       /\ UNCHANGED <<messages, emitted, answers, requests, env>>

\* findByClientMessageId before the transaction.
Check(p) ==
    /\ req[p].phase = "check"
    /\ IF Stored(req[p].of) # {} THEN Load(p)
       ELSE /\ Become(p, [req[p] EXCEPT !.phase = "begin"])
            /\ UNCHANGED <<messages, emitted, answers, requests, env>>

Missing(r) == {c \in r.convs : Find(Key(r, c)) = {}}

\* Mutant: the conversations are left alone.
IndexOnly(r) == {<<"key", Key(r, c)>> : c \in Missing(r)}

\* The documents persistPrepared writes: each conversation, with its members
\* and preview, and the entries of the unique index of the keys.
Documents(r) == UNION {{<<"conv", c>>, <<"key", Key(r, c)>>} : c \in Missing(r)}

\* The transaction of send or forward up to its writes: it answers from what
\* is stored, refuses, or prepares the messages that are missing.
Begin(p) ==
    LET r == req[p].of
        denied == ~Visible(r) \/ (r.kind = "forward" /\ ~r.convs \subseteq inside)
                    \/ \E c \in Missing(r) : ~MayWrite(c) IN
    /\ req[p].phase = "begin"
    /\ \/ denied /\ (r.kind = "send" => Missing(r) # {}) /\ Refuse(p, "denied")
       \/ ~Same(r) /\ Refuse(p, "conflict")
       \/ ~denied /\ Missing(r) = {} /\ Load(p)
       \/ /\ ~denied /\ Same(r) /\ Missing(r) # {}
          /\ Become(p, [phase |-> "open", of |-> r, docs |-> Documents(r),
                        new |-> [c \in Missing(r) |->
                                    [key |-> Key(r, c), hash |-> Hash(r, c), to |-> members[c]]]])
          /\ UNCHANGED <<messages, emitted, answers, requests, env>>

\* insertMany with the previews, events and counts of the messages.
Commit(p) ==
    LET order == SetToSeq(DOMAIN req[p].new)
        created == Len(messages) + 1..Len(messages) + Len(order) IN
    /\ req[p].phase = "open"
    /\ messages' = messages \o [i \in 1..Len(order) |-> req[p].new[order[i]]]
    /\ emitted' = emitted \o [i \in 1..Len(order) |-> 0]
    /\ req' = [Spoil(req[p].docs) EXCEPT
                ![p] = [phase |-> "deliver", of |-> req[p].of,
                        ids |-> Stored(req[p].of) \cup created, created |-> created]]
    /\ UNCHANGED <<answers, requests, env>>

\* The server runs the callback of a spoiled transaction again, or has seen
\* that another message has the key (error 11000) and the request looks it up.
Again(p) ==
    /\ req[p].phase = "spoiled"
    /\ \/ Become(p, [phase |-> "begin", of |-> req[p].of])
       \/ /\ \E c \in DOMAIN req[p].new : Find(req[p].new[c].key) # {}
          /\ Become(p, [phase |-> "duplicate", of |-> req[p].of])
    /\ UNCHANGED <<messages, emitted, answers, requests, env>>

\* The answer to error 11000; loadExistingForwardResults ends in
\* loadExistingResult as well, and needs every target.
Duplicate(p) ==
    /\ req[p].phase = "duplicate"
    /\ IF Missing(req[p].of) = {} THEN Load(p) ELSE Refuse(p, "error")

\* Mutant: a message that was there already is emitted as well.
DeliverAll(p) ==
    /\ req[p].phase = "deliver"
    /\ emitted' = [i \in Id |-> emitted[i] + IF i \in req[p].ids THEN 1 ELSE 0]
    /\ Become(p, [req[p] EXCEPT !.phase = "ack"])
    /\ UNCHANGED <<messages, answers, requests, env>>

\* deliver: only what this request created is emitted.
Deliver(p) ==
    /\ req[p].phase = "deliver"
    /\ emitted' = [i \in Id |-> emitted[i] + IF i \in req[p].created THEN 1 ELSE 0]
    /\ Become(p, [req[p] EXCEPT !.phase = "ack"])
    /\ UNCHANGED <<messages, answers, requests, env>>

Acknowledge(p) ==
    /\ req[p].phase = "ack"
    /\ answers' = answers \cup {[to |-> req[p].of, ok |-> TRUE, ids |-> req[p].ids, why |-> "ok"]}
    /\ Become(p, Idle)
    /\ UNCHANGED <<messages, emitted, requests, env>>

\* The server dies, or loses its connections: the client hears nothing.
Crash(p) ==
    /\ req[p] # Idle
    /\ Become(p, Idle)
    /\ UNCHANGED <<messages, emitted, answers, requests, env>>

-----------------------------------------------------------------------------
Next ==
    \/ \E c \in Convs : Expel(c) \/ ToggleBlock(c) \/ \E u \in Others : ChangeMember(c, u)
    \/ \E o \in Sources : HideSource(o) \/ \E t \in Texts : EditSource(o, t)
    \/ \E p \in Process : \/ \E r \in Requests : Ask(p, r)
                         \/ Check(p) \/ Begin(p) \/ Commit(p) \/ Again(p) \/ Duplicate(p)
                         \/ Deliver(p) \/ Acknowledge(p) \/ Crash(p)

Spec == Init /\ [][Next]_vars

-----------------------------------------------------------------------------
(* Properties.                                                             *)

Demanded(r) ==
    {[key |-> Key(r, c), what |-> <<c, r.what>>] : c \in r.convs}
StoredAs(i) ==
    LET h == messages[i].hash IN
    [key |-> messages[i].key, what |-> <<h.conv, IF h.origin = None THEN h.text ELSE h.origin>>, id |-> i]

writtenBar == {StoredAs(i) : i \in Id}
toldBar == {[to |-> a.to, ids |-> a.ids] : a \in {a \in answers : a.ok}}

Promise == INSTANCE IdempotentWrites WITH
    Request <- Requests, Demand <- Demanded, written <- writtenBar, told <- toldBar

\* A request is stored once, all of its conversations in one step, through
\* repeats, overlaps and crashes.  Whoever is told of messages (the first time,
\* and on the repeat of a send; the repeat of a forward is refused, see
\* ForwardRepeatAnswered) is told of those it stored: never of a second one,
\* of part of a forward or of a message of another request under the same key.
WritesOnce == Promise!Spec

\* A message is emitted at most once, also when a repeat of its request
\* finds it between its commit and its emission.
EmittedOnce == \A i \in Id : emitted[i] <= 1

\* Members come and go while a transaction is open: a message is counted for
\* exactly those who are members when it commits, and its sender is one.
CountedForMembers ==
    [][\A i \in DOMAIN messages' \ Id :
        LET m == messages'[i] IN m.hash.conv \in inside /\ m.to = members[m.hash.conv]]_vars

\* Stated by the interface, and not so (see the README): the repeat of a
\* forward that was done is answered like the first time, not as a conflict.
ForwardRepeatAnswered ==
    [][\A a \in answers' \ answers :
        a.to.kind = "forward" /\ a.why = "conflict"
            => ~(Demanded(a.to) \subseteq {[key |-> StoredAs(i).key, what |-> StoredAs(i).what] : i \in Id})]_vars

=============================================================================
