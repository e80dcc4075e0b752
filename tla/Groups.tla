------------------------------- MODULE Groups -------------------------------
(***************************************************************************)
(* Who is in a group and who administers it (ConversationService).  Every  *)
(* operation checks the access of its caller first and then changes the    *)
(* group in a transaction that writes its document, under a filter, with   *)
(* a system message that says what changed.  Between the two others may    *)
(* do the same, so that the filter, not the check, has to keep the group   *)
(* in order.  All these transactions write the one document, so that each  *)
(* takes one step here.                                                    *)
(***************************************************************************)
EXTENDS Naturals, Sequences, FiniteSets, SequencesExt

CONSTANTS
    Users,         \* members and others who may be added
    Process,       \* requests under way at the same time
    MaxMembers,    \* envConfig.conversation.maxGroupMembers
    MaxChanges     \* bound on changes of the group

ASSUME GroupsAssumption ==
    MaxMembers \in Nat /\ MaxChanges \in Nat /\ IsFiniteSet(Users)

Roles == {"admin", "member"}
Kinds == {"add", "leave", "kick", "transfer", "grant", "revoke"}
Some == {s \in SUBSET Users : Cardinality(s) \in 1..2}
Request == [kind: Kinds, by: Users, users: Some, guarded: BOOLEAN]

VARIABLES
    role,         \* the members and their roles
    start,        \* the same as the group was created
    req,          \* the requests that have passed their checks
    log,          \* the system messages
    surprised     \* someone left as admin who was none when he asked

vars == <<role, start, req, log, surprised>>

Members == DOMAIN role
AdminsOf(r) == {u \in DOMAIN r : r[u] = "admin"}
Admins == AdminsOf(role)
Plain(u) == u \in Members \ Admins

Idle == [kind |-> "idle"]

TypeOK ==
    /\ Members \subseteq Users /\ role \in [Members -> Roles]
    /\ req \in [Process -> Request \cup {Idle}]
    /\ log \in Seq([kind: Kinds, by: Users, users: Some])
    /\ surprised \in BOOLEAN

\* createGroupConversation: three or more, one of them admin.
Created(members, creator) == [u \in members |-> IF u = creator THEN "admin" ELSE "member"]

Init ==
    /\ \E m \in SUBSET Users : \E c \in m :
        Cardinality(m) \in 3..MaxMembers /\ role = Created(m, c)
    /\ start = role
    /\ req = [p \in Process |-> Idle]
    /\ log = <<>> /\ surprised = FALSE

-----------------------------------------------------------------------------
(* The checks before the transaction.                                      *)

\* assertConversationMember, assertGroupAdmin and what each operation adds.
Access(r) ==
    /\ r.by \in Members
    /\ r.kind = "add" => Cardinality(Members \cup r.users) <= MaxMembers
    /\ r.kind = "leave" => r.users = {r.by} /\ (Admins = {r.by} => Members = {r.by})
    /\ r.kind = "kick" => r.by \in Admins /\ r.users \subseteq Members \ {r.by}
    /\ r.kind = "transfer" => Admins = {r.by} /\ \A u \in r.users : Plain(u)
    /\ r.kind \in {"grant", "revoke"} => r.by \in Admins

Ask(p, kind, by, users) ==
    LET r == [kind |-> kind, by |-> by, users |-> users,
              guarded |-> kind = "leave" /\ by \in Admins] IN
    /\ req[p] = Idle /\ Access(r)
    /\ kind # "add" => Cardinality(users) = 1
    /\ req' = [req EXCEPT ![p] = r]
    /\ UNCHANGED <<role, start, log, surprised>>

-----------------------------------------------------------------------------
(* The transactions.                                                       *)

Done(p) == req' = [req EXCEPT ![p] = Idle]

\* The change with its system message (createGroupActivityInTransaction).
Change(p, new, users) ==
    LET r == req[p] IN
    /\ Len(log) < MaxChanges
    /\ role' = new
    /\ log' = Append(log, [kind |-> r.kind, by |-> r.by, users |-> users])
    /\ Done(p) /\ UNCHANGED start

\* The filter matches nothing any more: answered with a conflict.
Conflict(p) == Done(p) /\ UNCHANGED <<role, start, log, surprised>>

Without(gone) == [u \in Members \ gone |-> role[u]]
With(users, as) == [u \in Members \cup users |-> IF u \in users THEN as ELSE role[u]]

\* Mutant: the limit is checked before the transaction only.
AddUnlimited(p) ==
    LET r == req[p] new == r.users \ Members IN
    /\ r.kind = "add"
    /\ \/ /\ r.by \in Members /\ new # {}
          /\ Change(p, With(new, "member"), new) /\ UNCHANGED surprised
       \/ (r.by \notin Members \/ new = {}) /\ Conflict(p)

\* Mutant: the message names all who were asked for.
AddAsked(p) ==
    LET r == req[p] new == r.users \ Members
        fits == r.by \in Members /\ Cardinality(Members \cup r.users) <= MaxMembers IN
    /\ r.kind = "add"
    /\ \/ fits /\ new # {} /\ Change(p, With(new, "member"), r.users) /\ UNCHANGED surprised
       \/ (~fits \/ new = {}) /\ Conflict(p)

\* addGroupMembers; nothing is said when all are members already.
Add(p) ==
    LET r == req[p] new == r.users \ Members
        fits == r.by \in Members /\ Cardinality(Members \cup r.users) <= MaxMembers IN
    /\ r.kind = "add"
    /\ \/ fits /\ new # {} /\ Change(p, With(new, "member"), new) /\ UNCHANGED surprised
       \/ (~fits \/ new = {}) /\ Conflict(p)

\* leaveGroup, with adminLeaveGuard as of the check.
Leave(p) ==
    LET r == req[p]
        matches == /\ r.by \in Members
                   /\ r.guarded => Members = {r.by} \/ Admins \ {r.by} # {} IN
    /\ r.kind = "leave"
    /\ \/ /\ matches /\ Change(p, Without({r.by}), {r.by})
          /\ surprised' = (surprised \/ (~r.guarded /\ r.by \in Admins))
       \/ ~matches /\ Conflict(p)

\* Mutant: the caller's role is left to the check.
KickUnfiltered(p) ==
    LET r == req[p] matches == r.users \subseteq Members IN
    /\ r.kind = "kick"
    /\ \/ matches /\ Change(p, Without(r.users), r.users) /\ UNCHANGED surprised
       \/ ~matches /\ Conflict(p)

\* removeGroupMember, also of another admin.
Kick(p) ==
    LET r == req[p] matches == r.by \in Admins /\ r.users \subseteq Members IN
    /\ r.kind = "kick"
    /\ \/ matches /\ Change(p, Without(r.users), r.users) /\ UNCHANGED surprised
       \/ ~matches /\ Conflict(p)

\* transferAdminAndLeave.
Transfer(p) ==
    LET r == req[p] matches == Admins = {r.by} /\ \A u \in r.users : Plain(u) IN
    /\ r.kind = "transfer"
    /\ \/ /\ matches
          /\ Change(p, [u \in Members \ {r.by} |-> IF u \in r.users THEN "admin" ELSE role[u]], r.users)
          /\ UNCHANGED surprised
       \/ ~matches /\ Conflict(p)

\* grantGroupAdmin.
Grant(p) ==
    LET r == req[p] matches == r.by \in Admins /\ \A u \in r.users : Plain(u) IN
    /\ r.kind = "grant"
    /\ \/ matches /\ Change(p, With(r.users, "admin"), r.users) /\ UNCHANGED surprised
       \/ ~matches /\ Conflict(p)

\* Mutant: the last admin may be revoked.
RevokeLast(p) ==
    LET r == req[p] matches == r.by \in Admins /\ r.users \subseteq Admins IN
    /\ r.kind = "revoke"
    /\ \/ matches /\ Change(p, With(r.users, "member"), r.users) /\ UNCHANGED surprised
       \/ ~matches /\ Conflict(p)

\* revokeGroupAdmin, also of oneself.
Revoke(p) ==
    LET r == req[p]
        matches == r.by \in Admins /\ r.users \subseteq Admins /\ Cardinality(Admins) > 1 IN
    /\ r.kind = "revoke"
    /\ \/ matches /\ Change(p, With(r.users, "member"), r.users) /\ UNCHANGED surprised
       \/ ~matches /\ Conflict(p)

-----------------------------------------------------------------------------
Next ==
    \E p \in Process :
        \/ \E kind \in Kinds, by \in Users, users \in Some : Ask(p, kind, by, users)
        \/ Add(p) \/ Leave(p) \/ Kick(p) \/ Transfer(p) \/ Grant(p) \/ Revoke(p)

Spec == Init /\ [][Next]_vars

-----------------------------------------------------------------------------
(* Properties.                                                             *)

\* As long as a group has members it has an admin, through all overlaps of
\* leaving, removing, granting, revoking and handing over, unless someone was
\* made admin between asking to leave and leaving.
HasAdmin == Members # {} => Admins # {} \/ surprised

\* Two who add members at the same time do not exceed the limit together.
WithinLimit == Cardinality(Members) <= MaxMembers

\* Whoever loses membership or a role, or is given one, got it from himself,
\* or from one who is an admin at that moment and not only when he asked.
ByAdminOnly ==
    [][\A u \in Users : (u \in Members /\ (u \notin DOMAIN role' \/ role'[u] # role[u])) =>
        \E p \in Process : req[p] # Idle /\ req'[p] = Idle /\ (req[p].by = u \/ req[p].by \in Admins)]_vars

\* What one system message does to the group.
Told(r, m) ==
    CASE m.kind = "add" -> [u \in DOMAIN r \cup m.users |-> IF u \in m.users THEN "member" ELSE r[u]]
      [] m.kind \in {"leave", "kick"} -> [u \in DOMAIN r \ m.users |-> r[u]]
      [] m.kind = "transfer" -> [u \in DOMAIN r \ {m.by} |-> IF u \in m.users THEN "admin" ELSE r[u]]
      [] OTHER -> [u \in DOMAIN r |-> IF u \in m.users THEN (IF m.kind = "grant" THEN "admin" ELSE "member")
                                      ELSE r[u]]

\* The system messages tell the whole story: from the group as it was created
\* they lead to the group as it is.
StoryComplete == FoldLeft(Told, start, log) = role

\* Stated by the interface, and not so (see the README): the only admin does
\* not leave while there are other members.
NeverWithoutAdmin == Members # {} => Admins # {}

=============================================================================
