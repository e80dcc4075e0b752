---------------------------- MODULE GroupsProofs ----------------------------
(***************************************************************************)
(* Groups keep their limit, an admin, and changes in the hands of admins,  *)
(* for any users, requests and limit, and the messages tell all changes.   *)
(***************************************************************************)
EXTENDS Groups, FiniteSetTheorems, WellFoundedInduction, TLAPS

USE DEF Members, Admins, AdminsOf, Idle

\* What the checks leave behind in a request under way, whatever others have
\* done to the group since.
Checked == \A p \in Process : req[p] # Idle =>
    /\ req[p].kind # "add" => Cardinality(req[p].users) = 1
    /\ req[p].kind = "kick" => req[p].by \notin req[p].users

\* The inductive invariant.
IInv == TypeOK /\ Checked /\ HasAdmin /\ WithinLimit

-----------------------------------------------------------------------------
(* Small facts.                                                            *)

LEMMA SomeFacts == \A s \in Some : s \subseteq Users /\ IsFiniteSet(s) /\ s # {}
<1> SUFFICES ASSUME NEW s \in Some PROVE s \subseteq Users /\ IsFiniteSet(s) /\ s # {}
  OBVIOUS
<1>1. s \in SUBSET Users /\ Cardinality(s) \in 1..2
  BY DEF Some
<1>2. IsFiniteSet(s)
  BY <1>1, FS_Subset, GroupsAssumption
<1>3. s # {}
  BY <1>1, FS_EmptySet
<1> QED
  BY <1>1, <1>2, <1>3

\* Less than some, but not nothing.
LEMMA SomeOf == \A s \in Some : \A n \in SUBSET s : n # {} => n \in Some
<1> SUFFICES ASSUME NEW s \in Some, NEW n \in SUBSET s, n # {} PROVE n \in Some
  OBVIOUS
<1>1. s \subseteq Users /\ IsFiniteSet(s) /\ Cardinality(s) \in 1..2
  BY SomeFacts DEF Some
<1>2. IsFiniteSet(n) /\ Cardinality(n) <= Cardinality(s)
  BY <1>1, FS_Subset
<1>3. Cardinality(n) \in Nat /\ Cardinality(n) # 0
  BY <1>2, FS_CardinalityType, FS_EmptySet
<1> QED
  BY <1>1, <1>2, <1>3 DEF Some

LEMMA OneOf == \A u \in Users : {u} \in Some
<1> SUFFICES ASSUME NEW u \in Users PROVE {u} \in Some
  OBVIOUS
<1>1. Cardinality({u}) = 1
  BY FS_Singleton
<1> QED
  BY <1>1 DEF Some

\* Groups that lose members, or none, keep within the limit.
LEMMA SmallerWithin ==
  ASSUME TypeOK, WithinLimit, NEW m \in SUBSET Members
  PROVE  Cardinality(m) <= MaxMembers
<1>1. IsFiniteSet(Members)
  BY FS_Subset, GroupsAssumption DEF TypeOK
<1>2. Cardinality(m) <= Cardinality(Members) /\ IsFiniteSet(m)
  BY <1>1, FS_Subset
<1>3. Cardinality(m) \in Nat /\ Cardinality(Members) \in Nat
  BY <1>1, <1>2, FS_CardinalityType
<1> QED
  BY <1>2, <1>3, GroupsAssumption DEF WithinLimit

LEMMA RequestOf ==
  ASSUME TypeOK, NEW p \in Process, req[p].kind \in Kinds
  PROVE  req[p] \in Request
  BY DEF TypeOK, Kinds

-----------------------------------------------------------------------------
(* The steps.                                                              *)

LEMMA InitInv == Init => IInv
<1> SUFFICES ASSUME Init PROVE IInv
  OBVIOUS
<1>0. PICK m \in SUBSET Users :
        \E c \in m : Cardinality(m) \in 3..MaxMembers /\ role = Created(m, c)
  BY DEF Init
<1>1. PICK c \in m : Cardinality(m) \in 3..MaxMembers /\ role = Created(m, c)
  BY <1>0
<1>2. Members = m /\ role \in [m -> Roles] /\ c \in Admins
  BY <1>1 DEF Created, Roles
<1>3. TypeOK
  <2>1. Members \subseteq Users /\ role \in [Members -> Roles]
    BY <1>2
  <2>2. req \in [Process -> Request \cup {Idle}] /\ log = <<>> /\ surprised \in BOOLEAN
    BY DEF Init
  <2> QED
    BY <2>1, <2>2 DEF TypeOK
<1>4. Checked
  BY DEF Init, Checked
<1>5. HasAdmin /\ WithinLimit
  BY <1>1, <1>2, GroupsAssumption DEF HasAdmin, WithinLimit
<1> QED
  BY <1>3, <1>4, <1>5 DEF IInv

LEMMA AskStep ==
  ASSUME IInv, NEW p \in Process, NEW kind \in Kinds, NEW by \in Users, NEW users \in Some,
         Ask(p, kind, by, users)
  PROVE  IInv'
<1> DEFINE r == [kind |-> kind, by |-> by, users |-> users, guarded |-> kind = "leave" /\ by \in Admins]
<1>1. /\ req' = [req EXCEPT ![p] = r] /\ Access(r) /\ (kind # "add" => Cardinality(users) = 1)
      /\ UNCHANGED <<role, start, log, surprised>>
  BY DEF Ask
<1>2. r \in Request
  BY DEF Request
<1>3. TypeOK'
  BY <1>1, <1>2 DEF IInv, TypeOK
<1>4. kind = "kick" => by \notin users
  BY <1>1 DEF Access
<1>5. Checked'
  BY <1>1, <1>4 DEF IInv, Checked, TypeOK
<1>6. HasAdmin' /\ WithinLimit'
  BY <1>1 DEF IInv, HasAdmin, WithinLimit
<1> QED
  BY <1>3, <1>5, <1>6 DEF IInv

LEMMA ConflictStep ==
  ASSUME IInv, NEW p \in Process, Conflict(p)
  PROVE  IInv'
<1>1. req' = [req EXCEPT ![p] = Idle] /\ UNCHANGED <<role, start, log, surprised>>
  BY DEF Conflict, Done
<1>2. TypeOK'
  BY <1>1 DEF IInv, TypeOK
<1>3. Checked'
  BY <1>1 DEF IInv, Checked, TypeOK
<1>4. HasAdmin' /\ WithinLimit'
  BY <1>1 DEF IInv, HasAdmin, WithinLimit
<1> QED
  BY <1>2, <1>3, <1>4 DEF IInv

\* A change is in order if the group it makes is.
LEMMA ChangeStep ==
  ASSUME IInv, NEW p \in Process, req[p] \in Request, NEW new, NEW users \in Some,
         Change(p, new, users), surprised' \in BOOLEAN,
         DOMAIN new \subseteq Users, new \in [DOMAIN new -> Roles],
         Cardinality(DOMAIN new) <= MaxMembers,
         DOMAIN new # {} => AdminsOf(new) # {} \/ surprised'
  PROVE  IInv'
<1>1. /\ role' = new /\ req' = [req EXCEPT ![p] = Idle]
      /\ log' = Append(log, [kind |-> req[p].kind, by |-> req[p].by, users |-> users])
  BY DEF Change, Done
<1>2. [kind |-> req[p].kind, by |-> req[p].by, users |-> users] \in [kind: Kinds, by: Users, users: Some]
  BY DEF Request
<1>3. log' \in Seq([kind: Kinds, by: Users, users: Some])
  BY <1>1, <1>2 DEF IInv, TypeOK
<1>4. TypeOK'
  BY <1>1, <1>3 DEF IInv, TypeOK
<1>5. Checked'
  BY <1>1 DEF IInv, Checked, TypeOK
<1>6. HasAdmin' /\ WithinLimit'
  BY <1>1 DEF HasAdmin, WithinLimit
<1> QED
  BY <1>4, <1>5, <1>6 DEF IInv

LEMMA AddInv ==
  ASSUME IInv, NEW p \in Process, Add(p)
  PROVE  IInv'
<1> DEFINE r == req[p]
           new == r.users \ Members
           group == With(new, "member")
<1>1. r \in Request
  BY RequestOf DEF IInv, Add, Kinds
<1>2. CASE Conflict(p)
  BY <1>2, ConflictStep
<1>3. CASE /\ r.by \in Members /\ Cardinality(Members \cup r.users) <= MaxMembers /\ new # {}
           /\ Change(p, group, new) /\ UNCHANGED surprised
  <2>1. new \in Some /\ r.users \subseteq Users
    BY <1>1, <1>3, SomeOf, SomeFacts DEF Request
  <2>2. DOMAIN group = Members \cup r.users /\ group \in [DOMAIN group -> Roles]
    BY DEF With, IInv, TypeOK, Roles
  <2>3. DOMAIN group \subseteq Users /\ Cardinality(DOMAIN group) <= MaxMembers
    BY <1>3, <2>1, <2>2 DEF IInv, TypeOK
  <2>4. \A u \in Admins : u \in AdminsOf(group)
    BY DEF With
  <2>5. AdminsOf(group) # {} \/ surprised'
    BY <1>3, <2>4 DEF IInv, HasAdmin
  <2>6. surprised' \in BOOLEAN
    BY <1>3 DEF IInv, TypeOK
  <2> HIDE DEF group, new
  <2> QED
    BY <1>1, <1>3, <2>1, <2>2, <2>3, <2>5, <2>6, ChangeStep
<1> QED
  BY <1>2, <1>3 DEF Add

\* Whoever leaves as an admin has another one behind him, and one who is none
\* leaves the admins where they are.
LEMMA LeaveInv ==
  ASSUME IInv, NEW p \in Process, Leave(p)
  PROVE  IInv'
<1> DEFINE r == req[p]
           group == Without({r.by})
<1>1. r \in Request
  BY RequestOf DEF IInv, Leave, Kinds
<1>2. CASE Conflict(p)
  BY <1>2, ConflictStep
<1>3. CASE /\ r.by \in Members
           /\ r.guarded => Members = {r.by} \/ Admins \ {r.by} # {}
           /\ Change(p, group, {r.by})
           /\ surprised' = (surprised \/ (~r.guarded /\ r.by \in Admins))
  <2>1. {r.by} \in Some
    BY <1>1, OneOf DEF Request
  <2>2. DOMAIN group = Members \ {r.by} /\ group \in [DOMAIN group -> Roles]
    BY DEF Without, IInv, TypeOK
  <2>3. DOMAIN group \subseteq Users /\ Cardinality(DOMAIN group) <= MaxMembers
    <3>1. DOMAIN group \in SUBSET Members
      BY <2>2
    <3> QED
      BY <3>1, SmallerWithin DEF IInv, TypeOK
  <2>4. \A u \in Admins \ {r.by} : u \in AdminsOf(group)
    BY DEF Without
  <2>5. surprised' \in BOOLEAN
    BY <1>1, <1>3 DEF IInv, TypeOK, Request
  <2>6. DOMAIN group # {} => AdminsOf(group) # {} \/ surprised'
    BY <1>1, <1>3, <2>2, <2>4 DEF IInv, HasAdmin, Request
  <2> HIDE DEF group
  <2> QED
    BY <1>1, <1>3, <2>1, <2>2, <2>3, <2>5, <2>6, ChangeStep
<1> QED
  BY <1>2, <1>3 DEF Leave

\* The one who removes others stays, as admin.
LEMMA KickInv ==
  ASSUME IInv, NEW p \in Process, Kick(p)
  PROVE  IInv'
<1> DEFINE r == req[p]
           group == Without(r.users)
<1>1. r \in Request /\ r.by \notin r.users
  BY RequestOf DEF IInv, Kick, Kinds, Checked
<1>2. CASE Conflict(p)
  BY <1>2, ConflictStep
<1>3. CASE r.by \in Admins /\ Change(p, group, r.users) /\ UNCHANGED surprised
  <2>1. r.users \in Some
    BY <1>1 DEF Request
  <2>2. DOMAIN group = Members \ r.users /\ group \in [DOMAIN group -> Roles]
    BY DEF Without, IInv, TypeOK
  <2>3. DOMAIN group \subseteq Users /\ Cardinality(DOMAIN group) <= MaxMembers
    <3>1. DOMAIN group \in SUBSET Members
      BY <2>2
    <3> QED
      BY <3>1, SmallerWithin DEF IInv, TypeOK
  <2>4. r.by \in AdminsOf(group)
    BY <1>1, <1>3 DEF Without
  <2>5. surprised' \in BOOLEAN
    BY <1>3 DEF IInv, TypeOK
  <2> HIDE DEF group
  <2> QED
    BY <1>1, <1>3, <2>1, <2>2, <2>3, <2>4, <2>5, ChangeStep
<1> QED
  BY <1>2, <1>3 DEF Kick

\* The successor is a member, and not the one who leaves.
LEMMA TransferInv ==
  ASSUME IInv, NEW p \in Process, Transfer(p)
  PROVE  IInv'
<1> DEFINE r == req[p]
           group == [u \in Members \ {r.by} |-> IF u \in r.users THEN "admin" ELSE role[u]]
<1>1. r \in Request
  BY RequestOf DEF IInv, Transfer, Kinds
<1>2. CASE Conflict(p)
  BY <1>2, ConflictStep
<1>3. CASE /\ Admins = {r.by} /\ \A u \in r.users : Plain(u)
           /\ Change(p, group, r.users) /\ UNCHANGED surprised
  <2>1. r.users \in Some /\ r.users # {}
    BY <1>1, SomeFacts DEF Request
  <2>2. DOMAIN group = Members \ {r.by} /\ group \in [DOMAIN group -> Roles]
    BY DEF IInv, TypeOK, Roles
  <2>3. DOMAIN group \subseteq Users /\ Cardinality(DOMAIN group) <= MaxMembers
    <3>1. DOMAIN group \in SUBSET Members
      BY <2>2
    <3> QED
      BY <3>1, SmallerWithin DEF IInv, TypeOK
  <2>4. r.users \subseteq Members \ {r.by}
    BY <1>3 DEF Plain
  <2>5. \A u \in r.users : u \in AdminsOf(group)
    BY <2>4
  <2>6. surprised' \in BOOLEAN
    BY <1>3 DEF IInv, TypeOK
  <2> HIDE DEF group
  <2> QED
    BY <1>1, <1>3, <2>1, <2>2, <2>3, <2>5, <2>6, ChangeStep
<1> QED
  BY <1>2, <1>3 DEF Transfer

\* A new role leaves the members as they are.
LEMMA WithMembers ==
  ASSUME IInv, NEW users \in SUBSET Members, NEW as \in Roles
  PROVE  LET group == With(users, as) IN
         /\ DOMAIN group = Members /\ group \in [DOMAIN group -> Roles]
         /\ DOMAIN group \subseteq Users /\ Cardinality(DOMAIN group) <= MaxMembers
<1>1. DOMAIN With(users, as) = Members /\ With(users, as) \in [DOMAIN With(users, as) -> Roles]
  BY DEF With, IInv, TypeOK
<1> QED
  BY <1>1 DEF IInv, TypeOK, WithinLimit

LEMMA GrantInv ==
  ASSUME IInv, NEW p \in Process, Grant(p)
  PROVE  IInv'
<1> DEFINE r == req[p]
           group == With(r.users, "admin")
<1>1. r \in Request
  BY RequestOf DEF IInv, Grant, Kinds
<1>2. CASE Conflict(p)
  BY <1>2, ConflictStep
<1>3. CASE /\ r.by \in Admins /\ \A u \in r.users : Plain(u)
           /\ Change(p, group, r.users) /\ UNCHANGED surprised
  <2>1. r.users \in Some /\ r.users \subseteq Members
    BY <1>1, <1>3 DEF Request, Plain
  <2>2. /\ group \in [DOMAIN group -> Roles]
        /\ DOMAIN group \subseteq Users /\ Cardinality(DOMAIN group) <= MaxMembers
    BY <2>1, WithMembers DEF Roles
  <2>3. r.by \in AdminsOf(group)
    BY <1>3 DEF With
  <2>4. surprised' \in BOOLEAN
    BY <1>3 DEF IInv, TypeOK
  <2> HIDE DEF group
  <2> QED
    BY <1>1, <1>3, <2>1, <2>2, <2>3, <2>4, ChangeStep
<1> QED
  BY <1>2, <1>3 DEF Grant

\* Of two admins or more, one loses the role.
LEMMA RevokeInv ==
  ASSUME IInv, NEW p \in Process, Revoke(p)
  PROVE  IInv'
<1> DEFINE r == req[p]
           group == With(r.users, "member")
<1>1. r \in Request /\ Cardinality(r.users) = 1
  BY RequestOf DEF IInv, Revoke, Kinds, Checked
<1>2. CASE Conflict(p)
  BY <1>2, ConflictStep
<1>3. CASE /\ r.users \subseteq Admins /\ Cardinality(Admins) > 1
           /\ Change(p, group, r.users) /\ UNCHANGED surprised
  <2>1. r.users \in Some /\ r.users \subseteq Members
    BY <1>1, <1>3 DEF Request
  <2>2. /\ group \in [DOMAIN group -> Roles]
        /\ DOMAIN group \subseteq Users /\ Cardinality(DOMAIN group) <= MaxMembers
    BY <2>1, WithMembers DEF Roles
  <2>3. PICK a \in Admins : a \notin r.users
    <3>1. r.users = Admins => FALSE
      BY <1>1, <1>3
    <3> QED
      BY <1>3, <3>1
  <2>4. a \in AdminsOf(group)
    BY <2>3 DEF With
  <2>5. surprised' \in BOOLEAN
    BY <1>3 DEF IInv, TypeOK
  <2> HIDE DEF group
  <2> QED
    BY <1>1, <1>3, <2>1, <2>2, <2>4, <2>5, ChangeStep
<1> QED
  BY <1>2, <1>3 DEF Revoke

LEMMA NextInv == IInv /\ [Next]_vars => IInv'
<1> SUFFICES ASSUME IInv, [Next]_vars PROVE IInv'
  OBVIOUS
<1>1. CASE UNCHANGED vars
  BY <1>1 DEF vars, IInv, TypeOK, Checked, HasAdmin, WithinLimit
<1>2. CASE Next
  <2>1. PICK p \in Process :
          \/ \E kind \in Kinds, by \in Users, users \in Some : Ask(p, kind, by, users)
          \/ Add(p) \/ Leave(p) \/ Kick(p) \/ Transfer(p) \/ Grant(p) \/ Revoke(p)
    BY <1>2 DEF Next
  <2> QED
    BY <2>1, AskStep, AddInv, LeaveInv, KickInv, TransferInv, GrantInv, RevokeInv
<1> QED
  BY <1>1, <1>2

-----------------------------------------------------------------------------
(* The results.                                                            *)

\* The variables have their types, the requests under way what they passed.
THEOREM Inductive == Spec => []IInv
<1>1. Init => IInv
  BY InitInv
<1>2. IInv /\ [Next]_vars => IInv'
  BY NextInv
<1> QED
  BY <1>1, <1>2, PTL DEF Spec

\* However leaving, removing, granting, revoking and handing over overlap, a
\* group with members has an admin, but for the one overlap that is excepted.
THEOREM AdminThere == Spec => []HasAdmin
<1>1. IInv => HasAdmin
  BY DEF IInv
<1> QED
  BY <1>1, Inductive, PTL

\* However many add members at the same time, the limit holds.
THEOREM LimitKept == Spec => []WithinLimit
<1>1. IInv => WithinLimit
  BY DEF IInv
<1> QED
  BY <1>1, Inductive, PTL

-----------------------------------------------------------------------------
(* Who changes whom.                                                       *)

\* Everyone whose place in the group a step changes.
Changed(u) == u \in Members /\ (u \notin DOMAIN role' \/ role'[u] # role[u])

Authorised(u) == \E p \in Process :
    req[p] # Idle /\ req'[p] = Idle /\ (req[p].by = u \/ req[p].by \in Admins)

\* A change by an admin, or to the one who asked, is in order, and so is one
\* that only adds to the group.
LEMMA ChangeAuthorised ==
  ASSUME TypeOK, NEW p \in Process, req[p].kind \in Kinds, NEW new, NEW users, Change(p, new, users),
         \A u \in Members : (u \notin DOMAIN new \/ new[u] # role[u]) =>
            req[p].by = u \/ req[p].by \in Admins
  PROVE  \A u \in Users : Changed(u) => Authorised(u)
<1>1. role' = new /\ req' = [req EXCEPT ![p] = Idle]
  BY DEF Change, Done
<1>2. req[p] # Idle /\ req'[p] = Idle
  BY <1>1 DEF TypeOK, Kinds
<1> QED
  BY <1>1, <1>2 DEF Changed, Authorised

LEMMA StillAuthorised ==
  ASSUME role' = role
  PROVE  \A u \in Users : Changed(u) => Authorised(u)
  BY DEF Changed

LEMMA AddAuthorised ==
  ASSUME TypeOK, NEW p \in Process, Add(p)
  PROVE  \A u \in Users : Changed(u) => Authorised(u)
<1> DEFINE new == req[p].users \ Members
           group == With(new, "member")
<1>1. CASE Conflict(p)
  BY <1>1, StillAuthorised DEF Conflict
<1>2. CASE Change(p, group, new)
  <2>1. \A u \in Members : u \in DOMAIN group /\ group[u] = role[u]
    BY DEF With
  <2>2. req[p].kind \in Kinds
    BY DEF Add, Kinds
  <2> HIDE DEF group, new
  <2> QED
    BY <1>2, <2>1, <2>2, ChangeAuthorised
<1> QED
  BY <1>1, <1>2 DEF Add

LEMMA LeaveAuthorised ==
  ASSUME TypeOK, NEW p \in Process, Leave(p)
  PROVE  \A u \in Users : Changed(u) => Authorised(u)
<1> DEFINE group == Without({req[p].by})
<1>1. CASE Conflict(p)
  BY <1>1, StillAuthorised DEF Conflict
<1>2. CASE Change(p, group, {req[p].by})
  <2>1. \A u \in Members : u # req[p].by => u \in DOMAIN group /\ group[u] = role[u]
    BY DEF Without
  <2>2. req[p].kind \in Kinds
    BY DEF Leave, Kinds
  <2> HIDE DEF group
  <2> QED
    BY <1>2, <2>1, <2>2, ChangeAuthorised
<1> QED
  BY <1>1, <1>2 DEF Leave

\* The filters of the others ask for an admin as the transaction commits.
LEMMA FilterAuthorised ==
  ASSUME TypeOK, NEW p \in Process, Kick(p) \/ Transfer(p) \/ Grant(p) \/ Revoke(p)
  PROVE  \A u \in Users : Changed(u) => Authorised(u)
<1>1. CASE Conflict(p)
  BY <1>1, StillAuthorised DEF Conflict
<1>2. CASE ~Conflict(p)
  <2>1. req[p].kind \in Kinds
    BY DEF Kick, Transfer, Grant, Revoke, Kinds
  <2>2. req[p].by \in Admins /\ \E new, users : Change(p, new, users)
    BY <1>2 DEF Kick, Transfer, Grant, Revoke
  <2>3. PICK new, users : Change(p, new, users)
    BY <2>2
  <2> QED
    BY <2>1, <2>2, <2>3, ChangeAuthorised
<1> QED
  BY <1>1, <1>2

LEMMA NextAuthorised == TypeOK /\ [Next]_vars => \A u \in Users : Changed(u) => Authorised(u)
<1> SUFFICES ASSUME TypeOK, [Next]_vars PROVE \A u \in Users : Changed(u) => Authorised(u)
  OBVIOUS
<1>1. CASE UNCHANGED vars
  BY <1>1, StillAuthorised DEF vars
<1>2. CASE Next
  <2>1. PICK p \in Process :
          \/ \E kind \in Kinds, by \in Users, users \in Some : Ask(p, kind, by, users)
          \/ Add(p) \/ Leave(p) \/ Kick(p) \/ Transfer(p) \/ Grant(p) \/ Revoke(p)
    BY <1>2 DEF Next
  <2>2. CASE \E kind \in Kinds, by \in Users, users \in Some : Ask(p, kind, by, users)
    BY <2>2, StillAuthorised DEF Ask
  <2> QED
    BY <2>1, <2>2, AddAuthorised, LeaveAuthorised, FilterAuthorised
<1> QED
  BY <1>1, <1>2

\* Nobody is removed, or given or deprived of a role, but by himself or by one
\* who is an admin at that very step.
THEOREM AdminsDecide == Spec => ByAdminOnly
<1>1. IInv /\ [Next]_vars => [\A u \in Users : Changed(u) => Authorised(u)]_vars
  BY NextAuthorised DEF IInv
<1> QED
  BY <1>1, Inductive, PTL DEF Spec, ByAdminOnly, Changed, Authorised

-----------------------------------------------------------------------------
(* What the system messages tell.                                          *)

\* The message of a step tells what the step does: one more step of StoryComplete.
ToldStep ==
    \/ role' = role /\ log' = log
    \/ \E m \in [kind: Kinds, by: Users, users: Some] : log' = Append(log, m) /\ role' = Told(role, m)

\* A message of each kind, and the group it tells of.
LEMMA ToldKinds ==
  ASSUME TypeOK, NEW m \in [kind: Kinds, by: Users, users: Some]
  PROVE  /\ m.kind = "add" => Told(role, m) = With(m.users, "member")
         /\ m.kind \in {"leave", "kick"} => Told(role, m) = Without(m.users)
         /\ m.kind = "transfer" => Told(role, m) =
                [u \in Members \ {m.by} |-> IF u \in m.users THEN "admin" ELSE role[u]]
         /\ m.kind = "grant" /\ m.users \subseteq Members => Told(role, m) = With(m.users, "admin")
         /\ m.kind = "revoke" /\ m.users \subseteq Members => Told(role, m) = With(m.users, "member")
<1>1. m.kind = "add" => Told(role, m) = With(m.users, "member")
  BY DEF Told, With
<1>2. m.kind \in {"leave", "kick"} => Told(role, m) = Without(m.users)
  BY DEF Told, Without
<1>3. m.kind = "transfer" => Told(role, m) =
        [u \in Members \ {m.by} |-> IF u \in m.users THEN "admin" ELSE role[u]]
  BY DEF Told
<1>4. m.users \subseteq Members => Members \cup m.users = Members
  OBVIOUS
<1>5. m.kind = "grant" /\ m.users \subseteq Members => Told(role, m) = With(m.users, "admin")
  BY <1>4 DEF Told, With
<1>6. m.kind = "revoke" /\ m.users \subseteq Members => Told(role, m) = With(m.users, "member")
  BY <1>4 DEF Told, With
<1> QED
  BY <1>1, <1>2, <1>3, <1>5, <1>6

LEMMA ChangeTold ==
  ASSUME TypeOK, NEW p \in Process, req[p] \in Request, NEW new, NEW users \in Some, Change(p, new, users),
         \A m \in [kind: Kinds, by: Users, users: Some] :
            m.kind = req[p].kind /\ m.by = req[p].by /\ m.users = users => Told(role, m) = new
  PROVE  ToldStep
<1>1. PICK m : m = [kind |-> req[p].kind, by |-> req[p].by, users |-> users]
  OBVIOUS
<1>2. m \in [kind: Kinds, by: Users, users: Some] /\ m.kind = req[p].kind /\ m.by = req[p].by /\ m.users = users
  BY <1>1 DEF Request
<1>3. role' = new /\ log' = Append(log, m)
  BY <1>1 DEF Change
<1>4. Told(role, m) = new
  BY <1>2
<1> QED
  BY <1>2, <1>3, <1>4 DEF ToldStep

LEMMA RequestTold ==
  ASSUME TypeOK, NEW p \in Process, Add(p) \/ Leave(p) \/ Kick(p) \/ Transfer(p) \/ Grant(p) \/ Revoke(p)
  PROVE  ToldStep
<1>0. req[p] \in Request /\ req[p].users \in Some /\ req[p].by \in Users
  <2>1. req[p].kind \in Kinds
    BY DEF Add, Leave, Kick, Transfer, Grant, Revoke, Kinds
  <2> QED
    BY <2>1, RequestOf DEF Request
<1>1. CASE Conflict(p)
  BY <1>1 DEF Conflict, ToldStep
<1>2. CASE Add(p) /\ ~Conflict(p)
  <2>1. PICK new : new = req[p].users \ Members
    OBVIOUS
  <2>2. new # {} /\ Change(p, With(new, "member"), new) /\ req[p].kind = "add"
    BY <1>2, <2>1 DEF Add
  <2>3. new \in Some
    BY <1>0, <2>1, <2>2, SomeOf
  <2> QED
    BY <1>0, <2>2, <2>3, ToldKinds, ChangeTold
<1>3. CASE Leave(p) /\ ~Conflict(p)
  <2>1. Change(p, Without({req[p].by}), {req[p].by}) /\ req[p].kind = "leave" /\ {req[p].by} \in Some
    BY <1>0, <1>3, OneOf DEF Leave
  <2> QED
    BY <1>0, <2>1, ToldKinds, ChangeTold
<1>4. CASE Kick(p) /\ ~Conflict(p)
  <2>1. PICK new : new = Without(req[p].users)
    OBVIOUS
  <2>2. Change(p, new, req[p].users) /\ req[p].kind = "kick"
    BY <1>4, <2>1 DEF Kick
  <2>3. \A m \in [kind: Kinds, by: Users, users: Some] :
          m.kind = req[p].kind /\ m.by = req[p].by /\ m.users = req[p].users => Told(role, m) = new
    BY <2>1, <2>2, ToldKinds
  <2> QED
    BY <1>0, <2>2, <2>3, ChangeTold
<1>5. CASE Transfer(p) /\ ~Conflict(p)
  <2>1. PICK new : new = [u \in Members \ {req[p].by} |-> IF u \in req[p].users THEN "admin" ELSE role[u]]
    OBVIOUS
  <2>2. Change(p, new, req[p].users) /\ req[p].kind = "transfer"
    BY <1>5, <2>1 DEF Transfer
  <2>3. \A m \in [kind: Kinds, by: Users, users: Some] :
          m.kind = req[p].kind /\ m.by = req[p].by /\ m.users = req[p].users => Told(role, m) = new
    BY <2>1, <2>2, ToldKinds
  <2> QED
    BY <1>0, <2>2, <2>3, ChangeTold
<1>6. CASE Grant(p) /\ ~Conflict(p)
  <2>1. PICK new : new = With(req[p].users, "admin")
    OBVIOUS
  <2>2. Change(p, new, req[p].users) /\ req[p].kind = "grant" /\ req[p].users \subseteq Members
    BY <1>6, <2>1 DEF Grant, Plain
  <2>3. \A m \in [kind: Kinds, by: Users, users: Some] :
          m.kind = req[p].kind /\ m.by = req[p].by /\ m.users = req[p].users => Told(role, m) = new
    BY <2>1, <2>2, ToldKinds
  <2> QED
    BY <1>0, <2>2, <2>3, ChangeTold
<1>7. CASE Revoke(p) /\ ~Conflict(p)
  <2>1. PICK new : new = With(req[p].users, "member")
    OBVIOUS
  <2>2. Change(p, new, req[p].users) /\ req[p].kind = "revoke" /\ req[p].users \subseteq Members
    BY <1>7, <2>1 DEF Revoke
  <2>3. \A m \in [kind: Kinds, by: Users, users: Some] :
          m.kind = req[p].kind /\ m.by = req[p].by /\ m.users = req[p].users => Told(role, m) = new
    BY <2>1, <2>2, ToldKinds
  <2> QED
    BY <1>0, <2>2, <2>3, ChangeTold
<1> QED
  BY <1>1, <1>2, <1>3, <1>4, <1>5, <1>6, <1>7

\* Every change of the group comes with one system message, which tells it in
\* full: the step of StoryComplete (createGroupActivityInTransaction).
THEOREM EachChangeTold == Spec => [][ToldStep]_vars
<1>1. TypeOK /\ [Next]_vars => [ToldStep]_vars
  BY RequestTold DEF Next, Ask, ToldStep
<1> QED
  BY <1>1, Inductive, PTL DEF Spec, IInv

-----------------------------------------------------------------------------
(* The story of the messages, as FoldLeft computes it.                     *)

Message == [kind: Kinds, by: Users, users: Some]
Tells(g, base, ms, D) ==
    g = [s \in D |-> IF s = {} THEN base ELSE Told(g[s \ {Max(s)}], ms[Max(s)])]
Story(base, ms) == CHOOSE g : Tells(g, base, ms, SUBSET DOMAIN ms)

LEMMA StoryIs == \A base, ms : FoldLeft(Told, base, ms) = Story(base, ms)[DOMAIN ms]
BY DEF FoldLeft, MapThenFoldSet, Story, Tells

\* The first one of some numbers.
LEMMA Least ==
  ASSUME NEW S \in SUBSET Nat, S # {}
  PROVE  \E x \in S : \A y \in S : x <= y
<1> DEFINE R == OpToRel(<, Nat)
<1>1. IsWellFoundedOn(R, Nat)
  BY NatLessThanWellFounded
<1>2. R = {ss \in Nat \X Nat : ss[1] < ss[2]}
  BY DEF OpToRel
<1> HIDE DEF R
<1>3. PICK x \in S : \A y \in S : ~(<<y, x>> \in R)
  BY <1>1, WFMin
<1>4. ASSUME NEW y \in S PROVE x <= y
  <2>1. ~(<<y, x>> \in R) /\ x \in Nat /\ y \in Nat
    BY <1>3
  <2>2. y < x => <<y, x>> \in R
    BY <1>2, <2>1
  <2> QED
    BY <2>1, <2>2
<1> QED
  BY <1>4

\* The last one of some numbers, and the others.
LEMMA LastOne ==
  ASSUME NEW k \in Nat, NEW s \in SUBSET (1..k), s # {}
  PROVE  Max(s) \in s /\ Max(s) \in 1..k /\ \A x \in s \ {Max(s)} : x < Max(s)
<1> DEFINE B == {n \in Nat : \E x \in s : x = k - n}
<1>1. B # {}
  <2>1. PICK x \in s : TRUE
    OBVIOUS
  <2>2. k - x \in Nat /\ x = k - (k - x)
    OBVIOUS
  <2> QED
    BY <2>1, <2>2
<1>2. PICK n \in B : \A i \in B : n <= i
  <2>1. B \in SUBSET Nat
    OBVIOUS
  <2> HIDE DEF B
  <2> QED
    BY <1>1, <2>1, Least
<1>3. PICK x \in s : x = k - n
  OBVIOUS
<1>4. \A y \in s : x >= y
  <2> SUFFICES ASSUME NEW y \in s PROVE x >= y
    OBVIOUS
  <2>1. k - y \in B
    OBVIOUS
  <2> HIDE DEF B
  <2>2. n <= k - y /\ n \in Nat
    BY <1>2, <2>1 DEF B
  <2> QED
    BY <1>3, <2>2
<1>5. Max(s) \in s /\ \A y \in s : Max(s) >= y
  BY <1>4 DEF Max
<1>6. PICK i : i = Max(s)
  OBVIOUS
<1>7. i \in s /\ i \in 1..k /\ \A y \in s : i >= y /\ y \in 1..k
  BY <1>5, <1>6
<1>8. \A y \in s \ {i} : y < i
  BY <1>7
<1> QED
  BY <1>6, <1>7, <1>8

LEMMA StoryExists ==
  ASSUME NEW base, NEW ms, NEW n \in Nat, DOMAIN ms = 1..n
  PROVE  Tells(Story(base, ms), base, ms, SUBSET (1..n))
<1> DEFINE Untold == {k \in Nat : ~\E g : Tells(g, base, ms, SUBSET (1..k))}
<1>1. Untold = {}
  <2> SUFFICES ASSUME Untold # {} PROVE FALSE
    OBVIOUS
  <2>1. PICK k \in Untold : \A i \in Untold : k <= i
    <3>1. Untold \in SUBSET Nat
      OBVIOUS
    <3> HIDE DEF Untold
    <3> QED
      BY <3>1, Least
  <2>2. k \in Nat /\ ~\E g : Tells(g, base, ms, SUBSET (1..k))
    OBVIOUS
  <2>3. \E g : k # 0 => Tells(g, base, ms, SUBSET (1..(k - 1)))
    <3>1. CASE k = 0
      BY <3>1
    <3>2. CASE k # 0
      <4>1. k - 1 \in Nat /\ ~(k <= k - 1)
        BY <2>2, <3>2
      <4> QED
        BY <2>1, <4>1
    <3> QED
      BY <3>1, <3>2
  <2>4. PICK g : k # 0 => Tells(g, base, ms, SUBSET (1..(k - 1)))
    BY <2>3
  <2> DEFINE h == [s \in SUBSET (1..k) |-> IF s = {} THEN base ELSE Told(g[s \ {Max(s)}], ms[Max(s)])]
  <2>5. ASSUME NEW s \in SUBSET (1..k), s # {}
        PROVE  h[s \ {Max(s)}] = g[s \ {Max(s)}]
    <3> DEFINE r == s \ {Max(s)}
    <3>0. PICK i : i = Max(s)
      OBVIOUS
    <3>1. k \in Nat /\ i \in 1..k /\ r \subseteq 1..k /\ \A x \in r : x < i
      BY <2>2, <2>5, <3>0, LastOne
    <3>2. k # 0 /\ r \in SUBSET (1..(k - 1)) /\ r \in SUBSET (1..k)
      BY <3>1
    <3>3. g = [t \in SUBSET (1..(k - 1)) |-> IF t = {} THEN base ELSE Told(g[t \ {Max(t)}], ms[Max(t)])]
      BY <2>4, <3>2 DEF Tells
    <3> HIDE DEF r
    <3>4. g[r] = IF r = {} THEN base ELSE Told(g[r \ {Max(r)}], ms[Max(r)])
      BY <3>2, <3>3
    <3>5. h[r] = IF r = {} THEN base ELSE Told(g[r \ {Max(r)}], ms[Max(r)])
      BY <3>2
    <3> QED
      BY <3>4, <3>5 DEF r
  <2>6. h = [s \in SUBSET (1..k) |-> IF s = {} THEN base ELSE Told(h[s \ {Max(s)}], ms[Max(s)])]
    BY <2>5
  <2> HIDE DEF h
  <2> QED
    BY <2>2, <2>6 DEF Tells
<1>2. \E g : Tells(g, base, ms, SUBSET (1..n))
  BY <1>1
<1> QED
  BY <1>2 DEF Story

\* After so many messages.
LEMMA StoryRule ==
  ASSUME NEW base, NEW ms, NEW n \in Nat, DOMAIN ms = 1..n
  PROVE  /\ Story(base, ms)[1..0] = base
         /\ \A k \in 1..n : Story(base, ms)[1..k] = Told(Story(base, ms)[1..(k - 1)], ms[k])
<1>1. PICK g : g = Story(base, ms)
  OBVIOUS
<1>2. Tells(g, base, ms, SUBSET (1..n))
  BY <1>1, StoryExists
<1>3. \A s \in SUBSET (1..n) : g[s] = IF s = {} THEN base ELSE Told(g[s \ {Max(s)}], ms[Max(s)])
  BY <1>2 DEF Tells
<1>4. g[1..0] = base
  <2>1. 1..0 = {} /\ 1..0 \in SUBSET (1..n)
    OBVIOUS
  <2> QED
    BY <1>3, <2>1
<1>5. ASSUME NEW k \in 1..n
      PROVE  g[1..k] = Told(g[1..(k - 1)], ms[k])
  <2>1. k \in 1..k /\ k \in Nat /\ 1..k \in SUBSET (1..n)
    OBVIOUS
  <2>2. 1..k # {}
    BY <2>1
  <2>3. Max(1..k) \in 1..k /\ \A x \in (1..k) \ {Max(1..k)} : x < Max(1..k)
    BY <2>1, <2>2, LastOne
  <2>4. Max(1..k) = k
    BY <2>1, <2>3
  <2>5. (1..k) \ {k} = 1..(k - 1)
    BY <2>1
  <2>6. g[1..k] = Told(g[(1..k) \ {Max(1..k)}], ms[Max(1..k)])
    BY <1>3, <2>1, <2>2
  <2> QED
    BY <2>4, <2>5, <2>6
<1> QED
  BY <1>1, <1>4, <1>5

\* One message more leads one step further.
LEMMA StoryAppend ==
  ASSUME NEW base, NEW ms \in Seq(Message), NEW m \in Message
  PROVE  FoldLeft(Told, base, Append(ms, m)) = Told(FoldLeft(Told, base, ms), m)
<1> DEFINE n == Len(ms)
           all == Append(ms, m)
<1>1. n \in Nat /\ n + 1 \in Nat /\ DOMAIN ms = 1..n /\ DOMAIN all = 1..(n + 1) /\ all[n + 1] = m
      /\ \A i \in 1..n : all[i] = ms[i]
  OBVIOUS
<1> HIDE DEF n, all
<1> DEFINE Other == {k \in 0..n : Story(base, ms)[1..k] # Story(base, all)[1..k]}
<1>2. Other = {}
  <2> SUFFICES ASSUME Other # {} PROVE FALSE
    OBVIOUS
  <2>1. PICK k \in Other : \A i \in Other : k <= i
    <3>1. Other \in SUBSET Nat
      BY <1>1
    <3> HIDE DEF Other
    <3> QED
      BY <3>1, Least
  <2>2. k \in 0..n /\ Story(base, ms)[1..k] # Story(base, all)[1..k]
    OBVIOUS
  <2>3. Story(base, ms)[1..0] = base /\ Story(base, all)[1..0] = base
    BY <1>1, StoryRule, Zenon
  <2>4. k # 0
    BY <2>2, <2>3
  <2>5. k - 1 \in 0..n /\ ~(k <= k - 1) /\ k \in 1..n /\ k \in 1..(n + 1)
    BY <1>1, <2>2, <2>4
  <2>6. Story(base, ms)[1..k] = Told(Story(base, ms)[1..(k - 1)], ms[k])
    BY <1>1, <2>5, StoryRule
  <2>7. Story(base, all)[1..k] = Told(Story(base, all)[1..(k - 1)], all[k])
    BY <1>1, <2>5, StoryRule
  <2>8. Story(base, ms)[1..(k - 1)] = Story(base, all)[1..(k - 1)]
    BY <2>1, <2>5
  <2> QED
    BY <1>1, <2>2, <2>5, <2>6, <2>7, <2>8
<1>3. Story(base, ms)[1..n] = Story(base, all)[1..n]
  BY <1>1, <1>2
<1>4. Story(base, all)[1..(n + 1)] = Told(Story(base, all)[1..n], m)
  <2>1. n + 1 \in 1..(n + 1) /\ (n + 1) - 1 = n /\ n + 1 \in Nat
    BY <1>1
  <2>2. Story(base, all)[1..(n + 1)] = Told(Story(base, all)[1..((n + 1) - 1)], all[n + 1])
    BY <1>1, <2>1, StoryRule
  <2> QED
    BY <1>1, <2>1, <2>2
<1>5. FoldLeft(Told, base, ms) = Story(base, ms)[1..n] /\ FoldLeft(Told, base, all) = Story(base, all)[1..(n + 1)]
  BY <1>1, StoryIs
<1> QED
  BY <1>3, <1>4, <1>5 DEF all

LEMMA StoryStarts == Init => StoryComplete
<1> SUFFICES ASSUME Init PROVE StoryComplete
  OBVIOUS
<1>1. DOMAIN log = 1..0 /\ start = role
  BY DEF Init
<1>2. Story(start, log)[1..0] = start
  BY <1>1, StoryRule
<1>3. FoldLeft(Told, start, log) = Story(start, log)[1..0]
  BY <1>1, StoryIs
<1> QED
  BY <1>1, <1>2, <1>3 DEF StoryComplete

LEMMA StoryGoesOn ==
  ASSUME TypeOK, StoryComplete, ToldStep, start' = start
  PROVE  StoryComplete'
<1>1. CASE role' = role /\ log' = log
  BY <1>1 DEF StoryComplete
<1>2. CASE ~(role' = role /\ log' = log)
  <2>1. PICK m \in Message : log' = Append(log, m) /\ role' = Told(role, m)
    BY <1>2 DEF ToldStep, Message
  <2>2. log \in Seq(Message)
    BY DEF TypeOK, Message
  <2>3. FoldLeft(Told, start, Append(log, m)) = Told(FoldLeft(Told, start, log), m)
    BY <2>2, StoryAppend
  <2> QED
    BY <2>1, <2>3 DEF StoryComplete
<1> QED
  BY <1>1, <1>2

\* The system messages lead from the group as it was created to the group as it
\* is, whatever requests overlapped (createGroupActivityInTransaction).
THEOREM StoryIsComplete == Spec => []StoryComplete
<1>1. IInv /\ StoryComplete /\ [Next]_vars => StoryComplete'
  <2> SUFFICES ASSUME IInv, StoryComplete, [Next]_vars PROVE StoryComplete'
    OBVIOUS
  <2>1. TypeOK /\ start' = start
    BY DEF IInv, Next, vars, Ask, Add, Leave, Kick, Transfer, Grant, Revoke, Change, Conflict
  <2>2. ToldStep
    BY <2>1, RequestTold DEF Next, Ask, ToldStep, vars
  <2> QED
    BY <2>1, <2>2, StoryGoesOn
<1> QED
  BY <1>1, Inductive, StoryStarts, PTL DEF Spec

=============================================================================
