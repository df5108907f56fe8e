------------------------------ MODULE Membership ------------------------------
(***************************************************************************)
(* Who belongs to one organization, in which role, and who owns it.        *)
(*                                                                         *)
(* Actors: requests of members (invite, add, change a role, remove, leave, *)
(* transfer the ownership), logins through the identity provider, which    *)
(* redeem an invitation or provision a membership, and the erasure of      *)
(* users.  They share the tables users, memberships and                    *)
(* pending_memberships.                                                    *)
(*                                                                         *)
(* PostgreSQL runs the transactions at READ COMMITTED: a statement sees    *)
(* what was committed when it started, a row lock lasts until the end of   *)
(* its transaction, and a statement that waited for a row re-checks it.    *)
(* The variables hold what is committed.  A transaction that reads rows it *)
(* does not lock, or locks more than one, takes several actions; its last  *)
(* write and its commit are one.  A transaction of one statement, or whose *)
(* only reads are of a row it has locked, is one action.                   *)
(*                                                                         *)
(* Left out: the role viewer, treated like member by all that is modelled  *)
(* here; names, passwords and tokens (who redeems an invitation has the    *)
(* current one); the deletion of this organization itself.                 *)
(***************************************************************************)
EXTENDS Naturals, FiniteSets

CONSTANTS
    Persons,     \* a person is an e-mail address, unique among all users
    SsoPersons,  \* those who log in through the identity provider
    Reqs,        \* slots for requests that take several steps
    Assignable,  \* roles given by requests and group mappings
    Nobody,      \* not a person
    CanErase,    \* users and organizations may be deleted
    OtherOrg,    \* there is another organization with users of its own
    MaxPending   \* bound: pending invitations

ASSUME RoleAssumption ==
    /\ Assignable \subseteq {"admin", "member"}
    /\ SsoPersons \subseteq Persons
    /\ Nobody \notin Persons
    /\ CanErase \in BOOLEAN /\ OtherOrg \in BOOLEAN
    /\ MaxPending \in Nat

VARIABLES
    home,    \* the users table: each user's primary organization
    row,     \* the memberships table
    invite,  \* pending_memberships: the role of the pending invitation
    req      \* the requests in flight

vars == <<home, row, invite, req>>
------------------------------------------------------------------------------
Homes == {"none", "here", "elsewhere"}   \* "none": there is no user
Roles == {"owner", "admin", "member"}
Vias  == {"manual", "invitation", "jit"}

\* role "none": there is no membership; then via means nothing.
RowType == [role : Roles \cup {"none"}, via : Vias]
NoRow   == [role |-> "none", via |-> "manual"]

IsMember(p) == row[p].role # "none"
Owners      == {p \in Persons : row[p].role = "owner"}

\* op, pc: the request and its next statement; who: the person it is about; role: the
\* role to give; seen: the owners its UPDATE found, then changed; held: the persons
\* whose rows it has locked.
Ops == {"none", "update", "remove", "jit", "transfer", "erase", "cascade"}
PCs == {"idle", "lock", "count", "write", "target", "demote", "demoting", "promote",
        "redeem", "save", "lookup", "erase", "cascade"}
ReqType == [op : Ops, pc : PCs, who : Persons \cup {Nobody}, role : Assignable \cup {"none"},
            seen : SUBSET Persons, held : SUBSET Persons]

Idle == [op |-> "none", pc |-> "idle", who |-> Nobody,
         role |-> "none", seen |-> {}, held |-> {}]

TypeOK ==
    /\ home \in [Persons -> Homes]
    /\ row \in [Persons -> RowType]
    /\ invite \in [Persons -> Assignable \cup {"none"}]
    /\ req \in [Reqs -> ReqType]
    /\ \A p \in Persons : IsMember(p) => home[p] # "none"   \* memberships.user_id

\* authz.Allows: admins manage members, the owner also manages admins.
Allows(role, elevated) == IF elevated THEN role = "owner" ELSE role \in {"owner", "admin"}
Elevated(role)         == role \in {"admin", "owner"}
SomeoneMay(elevated)   == \E c \in Persons : Allows(row[c].role, elevated)

At(r, pc)  == req[r].pc = pc
Free(r, p) == \A s \in Reqs \ {r} : p \notin req[s].held

\* Who refers to a user that the deletion of the other organization has deleted, but not
\* committed, waits: a login, a new membership, another deletion.
Cascading(p) == home[p] = "elsewhere" /\ \E s \in Reqs : At(s, "cascade")

Insert(p, role, via) == row' = [row EXCEPT ![p] = [role |-> role, via |-> via]]

\* The request ends; its locks are gone.
Finish(r) == req' = [req EXCEPT ![r] = Idle]

Goto(r, pc) == req' = [req EXCEPT ![r].pc = pc]

\* A request starts: its slot was idle.
Start(r, op, pc, p, role) ==
    /\ At(r, "idle")
    /\ req' = [req EXCEPT ![r] = [Idle EXCEPT !.op = op, !.pc = pc, !.who = p, !.role = role]]

\* Rows have ids that are never used again.  Request r is about p's row by its id:
\* once that row is deleted the request changes nothing, even if p gets another row.
ById(r, p) == At(r, "lock") /\ req[r].who = p

\* The requests in rs change nothing any more, and nobody finds the rows of gone.
Ended(rs, gone) ==
    req' = [r \in Reqs |-> IF r \in rs THEN Idle ELSE [req[r] EXCEPT !.seen = @ \ gone]]
------------------------------------------------------------------------------
(* Invitations and new members *)

\* POST /v1/memberships: only for users whose primary organization is this one.
CreateMembership(p, role) ==
    /\ SomeoneMay(role = "admin")
    /\ home[p] = "here" /\ ~IsMember(p)
    /\ Insert(p, role, "manual")
    /\ UNCHANGED <<home, invite, req>>

\* POST /v1/invitations: a new one, or another role for the pending one.  Those
\* whose primary organization is this one are turned away, members or not.
CreateNativeInvitation(p, role) ==
    /\ SomeoneMay(role = "admin")
    /\ home[p] # "here"
    /\ Cardinality({q \in Persons \ {p} : invite[q] # "none"}) < MaxPending
    /\ invite' = [invite EXCEPT ![p] = role]
    /\ UNCHANGED <<home, row, req>>

RevokePendingInvitation(p) ==
    /\ invite[p] # "none"
    /\ SomeoneMay(invite[p] = "admin")
    /\ invite' = [invite EXCEPT ![p] = "none"]
    /\ UNCHANGED <<home, row, req>>

\* Redemptions look for invitations that have not expired.  (Nothing calls the sweep,
\* Store.ExpirePendingInvitations, which would only mark the expired ones.)
InvitationsExpire ==
    \E gone \in SUBSET {p \in Persons : invite[p] # "none"} :
        /\ gone # {}
        /\ invite' = [p \in Persons |-> IF p \in gone THEN "none" ELSE invite[p]]
        /\ UNCHANGED <<home, row, req>>

\* POST /v1/auth/invitations/redeem.  Whether there is a user is looked up before
\* the transaction; if that changed since, the transaction does nothing.  It also
\* does nothing for a member: the INSERT fails, and a transaction that failed
\* executes none of the statements meant to handle that.  Whoever has a password may
\* come this way, also a user of the identity provider whose login is in flight.
RedeemNativeInvitation(p) ==
    /\ invite[p] # "none" /\ ~IsMember(p) /\ ~Cascading(p)
    /\ home' = [home EXCEPT ![p] = IF @ = "none" THEN "here" ELSE @]
    /\ Insert(p, invite[p], "invitation")
    /\ invite' = [invite EXCEPT ![p] = "none"]
    /\ UNCHANGED req
------------------------------------------------------------------------------
(* Login through the identity provider (HandleOIDCCallback) *)

\* UpsertUser; role is what JITResolveRole will find.  (UpsertUser fails if a native
\* redemption has created the user with that address.  The model lets it succeed, too.)
SsoLogin(r, p, role) ==
    /\ p \in SsoPersons /\ ~Cascading(p)
    /\ Start(r, "jit", "redeem", p, role)
    /\ home' = [home EXCEPT ![p] = IF @ = "none" THEN "here" ELSE @]
    /\ UNCHANGED <<row, invite>>

\* An invitation for a member fails the login (see RedeemNativeInvitation).
RedeemPendingInvitation(r) ==
    LET p == req[r].who IN
    /\ At(r, "redeem")
    /\ UNCHANGED home
    /\ \/ /\ invite[p] = "none"
          /\ Goto(r, "save")
          /\ UNCHANGED <<row, invite>>
       \/ /\ invite[p] # "none" /\ ~IsMember(p) /\ ~Cascading(p)
          /\ Insert(p, invite[p], "invitation")
          /\ invite' = [invite EXCEPT ![p] = "none"]
          /\ Finish(r)
       \/ /\ invite[p] # "none" /\ IsMember(p)
          /\ Finish(r)
          /\ UNCHANGED <<row, invite>>

\* JITProvisionMembership: insert, or look at the row that is there.
SaveMembership(r) ==
    LET p == req[r].who IN
    /\ At(r, "save")
    /\ UNCHANGED <<home, invite>>
    /\ \/ /\ ~IsMember(p) /\ ~Cascading(p)
          /\ Insert(p, req[r].role, "jit")
          /\ Finish(r)
       \/ /\ IsMember(p)
          /\ Goto(r, "lookup")
          /\ UNCHANGED row

\* Mutant: without the check of provisioned_via.
ReconcilesAll(m, role) == m.role \notin {"none", "owner", role}

\* Only rows that a login provisioned follow the identity provider.
Reconciles(m, role) == m.role \notin {"none", "owner", role} /\ m.via = "jit"

LookupMembership(r) ==
    LET m == row[req[r].who] IN
    /\ At(r, "lookup")
    /\ IF Reconciles(m, req[r].role)
       THEN Goto(r, "lock")
       ELSE Finish(r)
    /\ UNCHANGED <<home, row, invite>>
------------------------------------------------------------------------------
(* Changing a role, removing a member: the handler reads the row and the   *)
(* caller's role, the store then locks the row                             *)

UpdateRole(r, p, role) ==
    /\ IsMember(p)
    /\ SomeoneMay(Elevated(row[p].role) \/ Elevated(role))
    /\ Start(r, "update", "lock", p, role)
    /\ UNCHANGED <<home, row, invite>>

\* Whoever is a member may leave, so somebody always may.
Remove(r, p) ==
    /\ IsMember(p)
    /\ Start(r, "remove", "lock", p, "none")
    /\ UNCHANGED <<home, row, invite>>

\* SELECT ... FOR UPDATE; an owner is demoted or removed only after a count.
LockRow(r) ==
    LET p == req[r].who IN
    /\ At(r, "lock")
    /\ Free(r, p)
    /\ IF IsMember(p)
       THEN req' = [req EXCEPT ![r].pc = IF p \in Owners THEN "count" ELSE "write",
                               ![r].held = {p}]
       ELSE Finish(r)
    /\ UNCHANGED <<home, row, invite>>

\* Mutant: the guard lets the last owner go.
CountOwnersNot(r) ==
    /\ At(r, "count")
    /\ Goto(r, "write")
    /\ UNCHANGED <<home, row, invite>>

CountOwners(r) ==
    /\ At(r, "count")
    /\ IF Cardinality(Owners) <= 1 THEN Finish(r) ELSE Goto(r, "write")
    /\ UNCHANGED <<home, row, invite>>

\* UPDATE or DELETE, COMMIT.
WriteRow(r) ==
    LET p == req[r].who IN
    /\ At(r, "write")
    /\ \/ /\ req[r].op # "remove"
          /\ row' = [row EXCEPT ![p].role = req[r].role]
          /\ Finish(r)
       \/ /\ req[r].op = "remove"
          /\ row' = [row EXCEPT ![p] = NoRow]
          /\ Ended({r} \cup {s \in Reqs : ById(s, p)}, {p})
    /\ UNCHANGED <<home, invite>>
------------------------------------------------------------------------------
(* TransferOwnership *)

\* The route is for the owner, who need not be the owner any more later on.
TransferOwnership(r, p) ==
    /\ Owners # {}
    /\ Start(r, "transfer", "target", p, "none")
    /\ UNCHANGED <<home, row, invite>>

\* SELECT ... FOR UPDATE of the new owner's row.
LockTarget(r) ==
    /\ At(r, "target")
    /\ Free(r, req[r].who)
    /\ IF IsMember(req[r].who)
       THEN req' = [req EXCEPT ![r].pc = "demote", ![r].held = {req[r].who}]
       ELSE Finish(r)
    /\ UNCHANGED <<home, row, invite>>

\* Mutant: without the condition on the role.
FindAll(r) ==
    /\ At(r, "demote")
    /\ req' = [req EXCEPT ![r].pc = "demoting", ![r].seen = {p \in Persons : IsMember(p)}]
    /\ UNCHANGED <<home, row, invite>>

\* UPDATE ... WHERE role = 'owner' finds its rows ...
FindOwners(r) ==
    /\ At(r, "demote")
    /\ req' = [req EXCEPT ![r].pc = "demoting", ![r].seen = Owners]
    /\ UNCHANGED <<home, row, invite>>

\* ... waits until nobody else holds them, and changes those still owners.
Demoted(r) == Owners \cap req[r].seen

DemoteOwners(r) ==
    /\ At(r, "demoting")
    /\ \A p \in req[r].seen : Free(r, p)
    /\ req' = [req EXCEPT ![r].pc = "promote", ![r].seen = Demoted(r),
                          ![r].held = @ \cup Demoted(r)]
    /\ UNCHANGED <<home, row, invite>>

\* The index memberships_one_owner_per_tenant: another owner's row that this
\* transaction did not demote.  If another transaction holds that row, the index
\* waits for it.
OtherOwners(r) == Owners \ (Demoted(r) \cup {req[r].who})

\* Mutant: without the unique index.
PromoteAnyway(r) ==
    LET p == req[r].who IN
    /\ At(r, "promote")
    /\ row' = [q \in Persons |->
                 IF q = p THEN [row[q] EXCEPT !.role = "owner"]
                 ELSE IF q \in Demoted(r) THEN [row[q] EXCEPT !.role = "admin"]
                 ELSE row[q]]
    /\ Finish(r)
    /\ UNCHANGED <<home, invite>>

Promote(r) ==
    LET p == req[r].who IN
    /\ At(r, "promote")
    /\ OtherOwners(r) = {}
    /\ row' = [q \in Persons |->
                 IF q = p THEN [row[q] EXCEPT !.role = "owner"]
                 ELSE IF q \in Demoted(r) THEN [row[q] EXCEPT !.role = "admin"]
                 ELSE row[q]]
    /\ Finish(r)
    /\ UNCHANGED <<home, invite>>

PromoteFails(r) ==
    /\ At(r, "promote")
    /\ OtherOwners(r) # {} /\ \A q \in OtherOwners(r) : Free(r, q)
    /\ Finish(r)
    /\ UNCHANGED <<home, row, invite>>
------------------------------------------------------------------------------
(* Erasure *)

\* Mutant: memberships without ON DELETE CASCADE.
ErasedUserOnly(r, gone) ==
    /\ home' = [p \in Persons |-> IF p \in gone THEN "none" ELSE home[p]]
    /\ Ended({r} \cup {s \in Reqs : req[s].who \in gone}, gone)
    /\ UNCHANGED <<row, invite>>

\* What is done for a user refers to it by its id, too.
ForUser(r, p) == req[r].op \in {"jit", "transfer", "erase"} /\ req[r].who = p

\* Memberships go with the user, and so do the invitations the user issued: any of
\* them.
Erased(r, gone) ==
    /\ home' = [p \in Persons |-> IF p \in gone THEN "none" ELSE home[p]]
    /\ row' = [p \in Persons |-> IF p \in gone THEN NoRow ELSE row[p]]
    /\ \E kept \in SUBSET Persons :
        invite' = [p \in Persons |-> IF p \in kept THEN invite[p] ELSE "none"]
    /\ Ended({r} \cup {s \in Reqs : \E p \in gone : ById(s, p) \/ ForUser(s, p)}, gone)

\* DELETE /v1/users/me: the only owner is refused ...
DeleteUser(r, p) ==
    /\ CanErase
    /\ home[p] # "none"
    /\ p \in Owners => Owners # {p}
    /\ Start(r, "erase", "erase", p, "none")
    /\ UNCHANGED <<home, row, invite>>

\* ... and the rest go, as soon as nobody holds their membership.
EraseUser(r) ==
    /\ At(r, "erase")
    /\ Free(r, req[r].who) /\ ~Cascading(req[r].who)
    /\ Erased(r, {req[r].who})

\* DeleteOrganizationCascade of the other organization deletes all its users ...
Elsewhere == {p \in Persons : home[p] = "elsewhere"}

DeleteOtherOrganization(r) ==
    /\ CanErase
    /\ Elsewhere # {} /\ \A s \in Reqs : ~At(s, "cascade")
    /\ Start(r, "cascade", "cascade", Nobody, "none")
    /\ UNCHANGED <<home, row, invite>>

\* ... with their memberships, locked one after the other, in the order in which the
\* users are found, while it holds those before ...
CascadeRow(r, p) ==
    /\ At(r, "cascade")
    /\ p \in Elsewhere \ req[r].held /\ IsMember(p) /\ Free(r, p)
    /\ req' = [req EXCEPT ![r].held = @ \cup {p}]
    /\ UNCHANGED <<home, row, invite>>

\* ... and commits.
CascadeCommit(r) ==
    /\ At(r, "cascade")
    /\ \A p \in Elsewhere : IsMember(p) => p \in req[r].held
    /\ Erased(r, Elsewhere)
------------------------------------------------------------------------------
\* A statement fails, or the client disconnects: ROLLBACK.
RequestFails(r) ==
    /\ ~At(r, "idle")
    /\ Finish(r)
    /\ UNCHANGED <<home, row, invite>>

\* One organization with its owner, and users of the other one.
Init ==
    \E owner \in Persons \ SsoPersons, others \in SUBSET (IF OtherOrg THEN Persons ELSE {}) :
        /\ owner \notin others
        /\ home = [p \in Persons |-> IF p = owner THEN "here"
                                     ELSE IF p \in others THEN "elsewhere" ELSE "none"]
        /\ row = [p \in Persons |-> IF p = owner THEN [NoRow EXCEPT !.role = "owner"] ELSE NoRow]
        /\ invite = [p \in Persons |-> "none"]
        /\ req = [r \in Reqs |-> Idle]

NewMember(p) ==
    \/ \E role \in Assignable : CreateMembership(p, role) \/ CreateNativeInvitation(p, role)
    \/ RevokePendingInvitation(p)
    \/ RedeemNativeInvitation(p)

Begin(r, p) ==
    \/ \E role \in Assignable : SsoLogin(r, p, role) \/ UpdateRole(r, p, role)
    \/ Remove(r, p)
    \/ TransferOwnership(r, p)
    \/ DeleteUser(r, p)

Continue(r) ==
    \/ RedeemPendingInvitation(r) \/ SaveMembership(r) \/ LookupMembership(r)
    \/ LockRow(r) \/ CountOwners(r) \/ WriteRow(r)
    \/ LockTarget(r) \/ FindOwners(r) \/ DemoteOwners(r) \/ Promote(r) \/ PromoteFails(r)
    \/ EraseUser(r)

Cascade(r) ==
    DeleteOtherOrganization(r) \/ CascadeCommit(r) \/ \E p \in Persons : CascadeRow(r, p)

Next ==
    \/ \E p \in Persons : NewMember(p)
    \/ InvitationsExpire
    \/ \E r \in Reqs : \/ Continue(r) \/ Cascade(r) \/ RequestFails(r)
                      \/ \E p \in Persons : Begin(r, p)

Spec == Init /\ [][Next]_vars
------------------------------------------------------------------------------
(* Properties *)

\* The rows that a request has to wait for before it can go on.
Needs(r) == CASE req[r].pc \in {"lock", "target", "erase"} -> {req[r].who}
              [] req[r].pc = "demoting"                   -> req[r].seen
              [] req[r].pc = "promote"                    -> OtherOwners(r)
              [] OTHER                                    -> {}

\* No two owners: the transfer promotes only whom the unique index lets it,
\* whatever other transfers, removals and role changes overlap with it.
AtMostOneOwner == \A p, q \in Owners : p = q

\* The organization keeps an owner as long as its owner keeps the user: only an
\* erasure leaves it without one, never a transfer that overlaps with role
\* changes, removals, logins or other transfers.
OwnerKept == [][\A p \in Owners : Owners' = {} => home'[p] = "none"]_vars

\* A login never changes a role that somebody chose: the role of an invitation or
\* of POST /v1/memberships, however login, redemption and removal interleave.
ChosenRoleKept ==
    [][\A r \in Reqs, p \in Persons :
          req[r].op = "jit" /\ req'[r].pc # req[r].pc /\ IsMember(p) /\ row[p].via # "jit"
             => row'[p] = row[p] \/ home'[p] = "none"]_vars

\* No requests wait for each other's membership rows in a circle, which PostgreSQL would
\* end by failing one of them, unless the deletion of another organization is one of
\* them: each set of requests without it has one that can go on.  (That deletion locks
\* its users' rows in any order, a transfer its target's and then the owner's.)
NoWaitCycle ==
    \A R \in (SUBSET {r \in Reqs : ~At(r, "cascade")}) \ {{}} :
        \E r \in R : \A s \in R \ {r} : Needs(r) \cap req[s].held = {}

\* docs/AUTHENTICATION.md: an organization always has an owner.
AlwaysOwned == Owners # {}
=============================================================================
