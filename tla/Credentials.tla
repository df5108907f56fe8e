----------------------------- MODULE Credentials -----------------------------
(***************************************************************************)
(* How a person gets in: as the first owner (Bootstrap), by a link to an   *)
(* invitation, which makes a user with a password or asks an existing one  *)
(* for its password, by a link to reset the password, by a password.       *)
(*                                                                         *)
(* Requests interleave at the statements of their transactions, which run  *)
(* at READ COMMITTED: a row lock lasts until the end, two inserts of one   *)
(* e-mail address wait for each other.  A request may end between any two  *)
(* steps; its transaction is rolled back.  A user's id is never used       *)
(* again, its e-mail address is.                                           *)
(*                                                                         *)
(* Left out: roles (Membership), sessions once minted and their revocation *)
(* by a reset (Sessions), rate limits, which only refuse, and the deletion *)
(* of an invitation with the user that sent it, which is a revocation.     *)
(***************************************************************************)
EXTENDS Bootstrap

CONSTANTS
    Persons,     \* a person is an e-mail address
    Passwords,
    Reqs,        \* slots for requests
    NoOrg, NoPerson, NoPassword,
    MaxUsers,    \* bound: users made
    MaxLinks     \* bound: links sent

ASSUME CredentialsAssumption ==
    /\ MaxUsers \in Nat /\ MaxLinks \in Nat
    /\ NoOrg \notin Orgs /\ NoPerson \notin Persons /\ NoPassword \notin Passwords

\* The ids of users and the tokens of links are numbered as they are made; 0: none.
Ids   == 1 .. MaxUsers
Links == 1 .. MaxLinks

VARIABLES
    user,      \* users: the id of the user with a person's address
    home,      \* the primary organization of a user
    password,  \* the password behind a user's hash
    had,       \* history: all the passwords a user has had
    made,      \* the number of users made
    member,    \* memberships
    invite,    \* the link of the pending invitation of an organization to a person
    reset,     \* password_resets, until they are redeemed: whose password a link resets
    expired,   \* the links past their expires_at
    sent,      \* the number of links sent
    req        \* the requests in flight

credVars == <<user, home, password, had, made, member, invite, reset, expired, sent, req>>
tokenVars == <<org, row, file, starts, replica, setup>>
linkVars == <<invite, reset, expired, sent>>
userVars == <<user, home, password, had, made, member>>
vars     == <<bootVars, credVars>>
------------------------------------------------------------------------------
ReqType == [pc : {"idle", "upsert", "lock", "user", "join", "read", "set", "revoke", "mint"},
            link : Links \cup {0}, user : Ids \cup {0}, password : Passwords \cup {NoPassword},
            org : Orgs \cup {NoOrg}, person : Persons \cup {NoPerson}]

NoReset == [user |-> 0, org |-> NoOrg]

Idle == [pc |-> "idle", link |-> 0, user |-> 0, password |-> NoPassword,
         org |-> NoOrg, person |-> NoPerson]

Exists(u) == \E p \in Persons : user[p] = u

TypeOK ==
    /\ BootTypeOK
    /\ user \in [Persons -> Ids \cup {0}]
    /\ home \in [Ids -> Orgs \cup {NoOrg}]
    /\ password \in [Ids -> Passwords \cup {NoPassword}]
    /\ had \in [Ids -> SUBSET Passwords]
    /\ made \in 0 .. MaxUsers
    /\ member \subseteq Ids \X Orgs
    /\ invite \in [Orgs -> [Persons -> Links \cup {0}]]
    /\ reset \in [Links -> [user : Ids \cup {0}, org : Orgs \cup {NoOrg}]]
    /\ expired \subseteq Links
    /\ sent \in 0 .. MaxLinks
    /\ req \in [Reqs -> ReqType]
    /\ \A m \in member : Exists(m[1]) /\ m[2] \in There     \* the foreign keys
    /\ \A l \in Links : reset[l] # NoReset => Exists(reset[l].user) /\ reset[l].org \in There
    /\ \A o \in Orgs, p \in Persons : invite[o][p] # 0 => o \in There

NobodyKnown ==
    /\ made = 0 /\ member = {}
    /\ user = [p \in Persons |-> 0] /\ home = [u \in Ids |-> NoOrg]
    /\ password = [u \in Ids |-> NoPassword] /\ had = [u \in Ids |-> {}]

\* An organization that is there from before has a user, maybe without a password.
Known(p, o, w) ==
    /\ 1 \in Ids /\ made = 1 /\ member = {<<1, o>>}
    /\ user = [q \in Persons |-> IF q = p THEN 1 ELSE 0]
    /\ home = [u \in Ids |-> IF u = 1 THEN o ELSE NoOrg]
    /\ password = [u \in Ids |-> IF u = 1 THEN w ELSE NoPassword]
    /\ had = [u \in Ids |-> IF u = 1 /\ w # NoPassword THEN {w} ELSE {}]

Init ==
    /\ BootInit
    /\ \/ NobodyKnown
       \/ \E p \in Persons, o \in There, w \in Passwords \cup {NoPassword} : Known(p, o, w)
    /\ invite = [o \in Orgs |-> [p \in Persons |-> 0]]
    /\ reset = [l \in Links |-> NoReset]
    /\ expired = {}
    /\ sent = 0
    /\ req = [r \in Reqs |-> Idle]

At(r, pc)      == req[r].pc = pc
Become(r, q)   == req' = [req EXCEPT ![r] = q]
Finish(r)      == Become(r, Idle)
Verifies(u, w) == u # 0 /\ w = password[u]
AtHome(p, o)   == user[p] # 0 /\ home[user[p]] = o

\* Row locks: on a pending invitation, on a password reset.
HeldInvite(o, p) == \E r \in Reqs : req[r].pc \in {"user", "join"}
                                    /\ req[r].org = o /\ req[r].person = p
HeldReset(l)     == \E r \in Reqs : req[r].pc = "set" /\ req[r].link = l

\* The user with an address, and the organizations it is a member of.
LookupUserByEmail(p) == [id |-> user[p], orgs |-> {o \in Orgs : <<user[p], o>> \in member}]

\* INSERT INTO users.
NewUser(p, o, w) ==
    /\ made < MaxUsers
    /\ made' = made + 1
    /\ user' = [user EXCEPT ![p] = made']
    /\ home' = [home EXCEPT ![made'] = o]
    /\ password' = [password EXCEPT ![made'] = w]
    /\ had' = [had EXCEPT ![made'] = {w}]

\* Users and organizations go, and by ON DELETE CASCADE what refers to them; a locked
\* row is waited for.
Gone(us, os) ==
    /\ \A l \in Links : HeldReset(l) => reset[l].user \notin us /\ reset[l].org \notin os
    /\ user' = [p \in Persons |-> IF user[p] \in us THEN 0 ELSE user[p]]
    /\ member' = {m \in member : m[1] \notin us /\ m[2] \notin os}
    /\ reset' = [l \in Links |-> IF reset[l].user \in us \/ reset[l].org \in os
                                  THEN NoReset ELSE reset[l]]
------------------------------------------------------------------------------
\* The bootstrap's organization comes with its owner.
Bootstrapped(s) ==
    /\ \E o \in Orgs, p \in Persons, w \in Passwords :
         /\ ConsumeBootstrapState(s, o)
         /\ user[p] = 0
         /\ NewUser(p, o, w)
         /\ member' = member \cup {<<made', o>>}
    /\ UNCHANGED <<linkVars, req>>

\* The organization, its invitations, and the users that are at home there.
DeleteOrganizationCascade(o) ==
    /\ \A p \in Persons : ~HeldInvite(o, p)
    /\ DropOrganization(o)
    /\ Gone({u \in Ids : home[u] = o}, {o})
    /\ invite' = [invite EXCEPT ![o] = [p \in Persons |-> 0]]
    /\ UNCHANGED <<home, password, had, made, expired, sent, req>>

\* Mutant: the user's row only.
DeleteUserOnly(p) ==
    /\ Begin
    /\ user[p] # 0
    /\ user' = [user EXCEPT ![p] = 0]
    /\ UNCHANGED <<tokenVars, home, password, had, made, member, invite, reset, expired, sent, req>>

\* The right to erasure.
DeleteUser(p) ==
    /\ Begin
    /\ user[p] # 0
    /\ Gone({user[p]}, {})
    /\ UNCHANGED <<tokenVars, home, password, had, made, invite, expired, sent, req>>
------------------------------------------------------------------------------
(* Invitations *)

\* POST /v1/invitations: not for those whose primary organization it is.
CreateInvitation(r) ==
    /\ Begin
    /\ At(r, "idle")
    /\ \E o \in There, p \in Persons :
         /\ ~AtHome(p, o)
         /\ Become(r, [Idle EXCEPT !.pc = "upsert", !.org = o, !.person = p])
    /\ UNCHANGED <<tokenVars, userVars, linkVars>>

\* A pending invitation gets another link.
UpsertInvitation(r) ==
    /\ At(r, "upsert")
    /\ sent < MaxLinks /\ req[r].org \in There /\ ~HeldInvite(req[r].org, req[r].person)
    /\ sent' = sent + 1
    /\ invite' = [invite EXCEPT ![req[r].org][req[r].person] = sent']
    /\ Finish(r)
    /\ UNCHANGED <<bootVars, userVars, reset, expired>>

RevokePendingInvitation(o, p) ==
    /\ Begin
    /\ invite[o][p] # 0 /\ ~HeldInvite(o, p)
    /\ invite' = [invite EXCEPT ![o][p] = 0]
    /\ UNCHANGED <<tokenVars, userVars, reset, expired, sent, req>>

Expire(l) ==
    /\ Begin
    /\ l <= sent /\ l \notin expired
    /\ expired' = expired \cup {l}
    /\ UNCHANGED <<tokenVars, userVars, invite, reset, sent, req>>

\* status = 'pending' AND expires_at > NOW()
Pending(l, o, p) == l # 0 /\ invite[o][p] = l /\ l \notin expired

\* What a link tells, to the preview and to the request that redeems it.
LookupInvitationByToken(l) ==
    {peek \in [org : Orgs, person : Persons, user : Ids \cup {0}] :
        Pending(l, peek.org, peek.person) /\ peek.user = user[peek.person]}

\* POST /v1/auth/invitations/redeem: an existing user gives its password, a new one chooses.
PeekInvitation(r, l, w) ==
    /\ Begin
    /\ At(r, "idle")
    /\ \E peek \in LookupInvitationByToken(l) :
         /\ peek.user # 0 => Verifies(peek.user, w)
         /\ Become(r, [pc |-> "lock", link |-> l, user |-> peek.user, password |-> w,
                       org |-> peek.org, person |-> peek.person])
    /\ UNCHANGED <<tokenVars, userVars, linkVars>>

\* Mutant: without FOR UPDATE, it waits for nobody and nobody waits.
LockInvitationNot(r) ==
    /\ At(r, "lock")
    /\ IF Pending(req[r].link, req[r].org, req[r].person)
         THEN Become(r, [req[r] EXCEPT !.pc = "user"])
         ELSE Finish(r)
    /\ UNCHANGED <<bootVars, userVars, linkVars>>

LockInvitation(r) ==
    /\ At(r, "lock") /\ ~HeldInvite(req[r].org, req[r].person)
    /\ IF Pending(req[r].link, req[r].org, req[r].person)
         THEN Become(r, [req[r] EXCEPT !.pc = "user"])
         ELSE Finish(r)
    /\ UNCHANGED <<bootVars, userVars, linkVars>>

\* Inserts that are not committed yet.
Inserting(p) == \E r \in Reqs : At(r, "join") /\ req[r].user = 0 /\ req[r].person = p

\* Mutant: the user is the one with the invited address by now.
ResolveUserByEmail(r) ==
    /\ At(r, "user")
    /\ Become(r, [req[r] EXCEPT !.pc = "join", !.user = user[req[r].person]])
    /\ UNCHANGED <<bootVars, userVars, linkVars>>

\* The user whose password was verified is still there, or the address is still free.
ResolveUser(r) ==
    /\ At(r, "user")
    /\ req[r].user = 0 => ~Inserting(req[r].person)
    /\ IF user[req[r].person] = req[r].user
         THEN Become(r, [req[r] EXCEPT !.pc = "join"])
         ELSE Finish(r)
    /\ UNCHANGED <<bootVars, userVars, linkVars>>

\* INSERT INTO memberships, DELETE FROM pending_memberships and the commit.  A member
\* already, or a user that is gone: the transaction fails.
Join(r) ==
    /\ At(r, "join")
    /\ LET q == req[r] IN
         /\ IF q.user = 0
              THEN /\ NewUser(q.person, q.org, q.password)
                   /\ member' = member \cup {<<made', q.org>>}
                   /\ Become(r, [q EXCEPT !.pc = "mint", !.user = made'])
              ELSE /\ Exists(q.user) /\ <<q.user, q.org>> \notin member
                   /\ member' = member \cup {<<q.user, q.org>>}
                   /\ Become(r, [q EXCEPT !.pc = "mint"])
                   /\ UNCHANGED <<user, home, password, had, made>>
         /\ invite' = [invite EXCEPT ![q.org][q.person] = 0]
    /\ UNCHANGED <<bootVars, reset, expired, sent>>
------------------------------------------------------------------------------
(* Passwords *)

\* POST /v1/users/{id}/password-reset, for a member.
IssuePasswordReset(u, o) ==
    /\ Begin
    /\ <<u, o>> \in member /\ sent < MaxLinks
    /\ sent' = sent + 1
    /\ reset' = [reset EXCEPT ![sent'] = [user |-> u, org |-> o]]
    /\ UNCHANGED <<tokenVars, userVars, invite, expired, req>>

\* POST /v1/auth/password-reset/redeem
RedeemPasswordReset(r, l, w) ==
    /\ Begin
    /\ At(r, "idle")
    /\ reset[l] # NoReset
    /\ Become(r, [Idle EXCEPT !.pc = "read", !.link = l, !.password = w])
    /\ UNCHANGED <<tokenVars, userVars, linkVars>>

LockReset(r) ==
    /\ At(r, "read") /\ ~HeldReset(req[r].link)
    /\ IF reset[req[r].link] # NoReset /\ req[r].link \notin expired
         THEN Become(r, [req[r] EXCEPT !.pc = "set", !.user = reset[req[r].link].user])
         ELSE Finish(r)
    /\ UNCHANGED <<bootVars, userVars, linkVars>>

\* The password, redeemed_at and the commit.  (Then RevokeUserSessions: Sessions.)
SetPassword(r) ==
    /\ At(r, "set")
    /\ LET q == req[r] IN
         /\ password' = [password EXCEPT ![q.user] = q.password]
         /\ had' = [had EXCEPT ![q.user] = @ \cup {q.password}]
         /\ reset' = [reset EXCEPT ![q.link] = NoReset]
         /\ Become(r, [q EXCEPT !.pc = "revoke"])
    /\ UNCHANGED <<bootVars, user, home, made, member, invite, expired, sent>>

\* The password is verified as it was read.
Admit(r, u, w, o) ==
    /\ Verifies(u, w)
    /\ Become(r, [Idle EXCEPT !.pc = "mint", !.user = u, !.password = w, !.org = o])
    /\ UNCHANGED <<tokenVars, userVars, linkVars>>

\* POST /v1/auth/login, for the member of one organization.
Login(r, p, w) ==
    /\ Begin
    /\ At(r, "idle")
    /\ LET u == LookupUserByEmail(p) IN \E o \in u.orgs : u.orgs = {o} /\ Admit(r, u.id, w, o)

\* POST /v1/auth/select-org, for the member of several.
SelectOrg(r, p, w) ==
    /\ Begin
    /\ At(r, "idle")
    /\ LET u == LookupUserByEmail(p) IN \E o \in u.orgs : Admit(r, u.id, w, o)

MintSession(r) ==
    /\ At(r, "mint")
    /\ Finish(r)
    /\ UNCHANGED <<bootVars, userVars, linkVars>>

RevokeUserSessions(r) ==
    /\ At(r, "revoke")
    /\ Finish(r)
    /\ UNCHANGED <<bootVars, userVars, linkVars>>

\* An error, a refusal or a client that has gone: the transaction is rolled back.
End(r) ==
    /\ ~At(r, "idle")
    /\ Finish(r)
    /\ UNCHANGED <<bootVars, userVars, linkVars>>

Next ==
    \/ BootStep /\ UNCHANGED credVars
    \/ \E s \in Setups : Bootstrapped(s)
    \/ \E o \in Orgs : DeleteOrganizationCascade(o)
    \/ \E p \in Persons : DeleteUser(p)
    \/ \E o \in Orgs, p \in Persons : RevokePendingInvitation(o, p)
    \/ \E u \in Ids, o \in Orgs : IssuePasswordReset(u, o)
    \/ \E l \in Links : Expire(l)
    \/ \E r \in Reqs :
         \/ CreateInvitation(r) \/ UpsertInvitation(r)
         \/ \E l \in Links, w \in Passwords : PeekInvitation(r, l, w) \/ RedeemPasswordReset(r, l, w)
         \/ LockInvitation(r) \/ ResolveUser(r) \/ Join(r)
         \/ LockReset(r) \/ SetPassword(r)
         \/ \E p \in Persons, w \in Passwords : Login(r, p, w) \/ SelectOrg(r, p, w)
         \/ MintSession(r) \/ RevokeUserSessions(r) \/ End(r)

Spec == Init /\ [][Next]_vars
------------------------------------------------------------------------------
\* A link that still works.
Stands(l) == reset[l] # NoReset \/ \E o \in Orgs, p \in Persons : invite[o][p] = l

Redeems(r) ==
    \/ At(r, "join") /\ req'[r].pc = "mint"
    \/ At(r, "set") /\ req'[r].pc = "revoke"

\* An invitation or a reset is redeemed while its link stands (it was neither replaced nor
\* revoked, redeemed nor deleted with its user or organization since it was read), and the
\* link is dead afterwards.
\* (RedeemNativeInvitation, RedeemPasswordReset: FOR UPDATE)
LinksHonoured ==
    [][\A r \in Reqs : Redeems(r) => Stands(req[r].link) /\ ~Stands(req[r].link)']_vars

\* Who gets a membership or a session has given a password of that very user, even if the
\* user was erased and its address registered again meanwhile.
\* (redeemInvitation: ExistingUserID; login)
Proved == \A r \in Reqs : At(r, "mint") => req[r].password \in had[req[r].user]
==============================================================================
