-------------------------- MODULE CredentialsProofs --------------------------
(***************************************************************************)
(* Types, FoundedAlone, Proved and LinksHonoured of Credentials with       *)
(* Bootstrap, for any number of replicas, setups, organizations, persons,  *)
(* passwords, requests and links.                                          *)
(***************************************************************************)
EXTENDS Credentials, TLAPS

\* A setup in flight has presented a token.
Armed == \A s \in Setups : setup[s].pc # "idle" => setup[s].token # NoToken

BInv == BootTypeOK /\ Sealed /\ OneHolder /\ Armed

\* No id is used before its user is made, and a reset is somebody's.
Numbered ==
    /\ \A p \in Persons : user[p] <= made
    /\ \A l \in Links : reset[l].user <= made /\ (reset[l] # NoReset => reset[l].user # 0)
    /\ \A r \in Reqs : req[r].user <= made

\* What a request q in flight can rely on.  The password it verified was its user's, and is
\* one the user has had.  A locked invitation keeps its organization, and the address of a
\* user about to be inserted is free.
Sound(q) ==
    /\ q.pc \in {"lock", "user", "join"} =>
         /\ q.org \in Orgs /\ q.person \in Persons /\ q.password \in Passwords
         /\ q.user # 0 => q.password \in had[q.user]
    /\ q.pc \in {"user", "join"} => q.org \in There
    /\ q.pc = "join" /\ q.user = 0 => user[q.person] = 0
    /\ q.pc \in {"read", "set"} => q.link \in Links /\ q.password \in Passwords
    /\ q.pc = "mint" => q.user # 0 /\ q.password \in had[q.user]

\* Of two requests only one inserts a user with an address.
Apart(p, q) ==
    ~(p.pc = "join" /\ q.pc = "join" /\ p.user = 0 /\ q.user = 0 /\ p.person = q.person)

Remembered == \A u \in Ids : password[u] \in Passwords => password[u] \in had[u]

------------------------------------------------------------------------------
(* The bootstrap, of which Credentials takes every step. *)

LEMMA TokensTyped ==
    /\ NoToken \notin Tokens /\ 0 \in Token /\ NoToken \in Token
    /\ \A n \in 0 .. MaxStarts : n + 1 <= MaxStarts => n + 1 \in Token
BY BootstrapAssumption DEF BootstrapAssumption, Tokens, NoToken, Token

LEMMA BootInitial == BootInit => BInv
<1> SUFFICES ASSUME BootInit PROVE BInv
  OBVIOUS
<1>1. BootTypeOK
  BY BootstrapAssumption, TokensTyped
  DEF BootstrapAssumption, BootInit, BootTypeOK, ReplicaType, SetupType, Down, NoSetup
<1>2. Sealed /\ OneHolder /\ Armed
  BY DEF BootInit, Sealed, OneHolder, Armed, Available, Down, NoSetup
<1> QED BY <1>1, <1>2 DEF BInv

\* The steps of a replica and of a setup before the organization is made.
LEMMA BootTypes == ASSUME BootTypeOK, BootStep PROVE BootTypeOK'
<1> USE BootstrapAssumption DEF BootstrapAssumption, BootTypeOK, Begin, ReplicaType, SetupType
<1>1. ASSUME NEW r \in Replicas, Start(r) PROVE BootTypeOK'
  <2>1. PICK t \in {0, starts + 1} :
           replica' = [replica EXCEPT ![r] = [pc |-> "count", token |-> t]]
    BY <1>1 DEF Start
  <2>0. starts \in 0 .. MaxStarts /\ starts + 1 <= MaxStarts /\ starts' = starts + 1
    BY <1>1 DEF Start
  <2>2. t \in Token /\ starts' \in 0 .. MaxStarts
    <3>1. starts + 1 \in Token /\ 0 \in Token
      BY <2>0, TokensTyped
    <3>2. starts' \in 0 .. MaxStarts
      BY <2>0
    <3> QED BY <2>1, <3>1, <3>2
  <2>3. replica' \in [Replicas -> ReplicaType]
    BY <2>1, <2>2
  <2> QED BY <1>1, <2>2, <2>3 DEF Start
<1>2. ASSUME NEW r \in Replicas, CountOrganizations(r) \/ LockBootstrap(r) \/ Recount(r)
                                 \/ StartFails(r)
      PROVE BootTypeOK'
  BY <1>2, TokensTyped DEF CountOrganizations, LockBootstrap, Recount, StartFails, Goto, Serves
<1>3. ASSUME NEW r \in Replicas, CreateBootstrapState(r) \/ ShowToken(r) PROVE BootTypeOK'
  <2>1. replica' \in [Replicas -> ReplicaType]
    BY <1>3, TokensTyped DEF CreateBootstrapState, ShowToken, Goto, Serves
  <2>2. replica[r].token \in Token
    OBVIOUS
  <2>3. row' \in Token /\ file' \in [Replicas -> Token]
    BY <1>3, <2>2 DEF CreateBootstrapState, ShowToken
  <2> QED BY <1>3, <2>1, <2>3 DEF CreateBootstrapState, ShowToken
<1>4. ASSUME NEW r \in Replicas, Crash(r) PROVE BootTypeOK'
  BY <1>4, TokensTyped DEF Crash, Down, NoSetup
<1>5. ASSUME NEW r \in Replicas, NEW s \in Setups, Present(s, r) PROVE BootTypeOK'
  BY <1>5, TokensTyped DEF Present
<1>6. ASSUME NEW s \in Setups, LockState(s) \/ RemoveInstallTokenFile(s) \/ GiveUp(s)
      PROVE BootTypeOK'
  BY <1>6, TokensTyped DEF LockState, RemoveInstallTokenFile, GiveUp, NoSetup
<1> QED BY <1>1, <1>2, <1>3, <1>4, <1>5, <1>6 DEF BootStep

LEMMA BootSteps == ASSUME BInv, BootStep PROVE BInv'
<1> USE DEF BInv
<1>0. BootTypeOK'
  BY BootTypes
<1> SUFFICES Sealed' /\ OneHolder' /\ Armed'
  BY <1>0
<1> USE DEF BootTypeOK, ReplicaType, SetupType, Sealed, OneHolder, Armed, Available
<1>1. ASSUME NEW r \in Replicas, Start(r) \/ CountOrganizations(r) \/ StartFails(r)
      PROVE Sealed' /\ OneHolder' /\ Armed'
  BY <1>1 DEF Start, CountOrganizations, StartFails, Goto, Serves, There
<1>2. ASSUME NEW r \in Replicas, LockBootstrap(r) PROVE Sealed' /\ OneHolder' /\ Armed'
  <2>1. Sealed' /\ Armed'
    BY <1>2 DEF LockBootstrap, Goto, There
  <2>2. /\ \A q \in Replicas : replica[q].pc \notin {"recount", "insert"}
        /\ \A s \in Setups : setup[s].pc # "found"
    BY <1>2 DEF LockBootstrap, Locked
  <2>3. /\ setup' = setup
        /\ \A q \in Replicas : q # r => replica'[q] = replica[q]
    BY <1>2 DEF LockBootstrap, Goto
  <2> QED BY <2>1, <2>2, <2>3
<1>3. ASSUME NEW r \in Replicas, Recount(r) PROVE Sealed' /\ OneHolder' /\ Armed'
  <2>1. /\ row' = row /\ There' = There /\ setup' = setup
        /\ \A q \in Replicas : q # r => replica'[q].pc = replica[q].pc
        /\ replica[r].pc = "recount"
        /\ replica'[r].pc = "insert" => There = {}
    BY <1>3 DEF Recount, Goto, Serves, There
  <2>2. Sealed'
    BY <2>1
  <2>3. OneHolder' /\ Armed'
    BY <2>1
  <2> QED BY <2>2, <2>3
<1>4. ASSUME NEW r \in Replicas, CreateBootstrapState(r) \/ ShowToken(r)
      PROVE Sealed' /\ OneHolder' /\ Armed'
  BY <1>4 DEF CreateBootstrapState, ShowToken, Goto, Serves, There
<1>5. ASSUME NEW r \in Replicas, Crash(r) PROVE Sealed' /\ OneHolder' /\ Armed'
  <2>1. /\ row' = row /\ There' = There
        /\ \A q \in Replicas : replica'[q].pc = "down" \/ replica'[q] = replica[q]
        /\ \A s \in Setups : setup'[s].pc = "idle" \/ setup'[s] = setup[s]
    BY <1>5 DEF Crash, Down, NoSetup, There
  <2>2. /\ \A q \in Replicas : replica'[q].pc # "down" => replica'[q].pc = replica[q].pc
        /\ \A s \in Setups : setup'[s].pc # "idle" => /\ setup'[s].pc = setup[s].pc
                                                       /\ setup'[s].token = setup[s].token
    BY <2>1
  <2>3. Sealed'
    BY <2>1, <2>2
  <2>4. OneHolder'
    BY <2>2
  <2>5. Armed'
    BY <2>2
  <2> QED BY <2>3, <2>4, <2>5
<1>6. ASSUME NEW r \in Replicas, NEW s \in Setups, Present(s, r)
      PROVE Sealed' /\ OneHolder' /\ Armed'
  BY <1>6 DEF Present, There
<1>7. ASSUME NEW s \in Setups, LockState(s) PROVE Sealed' /\ OneHolder' /\ Armed'
  <2>1. /\ \A q \in Replicas : replica[q].pc \notin {"recount", "insert"}
        /\ \A t \in Setups : setup[t].pc # "found"
    BY <1>7 DEF LockState, Locked
  <2>2. /\ replica' = replica /\ row' = row /\ There' = There
        /\ \A t \in Setups : t # s => setup'[t] = setup[t]
        /\ setup'[s].pc = "found" => row = setup[s].token /\ row # NoToken
        /\ setup'[s].pc # "idle" => setup'[s].token # NoToken
    BY <1>7 DEF LockState, NoSetup, There
  <2> QED BY <2>1, <2>2
<1>8. ASSUME NEW s \in Setups, RemoveInstallTokenFile(s) \/ GiveUp(s)
      PROVE Sealed' /\ OneHolder' /\ Armed'
  <2>1. /\ row' = row /\ There' = There /\ replica' = replica
        /\ \A t \in Setups : setup'[t].pc # "idle" => setup'[t] = setup[t]
    BY <1>8 DEF RemoveInstallTokenFile, GiveUp, NoSetup, There
  <2>2. Sealed' /\ Armed'
    BY <2>1
  <2>3. OneHolder'
    BY <2>1
  <2> QED BY <2>2, <2>3
<1> QED BY <1>1, <1>2, <1>3, <1>4, <1>5, <1>6, <1>7, <1>8 DEF BootStep

\* The first organization: the one holder of the lock is the setup that makes it.
LEMMA ConsumeStep ==
    ASSUME BInv, NEW s \in Setups, NEW o \in Orgs, ConsumeBootstrapState(s, o) PROVE BInv'
<1> USE DEF BInv, BootTypeOK, ReplicaType, SetupType, ConsumeBootstrapState
<1>1. BootTypeOK'
  BY TokensTyped
<1>2. Sealed'
  BY DEF Sealed, OneHolder, Available, There
<1>3. /\ replica' = replica
      /\ \A t \in Setups : setup'[t].pc = "found" => setup[t].pc = "found"
      /\ \A t \in Setups : setup[t].pc # "idle" => setup[t].token # NoToken
      /\ \A t \in Setups : setup'[t].token = setup[t].token
      /\ \A t \in Setups : setup'[t].pc # "idle" => setup[t].pc # "idle"
  BY DEF Armed
<1>4. OneHolder'
  BY <1>3 DEF OneHolder
<1>5. Armed'
  BY <1>3 DEF Armed
<1> QED BY <1>1, <1>2, <1>4, <1>5

LEMMA DropStep == ASSUME BInv, NEW o \in Orgs, DropOrganization(o) PROVE BInv'
<1> USE DEF BInv, BootTypeOK, DropOrganization, Begin
<1>1. BootTypeOK'
  BY BootstrapAssumption DEF BootstrapAssumption
<1>2. Sealed' /\ OneHolder' /\ Armed'
  BY DEF Sealed, OneHolder, Armed, Available, There
<1> QED BY <1>1, <1>2

\* All other steps leave the bootstrap alone, but for the count of operations.
LEMMA OtherStep ==
    ASSUME BInv, UNCHANGED tokenVars, Begin \/ UNCHANGED ops PROVE BInv'
BY BootstrapAssumption
DEF BootstrapAssumption, BInv, BootTypeOK, Begin, tokenVars, Sealed, OneHolder, Armed,
    Available, There

\* The kinds of steps, as the bootstrap sees them.
Aside == UNCHANGED tokenVars /\ (Begin \/ UNCHANGED ops)

LEMMA StepKinds ==
    ASSUME [Next]_vars
    PROVE  \/ BootStep
           \/ \E s \in Setups : Bootstrapped(s)
           \/ \E o \in Orgs : DeleteOrganizationCascade(o)
           \/ Aside
<1> USE DEF Aside, tokenVars, bootVars
<1>1. ASSUME NEW p \in Persons, DeleteUser(p) PROVE Aside
  BY <1>1 DEF DeleteUser
<1>2. ASSUME NEW o \in Orgs, NEW p \in Persons, RevokePendingInvitation(o, p) PROVE Aside
  BY <1>2 DEF RevokePendingInvitation
<1>3. ASSUME NEW u \in Ids, NEW o \in Orgs, IssuePasswordReset(u, o) PROVE Aside
  BY <1>3 DEF IssuePasswordReset
<1>4. ASSUME NEW l \in Links, Expire(l) PROVE Aside
  BY <1>4 DEF Expire
<1>5. ASSUME NEW r \in Reqs, CreateInvitation(r) \/ UpsertInvitation(r) PROVE Aside
  BY <1>5 DEF CreateInvitation, UpsertInvitation
<1>6. ASSUME NEW r \in Reqs, NEW l \in Links, NEW w \in Passwords,
             PeekInvitation(r, l, w) \/ RedeemPasswordReset(r, l, w)
      PROVE Aside
  BY <1>6 DEF PeekInvitation, RedeemPasswordReset
<1>7. ASSUME NEW r \in Reqs, LockInvitation(r) \/ ResolveUser(r) \/ Join(r) PROVE Aside
  BY <1>7 DEF LockInvitation, ResolveUser, Join
<1>8. ASSUME NEW r \in Reqs, LockReset(r) \/ SetPassword(r) PROVE Aside
  BY <1>8 DEF LockReset, SetPassword
<1>9. ASSUME NEW r \in Reqs, NEW p \in Persons, NEW w \in Passwords,
             Login(r, p, w) \/ SelectOrg(r, p, w)
      PROVE Aside
  BY <1>9 DEF Login, SelectOrg, Admit
<1>10. ASSUME NEW r \in Reqs, MintSession(r) \/ RevokeUserSessions(r) \/ End(r) PROVE Aside
  BY <1>10 DEF MintSession, RevokeUserSessions, End
<1>11. CASE UNCHANGED vars
  BY <1>11 DEF vars
<1> QED BY <1>1, <1>2, <1>3, <1>4, <1>5, <1>6, <1>7, <1>8, <1>9, <1>10, <1>11 DEF Next

LEMMA BootNext == BInv /\ [Next]_vars => BInv'
<1> SUFFICES ASSUME BInv, [Next]_vars PROVE BInv'
  OBVIOUS
<1>1. CASE BootStep
  BY <1>1, BootSteps
<1>2. ASSUME NEW s \in Setups, Bootstrapped(s) PROVE BInv'
  BY <1>2, ConsumeStep DEF Bootstrapped
<1>3. ASSUME NEW o \in Orgs, DeleteOrganizationCascade(o) PROVE BInv'
  BY <1>3, DropStep DEF DeleteOrganizationCascade
<1>4. CASE Aside
  BY <1>4, OtherStep DEF Aside
<1> QED BY <1>1, <1>2, <1>3, <1>4, StepKinds

\* Where an organization comes from.
LEMMA FoundingStep ==
    ASSUME BInv, [Next]_vars, NEW o \in Orgs, org[o] = "none", org'[o] = "there"
    PROVE  There = {}
<1>1. CASE BootStep
  BY <1>1 DEF BootStep, Start, CountOrganizations, LockBootstrap, Recount,
     CreateBootstrapState, ShowToken, StartFails, Crash, Present, LockState,
     RemoveInstallTokenFile, GiveUp
<1>2. ASSUME NEW s \in Setups, Bootstrapped(s) PROVE There = {}
  BY <1>2 DEF Bootstrapped, ConsumeBootstrapState, BInv, Sealed
<1>3. ASSUME NEW q \in Orgs, DeleteOrganizationCascade(q) PROVE FALSE
  BY <1>3 DEF DeleteOrganizationCascade, DropOrganization, BInv, BootTypeOK
<1>4. CASE Aside
  BY <1>4 DEF Aside, tokenVars
<1> QED BY <1>1, <1>2, <1>3, <1>4, StepKinds

\* A property of Credentials: organizations are founded when there is none.
\* (ConsumeBootstrapState, CreateBootstrapState)
THEOREM OnlyFoundedAlone == Spec => FoundedAlone
<1>1. Init => BInv
  BY BootInitial DEF Init
<1>2. BInv /\ [Next]_vars => BInv'
  BY BootNext
<1>3. BInv /\ [Next]_vars =>
        [\A o \in Orgs : org[o] = "none" /\ org'[o] = "there" => There = {}]_bootVars
  BY FoundingStep
<1> QED BY <1>1, <1>2, <1>3, PTL DEF Spec, FoundedAlone
------------------------------------------------------------------------------
(* The requests.  A step makes one request r into q, or changes the tables. *)

Sounds == \A r \in Reqs : Sound(req[r])
Aparts == \A r, q \in Reqs : r # q => Apart(req[r], req[q])
CInv == TypeOK /\ Numbered /\ Remembered /\ Sounds /\ Aparts

LEMMA IdleFits == Idle \in ReqType /\ Sound(Idle) /\ Idle.user = 0 /\ Idle.pc = "idle"
BY DEF Idle, ReqType, Sound

\* A step of request r that leaves the tables alone.
LEMMA RequestStep ==
    ASSUME BInv', CInv, org' = org, UNCHANGED <<userVars, linkVars>>,
           NEW r \in Reqs, NEW q \in ReqType, Become(r, q),
           Sound(q), q.user <= made, \A t \in Reqs : t # r => Apart(q, req[t])
    PROVE  CInv'
<1> USE DEF CInv, userVars, linkVars
<1>1. /\ req' = [req EXCEPT ![r] = q] /\ req \in [Reqs -> ReqType]
      /\ There' = There
  BY DEF Become, TypeOK, There
<1>2. /\ req' \in [Reqs -> ReqType] /\ req'[r] = q
      /\ \A t \in Reqs : t # r => req'[t] = req[t]
  BY <1>1
<1>3. TypeOK'
  BY <1>1, <1>2 DEF TypeOK, BInv, Exists
<1>4. Numbered' /\ Remembered'
  BY <1>2 DEF Numbered, Remembered
<1>5. \A t \in Reqs : Sound(req'[t])
  BY <1>2 DEF Sounds
<1>6. Sounds'
  BY <1>1, <1>5 DEF Sounds, Sound
<1>7. Aparts'
  BY <1>2 DEF Aparts, Apart
<1> QED BY <1>3, <1>4, <1>6, <1>7

LEMMA FinishStep ==
    ASSUME BInv', CInv, org' = org, UNCHANGED <<userVars, linkVars>>, NEW r \in Reqs, Finish(r)
    PROVE  CInv'
<1>1. \A t \in Reqs : Apart(Idle, req[t])
  BY IdleFits DEF Apart
<1>2. Idle.user <= made
  BY IdleFits, CredentialsAssumption DEF CInv, TypeOK, CredentialsAssumption
<1> QED BY <1>1, <1>2, IdleFits, RequestStep DEF Finish

\* What a request takes from the tables as they are.
LEMMA Taken ==
    ASSUME CInv
    PROVE  /\ \A p \in Persons : user[p] \in Ids \cup {0} /\ user[p] <= made
           /\ \A p \in Persons, w \in Passwords : Verifies(user[p], w) => w \in had[user[p]]
           /\ \A o \in Orgs, p \in Persons : invite[o][p] # 0 => o \in There
           /\ \A r \in Reqs : req[r] \in ReqType /\ req[r].user <= made /\ Sound(req[r])
           /\ made \in Nat /\ 0 <= made
<1> USE DEF CInv
<1>1. \A p \in Persons : user[p] \in Ids \cup {0} /\ user[p] <= made
  BY DEF TypeOK, Numbered
<1>2. \A p \in Persons, w \in Passwords : Verifies(user[p], w) => w \in had[user[p]]
  BY <1>1 DEF Verifies, Remembered
<1>3. \A o \in Orgs, p \in Persons : invite[o][p] # 0 => o \in There
  BY DEF TypeOK
<1>4. \A r \in Reqs : req[r] \in ReqType /\ req[r].user <= made /\ Sound(req[r])
  BY DEF TypeOK, Numbered, Sounds
<1>5. made \in Nat /\ 0 <= made
  BY CredentialsAssumption DEF TypeOK, CredentialsAssumption
<1> QED BY <1>1, <1>2, <1>3, <1>4, <1>5

LEMMA CreateInvitationStep ==
    ASSUME BInv', CInv, NEW r \in Reqs, CreateInvitation(r) PROVE CInv'
<1>1. PICK o \in There, p \in Persons :
        Become(r, [Idle EXCEPT !.pc = "upsert", !.org = o, !.person = p])
  BY DEF CreateInvitation
<1> DEFINE q == [Idle EXCEPT !.pc = "upsert", !.org = o, !.person = p]
<1>2. q \in ReqType /\ q.user = 0 /\ q.pc = "upsert"
  BY DEF Idle, ReqType, There
<1>3. Sound(q) /\ \A t \in Reqs : Apart(q, req[t])
  BY <1>2 DEF Sound, Apart
<1>4. q.user <= made
  BY <1>2, Taken
<1>5. org' = org /\ UNCHANGED <<userVars, linkVars>> /\ Become(r, q)
  BY <1>1 DEF CreateInvitation, tokenVars
<1> HIDE DEF q
<1> QED BY <1>2, <1>3, <1>4, <1>5, RequestStep

LEMMA PeekStep ==
    ASSUME BInv', CInv, NEW r \in Reqs, NEW l \in Links, NEW w \in Passwords,
           PeekInvitation(r, l, w)
    PROVE  CInv'
<1>1. PICK peek \in LookupInvitationByToken(l) :
        /\ peek.user # 0 => Verifies(peek.user, w)
        /\ Become(r, [pc |-> "lock", link |-> l, user |-> peek.user, password |-> w,
                      org |-> peek.org, person |-> peek.person])
  BY DEF PeekInvitation
<1> DEFINE q == [pc |-> "lock", link |-> l, user |-> peek.user, password |-> w,
                 org |-> peek.org, person |-> peek.person]
<1>2. /\ peek.org \in Orgs /\ peek.person \in Persons /\ peek.user \in Ids \cup {0}
      /\ peek.user = user[peek.person]
  BY DEF LookupInvitationByToken
<1>3. /\ q \in ReqType /\ q.pc = "lock" /\ q.user = peek.user /\ q.password = w
      /\ q.org = peek.org /\ q.person = peek.person
  BY <1>2 DEF ReqType
<1>4. q.user # 0 => q.password \in had[q.user]
  BY <1>1, <1>2, <1>3, Taken
<1>5. Sound(q) /\ \A t \in Reqs : Apart(q, req[t])
  BY <1>2, <1>3, <1>4 DEF Sound, Apart
<1>6. q.user <= made
  BY <1>2, <1>3, Taken
<1>7. org' = org /\ UNCHANGED <<userVars, linkVars>> /\ Become(r, q)
  BY <1>1 DEF PeekInvitation, tokenVars
<1> HIDE DEF q
<1> QED BY <1>3, <1>5, <1>6, <1>7, RequestStep

LEMMA LockInvitationStep ==
    ASSUME BInv', CInv, NEW r \in Reqs, LockInvitation(r) PROVE CInv'
<1>1. org' = org /\ UNCHANGED <<userVars, linkVars>>
  BY DEF LockInvitation, bootVars
<1>2. CASE Finish(r)
  BY <1>1, <1>2, FinishStep
<1>3. CASE /\ Pending(req[r].link, req[r].org, req[r].person)
           /\ Become(r, [req[r] EXCEPT !.pc = "user"])
  <2> DEFINE q == [req[r] EXCEPT !.pc = "user"]
  <2>1. req[r] \in ReqType /\ req[r].user <= made /\ Sound(req[r]) /\ req[r].pc = "lock"
    BY Taken DEF LockInvitation, At
  <2>2. /\ q \in ReqType /\ q.pc = "user" /\ q.user = req[r].user /\ q.link = req[r].link
        /\ q.password = req[r].password /\ q.org = req[r].org /\ q.person = req[r].person
    BY <2>1 DEF ReqType
  <2>3. q.org \in Orgs /\ q.person \in Persons
    BY <2>1, <2>2 DEF Sound
  <2>4. q.org \in There
    BY <1>3, <2>2, <2>3, Taken DEF Pending
  <2>5. Sound(q) /\ \A t \in Reqs : Apart(q, req[t])
    BY <2>1, <2>2, <2>4 DEF Sound, Apart
  <2>6. q.user <= made /\ Become(r, q)
    BY <1>3, <2>1, <2>2
  <2> HIDE DEF q
  <2> QED BY <1>1, <2>2, <2>5, <2>6, RequestStep
<1> QED BY <1>2, <1>3 DEF LockInvitation

LEMMA ResolveUserStep ==
    ASSUME BInv', CInv, NEW r \in Reqs, ResolveUser(r) PROVE CInv'
<1>1. org' = org /\ UNCHANGED <<userVars, linkVars>>
  BY DEF ResolveUser, bootVars
<1>2. CASE Finish(r)
  BY <1>1, <1>2, FinishStep
<1>3. CASE /\ user[req[r].person] = req[r].user
           /\ Become(r, [req[r] EXCEPT !.pc = "join"])
  <2> DEFINE q == [req[r] EXCEPT !.pc = "join"]
  <2>1. req[r] \in ReqType /\ req[r].user <= made /\ Sound(req[r]) /\ req[r].pc = "user"
    BY Taken DEF ResolveUser, At
  <2>2. /\ q \in ReqType /\ q.pc = "join" /\ q.user = req[r].user /\ q.link = req[r].link
        /\ q.password = req[r].password /\ q.org = req[r].org /\ q.person = req[r].person
    BY <2>1 DEF ReqType
  <2>3. Sound(q)
    BY <1>3, <2>1, <2>2 DEF Sound
  <2>4. \A t \in Reqs : t # r => Apart(q, req[t])
    BY <2>2 DEF ResolveUser, Inserting, At, Apart
  <2>5. q.user <= made /\ Become(r, q)
    BY <1>3, <2>1, <2>2
  <2> HIDE DEF q
  <2> QED BY <1>1, <2>2, <2>3, <2>4, <2>5, RequestStep
<1> QED BY <1>2, <1>3 DEF ResolveUser

LEMMA RedeemResetStep ==
    ASSUME BInv', CInv, NEW r \in Reqs, NEW l \in Links, NEW w \in Passwords,
           RedeemPasswordReset(r, l, w)
    PROVE  CInv'
<1> DEFINE q == [Idle EXCEPT !.pc = "read", !.link = l, !.password = w]
<1>1. q \in ReqType /\ q.user = 0 /\ q.pc = "read" /\ q.link = l /\ q.password = w
  BY DEF Idle, ReqType
<1>2. Sound(q) /\ \A t \in Reqs : Apart(q, req[t])
  BY <1>1 DEF Sound, Apart
<1>3. q.user <= made
  BY <1>1, Taken
<1>4. org' = org /\ UNCHANGED <<userVars, linkVars>> /\ Become(r, q)
  BY DEF RedeemPasswordReset, tokenVars
<1> HIDE DEF q
<1> QED BY <1>1, <1>2, <1>3, <1>4, RequestStep

LEMMA LockResetStep ==
    ASSUME BInv', CInv, NEW r \in Reqs, LockReset(r) PROVE CInv'
<1>1. org' = org /\ UNCHANGED <<userVars, linkVars>>
  BY DEF LockReset, bootVars
<1>2. CASE Finish(r)
  BY <1>1, <1>2, FinishStep
<1>3. CASE Become(r, [req[r] EXCEPT !.pc = "set", !.user = reset[req[r].link].user])
  <2> DEFINE q == [req[r] EXCEPT !.pc = "set", !.user = reset[req[r].link].user]
  <2>1. req[r] \in ReqType /\ Sound(req[r]) /\ req[r].pc = "read"
    BY Taken DEF LockReset, At
  <2>2. req[r].link \in Links /\ req[r].password \in Passwords
    BY <2>1 DEF Sound
  <2>3. reset[req[r].link].user \in Ids \cup {0} /\ reset[req[r].link].user <= made
    BY <2>2 DEF CInv, TypeOK, Numbered
  <2>4. /\ q \in ReqType /\ q.pc = "set" /\ q.user <= made
        /\ q.link = req[r].link /\ q.password = req[r].password
    BY <2>1, <2>3 DEF ReqType
  <2>5. Sound(q) /\ \A t \in Reqs : Apart(q, req[t])
    BY <2>2, <2>4 DEF Sound, Apart
  <2>6. Become(r, q)
    BY <1>3
  <2> HIDE DEF q
  <2> QED BY <1>1, <2>4, <2>5, <2>6, RequestStep
<1> QED BY <1>2, <1>3 DEF LockReset

\* Both ways to log in.
LEMMA AdmitStep ==
    ASSUME BInv', CInv, NEW r \in Reqs, NEW p \in Persons, NEW w \in Passwords, NEW o \in Orgs,
           Admit(r, user[p], w, o)
    PROVE  CInv'
<1> DEFINE q == [Idle EXCEPT !.pc = "mint", !.user = user[p], !.password = w, !.org = o]
<1>1. /\ q \in ReqType /\ q.user = user[p] /\ q.pc = "mint" /\ q.password = w
      /\ user[p] <= made
  BY Taken DEF Idle, ReqType
<1>2. user[p] # 0 /\ w \in had[user[p]]
  BY Taken DEF Admit, Verifies
<1>3. Sound(q) /\ \A t \in Reqs : Apart(q, req[t])
  BY <1>1, <1>2 DEF Sound, Apart
<1>4. org' = org /\ UNCHANGED <<userVars, linkVars>> /\ Become(r, q)
  BY DEF Admit, tokenVars
<1> HIDE DEF q
<1> QED BY <1>1, <1>3, <1>4, RequestStep
------------------------------------------------------------------------------
(* The tables of links. *)

LEMMA LinksStep ==
    ASSUME CInv, TypeOK', org' = org, UNCHANGED userVars,
           \A l \in Links : reset'[l].user <= made /\ (reset'[l] # NoReset => reset'[l].user # 0),
           \A t \in Reqs : req'[t] \in {req[t], Idle}
    PROVE  CInv'
<1> USE DEF CInv, userVars
<1>1. Numbered' /\ Remembered'
  <2>1. \A t \in Reqs : req'[t].user <= made
    BY IdleFits, Taken DEF Numbered
  <2> QED BY <2>1 DEF Numbered, Remembered
<1>2. Sounds'
  <2>1. There' = There
    BY DEF There
  <2>2. \A t \in Reqs : Sound(req'[t])
    BY IdleFits DEF Sounds
  <2> QED BY <2>1, <2>2 DEF Sounds, Sound
<1>3. Aparts'
  BY IdleFits DEF Aparts, Apart
<1> QED BY <1>1, <1>2, <1>3

LEMMA UpsertStep ==
    ASSUME BInv', CInv, NEW r \in Reqs, UpsertInvitation(r) PROVE CInv'
<1> USE DEF UpsertInvitation, bootVars, userVars
<1>1. req[r] \in ReqType /\ req[r].org \in There
  BY Taken
<1>2. sent' \in Links /\ sent' \in 0 .. MaxLinks
  BY CredentialsAssumption DEF CredentialsAssumption, CInv, TypeOK, Links
<1>3. There' = There
  BY DEF There
<1>4. invite' \in [Orgs -> [Persons -> Links \cup {0}]]
  BY <1>2 DEF CInv, TypeOK
<1>5. \A o \in Orgs, p \in Persons : invite'[o][p] # 0 => o \in There
  BY <1>1 DEF CInv, TypeOK
<1>6. req' \in [Reqs -> ReqType] /\ \A t \in Reqs : req'[t] \in {req[t], Idle}
  BY IdleFits DEF Finish, Become, CInv, TypeOK
<1>7. TypeOK'
  BY <1>2, <1>3, <1>4, <1>5, <1>6 DEF CInv, TypeOK, BInv, Exists
<1>8. \A l \in Links : reset'[l].user <= made /\ (reset'[l] # NoReset => reset'[l].user # 0)
  BY DEF CInv, Numbered
<1> QED BY <1>6, <1>7, <1>8, LinksStep

LEMMA RevokeStep ==
    ASSUME BInv', CInv, NEW o \in Orgs, NEW p \in Persons, RevokePendingInvitation(o, p)
    PROVE  CInv'
<1> USE DEF RevokePendingInvitation, tokenVars, userVars
<1>1. There' = There
  BY DEF There
<1>2. /\ invite' \in [Orgs -> [Persons -> Links \cup {0}]]
      /\ \A q \in Orgs, t \in Persons : invite'[q][t] # 0 => q \in There
  BY DEF CInv, TypeOK
<1>3. TypeOK'
  BY <1>1, <1>2 DEF CInv, TypeOK, BInv, Exists
<1> QED BY <1>3, LinksStep DEF CInv, Numbered

LEMMA ExpireStep ==
    ASSUME BInv', CInv, NEW l \in Links, Expire(l) PROVE CInv'
<1> USE DEF Expire, tokenVars, userVars
<1>1. TypeOK'
  BY DEF CInv, TypeOK, BInv, Exists, There
<1> QED BY <1>1, LinksStep DEF CInv, Numbered

LEMMA IssueStep ==
    ASSUME BInv', CInv, NEW u \in Ids, NEW o \in Orgs, IssuePasswordReset(u, o) PROVE CInv'
<1> USE DEF IssuePasswordReset, tokenVars, userVars
<1>1. sent' \in Links /\ sent' \in 0 .. MaxLinks
  BY CredentialsAssumption DEF CredentialsAssumption, CInv, TypeOK, Links
<1>2. Exists(u) /\ o \in There
  BY DEF CInv, TypeOK
<1>3. u <= made /\ u # 0
  BY <1>2 DEF Exists, CInv, Numbered, Ids
<1>4. There' = There
  BY DEF There
<1>5. reset' = [reset EXCEPT ![sent'] = [user |-> u, org |-> o]]
  OBVIOUS
<1>6. /\ reset' \in [Links -> [user : Ids \cup {0}, org : Orgs \cup {NoOrg}]]
      /\ \A l \in Links : reset'[l] # NoReset => Exists(reset'[l].user) /\ reset'[l].org \in There
      /\ \A l \in Links : reset'[l].user <= made /\ (reset'[l] # NoReset => reset'[l].user # 0)
  BY <1>1, <1>2, <1>3, <1>5 DEF CInv, TypeOK, Numbered
<1>7. TypeOK'
  BY <1>1, <1>4, <1>6 DEF CInv, TypeOK, BInv, Exists
<1> QED BY <1>6, <1>7, LinksStep
------------------------------------------------------------------------------
(* The tables of users. *)

LEMMA SetPasswordStep ==
    ASSUME BInv', CInv, NEW r \in Reqs, SetPassword(r) PROVE CInv'
<1> USE DEF SetPassword, bootVars
<1> DEFINE q == req[r]
           n == [q EXCEPT !.pc = "revoke"]
<1>1. /\ q \in ReqType /\ q.user <= made /\ q.link \in Links /\ q.password \in Passwords
  BY Taken DEF Sound, At
<1>2. /\ n \in ReqType /\ n.pc = "revoke" /\ n.user = q.user
  BY <1>1 DEF ReqType
<1>3. /\ req' \in [Reqs -> ReqType] /\ req'[r] = n
      /\ \A t \in Reqs : t # r => req'[t] = req[t]
  BY <1>2 DEF Become, CInv, TypeOK
<1>4. There' = There
  BY DEF There
<1>5. /\ password' \in [Ids -> Passwords \cup {NoPassword}] /\ had' \in [Ids -> SUBSET Passwords]
      /\ \A u \in Ids : had[u] \subseteq had'[u]
      /\ \A u \in Ids : password'[u] = password[u] \/ password'[u] \in had'[u]
  BY <1>1 DEF CInv, TypeOK
<1>6. /\ reset' \in [Links -> [user : Ids \cup {0}, org : Orgs \cup {NoOrg}]]
      /\ \A l \in Links : reset'[l] = reset[l] \/ reset'[l] = NoReset
  BY DEF CInv, TypeOK, NoReset
<1>7. TypeOK'
  BY <1>3, <1>4, <1>5, <1>6 DEF CInv, TypeOK, BInv, Exists
<1>8. Numbered'
  BY <1>1, <1>2, <1>3, <1>6, Taken DEF CInv, Numbered, NoReset
<1>9. Remembered'
  BY <1>5 DEF CInv, Remembered
<1>10. Sounds'
  <2>1. SUFFICES ASSUME NEW t \in Reqs PROVE Sound(req[t])'
    BY DEF Sounds
  <2>2. CASE t = r
    BY <1>2, <1>3, <2>2 DEF Sound
  <2>3. CASE t # r
    BY <1>3, <1>4, <1>5, <2>3, Taken DEF Sound, ReqType
  <2> QED BY <2>2, <2>3
<1>11. Aparts'
  <2>1. \A t \in Reqs : req'[t].pc = "join" => req'[t] = req[t]
    BY <1>2, <1>3
  <2> QED BY <2>1 DEF CInv, Aparts, Apart
<1> QED BY <1>7, <1>8, <1>9, <1>10, <1>11 DEF CInv

\* Users and organizations go.
LEMMA GoneStep ==
    ASSUME BInv', CInv, NEW us, NEW os, Gone(us, os), There' = There \ os,
           UNCHANGED <<home, password, had, made, expired, sent, req>>,
           invite' \in [Orgs -> [Persons -> Links \cup {0}]],
           \A o \in Orgs, p \in Persons : invite'[o][p] # 0 => o \in There',
           \A t \in Reqs : req[t].pc \in {"user", "join"} => req[t].org \notin os
    PROVE  CInv'
<1> USE DEF Gone
<1>1. /\ user' \in [Persons -> Ids \cup {0}]
      /\ \A p \in Persons : user'[p] = IF user[p] \in us THEN 0 ELSE user[p]
  BY DEF CInv, TypeOK
<1>2. \A u : u \notin us /\ Exists(u) => Exists(u)'
  BY <1>1 DEF Exists
<1>3. /\ member' \subseteq Ids \X Orgs
      /\ \A m \in member' : Exists(m[1])' /\ m[2] \in There'
  BY <1>2 DEF CInv, TypeOK
<1>4. /\ reset' \in [Links -> [user : Ids \cup {0}, org : Orgs \cup {NoOrg}]]
      /\ \A l \in Links : reset'[l] # NoReset =>
           reset'[l] = reset[l] /\ reset[l].user \notin us /\ reset[l].org \notin os
  BY DEF CInv, TypeOK, NoReset
<1>5. \A l \in Links : (reset[l] # NoReset => Exists(reset[l].user) /\ reset[l].org \in There)'
  <2>1. ASSUME NEW l \in Links, reset'[l] # NoReset
        PROVE  (Exists(reset[l].user) /\ reset[l].org \in There)'
    <3>1. reset'[l] = reset[l] /\ reset[l].user \notin us /\ reset[l].org \notin os
      BY <1>4, <2>1
    <3>2. Exists(reset[l].user) /\ reset[l].org \in There
      BY <2>1, <3>1 DEF CInv, TypeOK
    <3>3. reset'[l].org \in There'
      BY <3>1, <3>2
    <3>4. Exists(reset[l].user)'
      BY <1>1, <3>1, <3>2 DEF Exists
    <3> QED BY <3>3, <3>4
  <2> QED BY <2>1
<1>6. TypeOK'
  BY <1>1, <1>3, <1>4, <1>5 DEF CInv, TypeOK, BInv
<1>7. Numbered' /\ Remembered'
  BY <1>1, <1>4, Taken DEF CInv, Numbered, Remembered, NoReset
<1>8. Sounds'
  BY <1>1 DEF CInv, Sounds, Sound
<1>9. Aparts'
  BY DEF CInv, Aparts
<1> QED BY <1>6, <1>7, <1>8, <1>9 DEF CInv

LEMMA DeleteUserStep ==
    ASSUME BInv', CInv, NEW p \in Persons, DeleteUser(p) PROVE CInv'
<1>1. There' = There \ {} /\ invite' = invite
  BY DEF DeleteUser, tokenVars, There
<1>2. /\ invite' \in [Orgs -> [Persons -> Links \cup {0}]]
      /\ \A o \in Orgs, q \in Persons : invite'[o][q] # 0 => o \in There'
  BY <1>1 DEF CInv, TypeOK
<1> QED BY <1>1, <1>2, GoneStep DEF DeleteUser

LEMMA DeleteOrganizationStep ==
    ASSUME BInv', CInv, NEW o \in Orgs, DeleteOrganizationCascade(o) PROVE CInv'
<1> USE DEF DeleteOrganizationCascade, DropOrganization
<1>1. There' = There \ {o}
  BY DEF There, CInv, TypeOK, BootTypeOK
<1>2. /\ invite' \in [Orgs -> [Persons -> Links \cup {0}]]
      /\ \A q \in Orgs, p \in Persons : invite'[q][p] # 0 => q \in There'
  BY <1>1 DEF CInv, TypeOK
<1>3. \A t \in Reqs : req[t].pc \in {"user", "join"} => req[t].org \notin {o}
  BY Taken DEF HeldInvite, Sound
<1> QED BY <1>1, <1>2, <1>3, GoneStep

\* What an INSERT INTO users does.
LEMMA Inserted ==
    ASSUME CInv, NEW p \in Persons, NEW o \in Orgs, NEW w \in Passwords,
           NewUser(p, o, w), user[p] = 0
    PROVE  /\ user' \in [Persons -> Ids \cup {0}] /\ home' \in [Ids -> Orgs \cup {NoOrg}]
           /\ password' \in [Ids -> Passwords \cup {NoPassword}]
           /\ had' \in [Ids -> SUBSET Passwords]
           /\ made' = made + 1 /\ made' \in 0 .. MaxUsers /\ made' \in Ids
           /\ \A q \in Persons : user'[q] = IF q = p THEN made' ELSE user[q]
           /\ \A q \in Persons : user'[q] <= made'
           /\ \A u \in Ids : Exists(u) => Exists(u)'
           /\ \E t \in Persons : user'[t] = made'
           /\ \A u \in Ids : u <= made => had'[u] = had[u]
           /\ w \in had'[made']
           /\ Remembered'
<1> USE DEF NewUser
<1>1. made' = made + 1 /\ made \in Nat /\ made' \in 0 .. MaxUsers /\ made' \in Ids
  BY CredentialsAssumption DEF CredentialsAssumption, CInv, TypeOK, Ids
<1>2. /\ user' \in [Persons -> Ids \cup {0}] /\ home' \in [Ids -> Orgs \cup {NoOrg}]
      /\ password' \in [Ids -> Passwords \cup {NoPassword}]
      /\ had' \in [Ids -> SUBSET Passwords]
  BY <1>1 DEF CInv, TypeOK
<1>3. \A q \in Persons : user'[q] = IF q = p THEN made' ELSE user[q]
  BY DEF CInv, TypeOK
<1>4. \A q \in Persons : user'[q] <= made'
  BY <1>1, <1>3, Taken DEF Ids
<1>5. \E t \in Persons : user'[t] = made'
  BY <1>3 DEF Exists
<1>6. \A u \in Ids : Exists(u) => Exists(u)'
  <2>1. SUFFICES ASSUME NEW u \in Ids, NEW q \in Persons, user[q] = u PROVE user'[q] = u
    BY DEF Exists
  <2>2. u # 0
    BY DEF Ids
  <2> QED BY <1>3, <2>1, <2>2
<1>7. /\ \A u \in Ids : u # made' => had'[u] = had[u] /\ password'[u] = password[u]
      /\ had'[made'] = {w} /\ password'[made'] = w
  BY <1>1 DEF CInv, TypeOK
<1>8. \A u \in Ids : u <= made => had'[u] = had[u]
  BY <1>1, <1>7 DEF Ids
<1>9. Remembered'
  BY <1>7 DEF CInv, Remembered
<1> QED BY <1>1, <1>2, <1>3, <1>4, <1>5, <1>6, <1>7, <1>8, <1>9

\* A request that inserts a user has its address to itself.
LEMMA JoinNewStep ==
    ASSUME BInv', CInv, NEW r \in Reqs, Join(r), req[r].user = 0 PROVE CInv'
<1> DEFINE q == req[r]
           n == [q EXCEPT !.pc = "mint", !.user = made']
<1>1. /\ q \in ReqType /\ q.org \in There /\ q.org \in Orgs /\ q.person \in Persons
      /\ q.password \in Passwords /\ user[q.person] = 0 /\ q.pc = "join"
  BY Taken DEF Join, At, Sound
<1>2. /\ NewUser(q.person, q.org, q.password) /\ member' = member \cup {<<made', q.org>>}
      /\ Become(r, n) /\ invite' = [invite EXCEPT ![q.org][q.person] = 0]
      /\ UNCHANGED <<bootVars, reset, expired, sent>>
  BY DEF Join
<1>3. /\ user' \in [Persons -> Ids \cup {0}] /\ home' \in [Ids -> Orgs \cup {NoOrg}]
      /\ password' \in [Ids -> Passwords \cup {NoPassword}]
      /\ had' \in [Ids -> SUBSET Passwords]
      /\ made' = made + 1 /\ made' \in 0 .. MaxUsers /\ made' \in Ids
      /\ \A p \in Persons : user'[p] = IF p = q.person THEN made' ELSE user[p]
      /\ \A p \in Persons : user'[p] <= made'
      /\ \A u \in Ids : Exists(u) => Exists(u)'
      /\ \E t \in Persons : user'[t] = made'
      /\ \A u \in Ids : u <= made => had'[u] = had[u]
      /\ q.password \in had'[made']
      /\ Remembered'
  BY <1>1, <1>2, Inserted
<1>4. n \in ReqType /\ n.pc = "mint" /\ n.user = made' /\ n.password = q.password
  BY <1>1, <1>3 DEF ReqType
<1>5. /\ req' \in [Reqs -> ReqType] /\ req'[r] = n
      /\ \A t \in Reqs : t # r => req'[t] = req[t]
  BY <1>2, <1>4 DEF Become, CInv, TypeOK
<1>6. There' = There
  BY <1>2 DEF There, bootVars
<1> HIDE DEF q, n
<1>7. TypeOK'
  <2>1. /\ member' \subseteq Ids \X Orgs
        /\ \A m \in member' : (Exists(m[1]) /\ m[2] \in There)'
    <3>1. member' \subseteq Ids \X Orgs
      BY <1>1, <1>2, <1>3 DEF CInv, TypeOK
    <3>2. ASSUME NEW m \in member' PROVE (Exists(m[1]) /\ m[2] \in There)'
      <4>1. CASE m \in member
        BY <1>3, <1>6, <4>1 DEF CInv, TypeOK
      <4>2. CASE m = <<made', q.org>>
        BY <1>1, <1>3, <1>6, <4>2 DEF Exists
      <4> QED BY <1>2, <4>1, <4>2
    <3> QED BY <3>1, <3>2
  <2>2. /\ invite' \in [Orgs -> [Persons -> Links \cup {0}]]
        /\ \A o \in Orgs, p \in Persons : invite'[o][p] # 0 => o \in There
    BY <1>2 DEF CInv, TypeOK
  <2>3. \A l \in Links : reset[l] # NoReset => Exists(reset[l].user)' /\ reset[l].org \in There
    <3>1. SUFFICES ASSUME NEW l \in Links, reset[l] # NoReset
                   PROVE  Exists(reset[l].user)' /\ reset[l].org \in There
      OBVIOUS
    <3>2. /\ reset[l].user \in Ids /\ Exists(reset[l].user) /\ reset[l].org \in There
      BY <3>1 DEF CInv, TypeOK, Numbered
    <3> QED BY <1>2, <1>3, <3>2 DEF Exists
  <2> QED BY <1>2, <1>3, <1>5, <1>6, <2>1, <2>2, <2>3 DEF CInv, TypeOK, BInv
<1>8. Numbered'
  <2>1. \A t \in Reqs : req'[t].user <= made'
    BY <1>3, <1>4, <1>5, Taken DEF ReqType, Ids
  <2>2. \A l \in Links : reset[l].user \in Ids \cup {0} /\ reset[l].user <= made
    BY DEF CInv, TypeOK, Numbered
  <2>3. \A l \in Links : reset[l].user <= made'
    BY <1>3, <2>2, Taken DEF Ids
  <2> QED BY <1>2, <1>3, <2>1, <2>3 DEF CInv, Numbered, NoReset
<1>9. Sounds'
  <2>1. SUFFICES ASSUME NEW t \in Reqs PROVE Sound(req[t])'
    BY DEF Sounds
  <2>2. CASE t = r
    BY <1>3, <1>4, <1>5, <2>2 DEF Sound, Ids
  <2>3. CASE t # r
    <3>1. req'[t] = req[t] /\ req[t] \in ReqType /\ req[t].user <= made /\ Sound(req[t])
      BY <1>5, <2>3, Taken
    <3>2. req[t].user # 0 => had'[req[t].user] = had[req[t].user]
      BY <1>3, <3>1 DEF ReqType
    <3>3. req[t].pc = "join" /\ req[t].user = 0 => user'[req[t].person] = 0
      <4>1. SUFFICES ASSUME req[t].pc = "join", req[t].user = 0
                     PROVE  user'[req[t].person] = 0
        OBVIOUS
      <4>2. req[t].person # q.person
        BY <1>1, <2>3, <4>1 DEF CInv, Aparts, Apart, q
      <4>3. req[t].person \in Persons /\ user[req[t].person] = 0
        BY <3>1, <4>1 DEF Sound
      <4> QED BY <1>3, <4>2, <4>3
    <3> QED BY <1>6, <3>1, <3>2, <3>3 DEF Sound
  <2> QED BY <2>2, <2>3
<1>10. Aparts'
  <2>1. \A t \in Reqs : req'[t].pc = "join" => req'[t] = req[t]
    BY <1>4, <1>5
  <2> QED BY <2>1 DEF CInv, Aparts, Apart
<1> QED BY <1>3, <1>7, <1>8, <1>9, <1>10 DEF CInv

LEMMA JoinExistingStep ==
    ASSUME BInv', CInv, NEW r \in Reqs, Join(r), req[r].user # 0 PROVE CInv'
<1> DEFINE q == req[r]
           n == [q EXCEPT !.pc = "mint"]
<1>1. /\ q \in ReqType /\ q.org \in There /\ q.org \in Orgs /\ q.person \in Persons
      /\ q.user \in Ids /\ q.user <= made /\ q.password \in had[q.user]
  BY Taken DEF Join, At, Sound, ReqType
<1>2. /\ Exists(q.user) /\ member' = member \cup {<<q.user, q.org>>} /\ Become(r, n)
      /\ invite' = [invite EXCEPT ![q.org][q.person] = 0]
      /\ UNCHANGED <<user, home, password, had, made, bootVars, reset, expired, sent>>
  BY DEF Join
<1>3. n \in ReqType /\ n.pc = "mint" /\ n.user = q.user /\ n.password = q.password
  BY <1>1 DEF ReqType
<1>4. /\ req' \in [Reqs -> ReqType] /\ req'[r] = n
      /\ \A t \in Reqs : t # r => req'[t] = req[t]
  BY <1>2, <1>3 DEF Become, CInv, TypeOK
<1>5. There' = There
  BY <1>2 DEF There, bootVars
<1> HIDE DEF q, n
<1>6. TypeOK'
  <2>1. /\ member' \subseteq Ids \X Orgs
        /\ \A m \in member' : Exists(m[1]) /\ m[2] \in There
    BY <1>1, <1>2 DEF CInv, TypeOK
  <2>2. /\ invite' \in [Orgs -> [Persons -> Links \cup {0}]]
        /\ \A o \in Orgs, p \in Persons : invite'[o][p] # 0 => o \in There
    <3>1. /\ invite \in [Orgs -> [Persons -> Links \cup {0}]]
          /\ \A o \in Orgs, p \in Persons : invite[o][p] # 0 => o \in There
      BY DEF CInv, TypeOK
    <3>2. invite' = [invite EXCEPT ![q.org][q.person] = 0]
      BY <1>2
    <3> QED BY <3>1, <3>2
  <2> QED BY <1>2, <1>4, <1>5, <2>1, <2>2 DEF CInv, TypeOK, BInv, Exists
<1>7. Numbered' /\ Remembered'
  BY <1>1, <1>2, <1>3, <1>4 DEF CInv, Numbered, Remembered
<1>8. Sounds'
  <2>1. \A t \in Reqs : Sound(req'[t])
    BY <1>1, <1>3, <1>4, Taken DEF Sound, Ids
  <2> QED BY <1>2, <1>5, <2>1 DEF Sounds, Sound
<1>9. Aparts'
  <2>1. \A t \in Reqs : req'[t].pc = "join" => req'[t] = req[t]
    BY <1>3, <1>4
  <2> QED BY <2>1 DEF CInv, Aparts, Apart
<1> QED BY <1>6, <1>7, <1>8, <1>9 DEF CInv

\* The first owner: nothing is there yet that could refer to an organization.
LEMMA BootstrappedStep ==
    ASSUME BInv, BInv', CInv, NEW s \in Setups, Bootstrapped(s) PROVE CInv'
<1>1. PICK o \in Orgs, p \in Persons, w \in Passwords :
        /\ ConsumeBootstrapState(s, o) /\ user[p] = 0 /\ NewUser(p, o, w)
        /\ member' = member \cup {<<made', o>>}
  BY DEF Bootstrapped
<1>2. There = {} /\ o \in There'
  BY <1>1 DEF ConsumeBootstrapState, BInv, Sealed, BootTypeOK, There
<1>3. /\ member = {} /\ \A l \in Links : reset[l] = NoReset
      /\ \A q \in Orgs, t \in Persons : invite[q][t] = 0
  BY <1>2 DEF CInv, TypeOK
<1>4. \A t \in Reqs : req[t].pc \notin {"user", "join"}
  BY <1>2, Taken DEF Sound
<1>5. /\ user' \in [Persons -> Ids \cup {0}] /\ home' \in [Ids -> Orgs \cup {NoOrg}]
      /\ password' \in [Ids -> Passwords \cup {NoPassword}]
      /\ had' \in [Ids -> SUBSET Passwords]
      /\ made' = made + 1 /\ made' \in 0 .. MaxUsers /\ made' \in Ids
      /\ \A q \in Persons : user'[q] <= made'
      /\ \E t \in Persons : user'[t] = made'
      /\ \A u \in Ids : u <= made => had'[u] = had[u]
      /\ Remembered'
  BY <1>1, Inserted
<1>6. UNCHANGED <<linkVars, req>>
  BY DEF Bootstrapped
<1>7. TypeOK'
  <2>1. /\ member' \subseteq Ids \X Orgs
        /\ \A m \in member' : (Exists(m[1]) /\ m[2] \in There)'
    BY <1>1, <1>2, <1>3, <1>5 DEF Exists
  <2>2. /\ \A l \in Links : reset'[l] = NoReset
        /\ \A q \in Orgs, t \in Persons : invite'[q][t] = 0
    BY <1>3, <1>6 DEF linkVars
  <2> QED BY <1>5, <1>6, <2>1, <2>2 DEF linkVars, CInv, TypeOK, BInv
<1>8. Numbered'
  <2>1. \A t \in Reqs : req'[t].user <= made'
    BY <1>5, <1>6, Taken DEF ReqType, Ids
  <2>2. \A l \in Links : reset'[l] = NoReset /\ NoReset.user = 0
    BY <1>3, <1>6 DEF linkVars, NoReset
  <2> QED BY <1>5, <2>1, <2>2, Taken DEF Numbered
<1>9. Sounds'
  <2>1. SUFFICES ASSUME NEW t \in Reqs PROVE Sound(req[t])'
    BY DEF Sounds
  <2>2. req[t] \in ReqType /\ req[t].user <= made /\ Sound(req[t])
    BY Taken
  <2>3. req[t].user # 0 => had'[req[t].user] = had[req[t].user]
    BY <1>5, <2>2 DEF ReqType
  <2> QED BY <1>4, <1>6, <2>2, <2>3 DEF Sound
<1>10. Aparts'
  BY <1>6 DEF CInv, Aparts
<1> QED BY <1>5, <1>7, <1>8, <1>9, <1>10 DEF CInv
------------------------------------------------------------------------------
LEMMA Initial == Init => CInv
<1> SUFFICES ASSUME Init PROVE CInv
  OBVIOUS
<1> USE CredentialsAssumption DEF CredentialsAssumption, Init
<1>1. BootTypeOK
  BY BootInitial DEF BInv
<1>2. /\ req \in [Reqs -> ReqType] /\ \A r \in Reqs : req[r] = Idle
      /\ reset \in [Links -> [user : Ids \cup {0}, org : Orgs \cup {NoOrg}]]
      /\ \A l \in Links : reset[l] = NoReset /\ reset[l].user = 0
  BY IdleFits DEF NoReset
<1>3. Sounds /\ Aparts
  BY <1>2, IdleFits DEF Sounds, Aparts, Apart
<1>4. CASE NobodyKnown
  <2>1. made \in 0 .. MaxUsers
    BY <1>4 DEF NobodyKnown
  <2>2. TypeOK
    BY <1>1, <1>2, <1>4, <2>1 DEF NobodyKnown, TypeOK
  <2>3. Numbered /\ Remembered
    BY <1>2, <1>4, IdleFits DEF NobodyKnown, Numbered, Remembered
  <2> QED BY <1>3, <2>2, <2>3 DEF CInv
<1>5. ASSUME NEW p \in Persons, NEW o \in There, NEW w \in Passwords \cup {NoPassword},
             Known(p, o, w)
      PROVE  CInv
  <2>1. made \in 0 .. MaxUsers /\ o \in Orgs
    BY <1>5 DEF Known, Ids, There
  <2>2. Exists(1) /\ member \subseteq Ids \X Orgs /\ \A m \in member : m[1] = 1 /\ m[2] = o
    BY <1>5, <2>1 DEF Known, Exists
  <2>3. TypeOK
    BY <1>1, <1>2, <1>5, <2>1, <2>2 DEF Known, TypeOK
  <2>4. Numbered /\ Remembered
    BY <1>2, <1>5, IdleFits DEF Known, Numbered, Remembered
  <2> QED BY <1>3, <2>3, <2>4 DEF CInv
<1> QED BY <1>4, <1>5

LEMMA CredentialsNext == ASSUME BInv, BInv', CInv, [Next]_vars PROVE CInv'
<1> USE DEF tokenVars, bootVars
<1>1. ASSUME BootStep, UNCHANGED credVars PROVE CInv'
  <2>1. org' = org
    BY <1>1 DEF BootStep, Start, CountOrganizations, LockBootstrap, Recount,
       CreateBootstrapState, ShowToken, StartFails, Crash, Present, LockState,
       RemoveInstallTokenFile, GiveUp
  <2>2. There' = There
    BY <2>1 DEF There
  <2>3. TypeOK'
    BY <1>1, <2>2 DEF credVars, CInv, TypeOK, BInv, Exists
  <2> QED BY <1>1, <2>2, <2>3 DEF credVars, CInv, Numbered, Remembered, Sounds, Sound, Aparts
<1>2. ASSUME NEW s \in Setups, Bootstrapped(s) PROVE CInv'
  BY <1>2, BootstrappedStep
<1>3. ASSUME NEW o \in Orgs, DeleteOrganizationCascade(o) PROVE CInv'
  BY <1>3, DeleteOrganizationStep
<1>4. ASSUME NEW p \in Persons, DeleteUser(p) PROVE CInv'
  BY <1>4, DeleteUserStep
<1>5. ASSUME NEW o \in Orgs, NEW p \in Persons, RevokePendingInvitation(o, p) PROVE CInv'
  BY <1>5, RevokeStep
<1>6. ASSUME NEW u \in Ids, NEW o \in Orgs, IssuePasswordReset(u, o) PROVE CInv'
  BY <1>6, IssueStep
<1>7. ASSUME NEW l \in Links, Expire(l) PROVE CInv'
  BY <1>7, ExpireStep
<1>8. ASSUME NEW r \in Reqs, CreateInvitation(r) \/ UpsertInvitation(r) PROVE CInv'
  BY <1>8, CreateInvitationStep, UpsertStep
<1>9. ASSUME NEW r \in Reqs, NEW l \in Links, NEW w \in Passwords,
             PeekInvitation(r, l, w) \/ RedeemPasswordReset(r, l, w)
      PROVE CInv'
  BY <1>9, PeekStep, RedeemResetStep
<1>10. ASSUME NEW r \in Reqs, LockInvitation(r) \/ ResolveUser(r) PROVE CInv'
  BY <1>10, LockInvitationStep, ResolveUserStep
<1>11. ASSUME NEW r \in Reqs, Join(r) PROVE CInv'
  BY <1>11, JoinNewStep, JoinExistingStep
<1>12. ASSUME NEW r \in Reqs, LockReset(r) \/ SetPassword(r) PROVE CInv'
  BY <1>12, LockResetStep, SetPasswordStep
<1>13. ASSUME NEW r \in Reqs, NEW p \in Persons, NEW w \in Passwords,
              Login(r, p, w) \/ SelectOrg(r, p, w)
       PROVE CInv'
  <2>1. PICK o \in Orgs : Admit(r, user[p], w, o)
    BY <1>13 DEF Login, SelectOrg, LookupUserByEmail
  <2> QED BY <2>1, AdmitStep
<1>14. ASSUME NEW r \in Reqs, MintSession(r) \/ RevokeUserSessions(r) \/ End(r) PROVE CInv'
  BY <1>14, FinishStep DEF MintSession, RevokeUserSessions, End
<1>15. CASE UNCHANGED vars
  <2>1. There' = There
    BY <1>15 DEF vars, There
  <2>2. TypeOK'
    BY <1>15, <2>1 DEF vars, credVars, CInv, TypeOK, BInv, Exists
  <2> QED BY <1>15, <2>1, <2>2 DEF vars, credVars, CInv, Numbered, Remembered, Sounds, Sound, Aparts
<1> QED BY <1>1, <1>2, <1>3, <1>4, <1>5, <1>6, <1>7, <1>8, <1>9, <1>10, <1>11, <1>12, <1>13,
           <1>14, <1>15 DEF Next

LEMMA Invariant == Spec => [](BInv /\ CInv)
<1>1. Init => BInv /\ CInv
  BY BootInitial, Initial DEF Init
<1>2. BInv /\ CInv /\ [Next]_vars => (BInv /\ CInv)'
  BY BootNext, CredentialsNext
<1> QED BY <1>1, <1>2, PTL DEF Spec

\* Type correctness of Credentials: the tables keep their types and their foreign keys, also
\* when users and organizations are deleted with requests about them in flight.
\* (ON DELETE CASCADE, DeleteUser, DeleteOrganizationCascade)
THEOREM TypeCorrect == Spec => []TypeOK
<1>1. BInv /\ CInv => TypeOK
  BY DEF CInv
<1> QED BY <1>1, Invariant, PTL

\* A property of Credentials: who gets a membership or a session has given a password of
\* that very user.
\* (redeemInvitation: ExistingUserID; login)
THEOREM AlwaysProved == Spec => []Proved
<1>1. BInv /\ CInv => Proved
  BY DEF CInv, Sounds, Sound, Proved, At
<1> QED BY <1>1, Invariant, PTL
------------------------------------------------------------------------------
(* Links.  No two are the same, a request past its lock holds one that stands, and nobody *)
(* else holds it.                                                                          *)

Fresh ==
    /\ \A o \in Orgs, p \in Persons : invite[o][p] <= sent
    /\ \A l \in Links : reset[l] # NoReset =>
         l <= sent /\ \A o \in Orgs, p \in Persons : invite[o][p] # l
    /\ \A o, i \in Orgs, p, j \in Persons :
         invite[o][p] # 0 /\ invite[o][p] = invite[i][j] => o = i /\ p = j

Holds(q) ==
    /\ q.pc \in {"lock", "user", "join"} => q.link \in Links
    /\ q.pc \in {"user", "join"} => invite[q.org][q.person] = q.link
    /\ q.pc = "set" => q.link \in Links /\ reset[q.link] # NoReset

Alone(p, q) ==
    /\ ~(p.pc \in {"user", "join"} /\ q.pc \in {"user", "join"}
         /\ p.org = q.org /\ p.person = q.person)
    /\ ~(p.pc = "set" /\ q.pc = "set" /\ p.link = q.link)

LInv ==
    /\ Fresh
    /\ \A r \in Reqs : Holds(req[r])
    /\ \A r, q \in Reqs : r # q => Alone(req[r], req[q])

Linked == {"lock", "user", "join", "set"}

\* A step leaves the row alone that request t has locked.
Spared(t) ==
    /\ req[t].pc \in {"user", "join"} =>
         invite'[req[t].org][req[t].person] = invite[req[t].org][req[t].person]
    /\ req[t].pc = "set" => reset'[req[t].link] = reset[req[t].link]

\* A step that lets requests go.
LEMMA ReleaseLinks ==
    ASSUME LInv, Fresh', \A t \in Reqs : \/ req'[t].pc \notin Linked
                                         \/ req'[t] = req[t] /\ Spared(t)
    PROVE  LInv'
<1>1. ASSUME NEW t \in Reqs PROVE Holds(req[t])'
  BY <1>1 DEF LInv, Holds, Spared, Linked
<1>2. ASSUME NEW t \in Reqs, NEW u \in Reqs, t # u PROVE Alone(req[t], req[u])'
  BY <1>2 DEF LInv, Alone, Linked
<1> QED BY <1>1, <1>2 DEF LInv

\* A step of request r, which may take a link.
LEMMA RequestLinks ==
    ASSUME LInv, CInv, UNCHANGED linkVars, NEW r \in Reqs, NEW q, Become(r, q), Holds(q),
           \A t \in Reqs : t # r => Alone(q, req[t])
    PROVE  LInv'
<1>1. /\ req'[r] = q
      /\ \A t \in Reqs : t # r => req'[t] = req[t]
  BY DEF Become, CInv, TypeOK
<1>2. Fresh'
  BY DEF LInv, Fresh, linkVars
<1>3. ASSUME NEW t \in Reqs PROVE Holds(req[t])'
  BY <1>1, <1>3 DEF LInv, Holds, linkVars
<1>4. ASSUME NEW t \in Reqs, NEW u \in Reqs, t # u PROVE Alone(req[t], req[u])'
  BY <1>1, <1>4 DEF LInv, Alone
<1> QED BY <1>2, <1>3, <1>4 DEF LInv

\* The tables stay, and request r, if any, goes on without a link.
LEMMA OtherLinks ==
    ASSUME LInv, CInv, UNCHANGED linkVars,
           \/ UNCHANGED req
           \/ \E r \in Reqs, q \in ReqType : Become(r, q) /\ q.pc \notin Linked
    PROVE  LInv'
<1>1. Fresh'
  BY DEF LInv, Fresh, linkVars
<1>2. \A t \in Reqs : req'[t].pc \notin Linked \/ (req'[t] = req[t] /\ Spared(t))
  BY DEF Become, CInv, TypeOK, Spared, linkVars
<1> QED BY <1>1, <1>2, ReleaseLinks

\* What a request in flight has.
LEMMA Carried ==
    ASSUME CInv, LInv, NEW r \in Reqs
    PROVE  /\ req[r] \in ReqType /\ Holds(req[r])
           /\ req[r].pc \in {"lock", "user", "join"} => req[r].org \in Orgs /\ req[r].person \in Persons
           /\ req[r].pc \in {"read", "set"} => req[r].link \in Links
BY Taken DEF LInv, Sound

LEMMA LockInvitationLinks ==
    ASSUME LInv, CInv, NEW r \in Reqs, LockInvitation(r) PROVE LInv'
<1>1. UNCHANGED linkVars /\ req[r].pc = "lock"
  BY DEF LockInvitation, At
<1>2. CASE Finish(r)
  BY <1>1, <1>2, IdleFits, OtherLinks DEF Finish, Linked
<1>3. CASE /\ Pending(req[r].link, req[r].org, req[r].person)
           /\ Become(r, [req[r] EXCEPT !.pc = "user"])
  <2> DEFINE q == [req[r] EXCEPT !.pc = "user"]
  <2>1. /\ q.pc = "user" /\ q.link = req[r].link /\ q.org = req[r].org
        /\ q.person = req[r].person /\ Become(r, q)
    BY <1>3, Carried DEF ReqType
  <2>2. Holds(q)
    BY <1>1, <1>3, <2>1, Carried DEF Holds, Pending
  <2>3. \A t \in Reqs : Alone(q, req[t])
    BY <2>1 DEF LockInvitation, HeldInvite, Alone
  <2> HIDE DEF q
  <2> QED BY <1>1, <2>1, <2>2, <2>3, RequestLinks
<1> QED BY <1>2, <1>3 DEF LockInvitation

LEMMA ResolveUserLinks ==
    ASSUME LInv, CInv, NEW r \in Reqs, ResolveUser(r) PROVE LInv'
<1>1. UNCHANGED linkVars /\ req[r].pc = "user"
  BY DEF ResolveUser, At
<1>2. CASE Finish(r)
  BY <1>1, <1>2, IdleFits, OtherLinks DEF Finish, Linked
<1>3. CASE Become(r, [req[r] EXCEPT !.pc = "join"])
  <2> DEFINE q == [req[r] EXCEPT !.pc = "join"]
  <2>1. /\ q.pc = "join" /\ q.link = req[r].link /\ q.org = req[r].org
        /\ q.person = req[r].person /\ Become(r, q)
    BY <1>3, Carried DEF ReqType
  <2>2. Holds(q)
    BY <1>1, <2>1, Carried DEF Holds
  <2>3. \A t \in Reqs : t # r => Alone(q, req[t])
    BY <1>1, <2>1 DEF LInv, Alone
  <2> HIDE DEF q
  <2> QED BY <1>1, <2>1, <2>2, <2>3, RequestLinks
<1> QED BY <1>2, <1>3 DEF ResolveUser

LEMMA LockResetLinks ==
    ASSUME LInv, CInv, NEW r \in Reqs, LockReset(r) PROVE LInv'
<1>1. UNCHANGED linkVars /\ req[r].pc = "read"
  BY DEF LockReset, At
<1>2. CASE Finish(r)
  BY <1>1, <1>2, IdleFits, OtherLinks DEF Finish, Linked
<1>3. CASE /\ reset[req[r].link] # NoReset
           /\ Become(r, [req[r] EXCEPT !.pc = "set", !.user = reset[req[r].link].user])
  <2> DEFINE q == [req[r] EXCEPT !.pc = "set", !.user = reset[req[r].link].user]
  <2>1. q.pc = "set" /\ q.link = req[r].link /\ Become(r, q)
    BY <1>3, Carried DEF ReqType
  <2>2. Holds(q)
    BY <1>1, <1>3, <2>1, Carried DEF Holds
  <2>3. \A t \in Reqs : Alone(q, req[t])
    BY <2>1 DEF LockReset, HeldReset, Alone
  <2> HIDE DEF q
  <2> QED BY <1>1, <2>1, <2>2, <2>3, RequestLinks
<1> QED BY <1>2, <1>3 DEF LockReset

LEMMA PeekLinks ==
    ASSUME LInv, CInv, NEW r \in Reqs, NEW l \in Links, NEW w \in Passwords,
           PeekInvitation(r, l, w)
    PROVE  LInv'
<1>1. PICK peek \in LookupInvitationByToken(l) :
        Become(r, [pc |-> "lock", link |-> l, user |-> peek.user, password |-> w,
                   org |-> peek.org, person |-> peek.person])
  BY DEF PeekInvitation
<1> DEFINE q == [pc |-> "lock", link |-> l, user |-> peek.user, password |-> w,
                 org |-> peek.org, person |-> peek.person]
<1>2. q.pc = "lock" /\ q.link = l /\ Become(r, q)
  BY <1>1
<1> HIDE DEF q
<1>3. Holds(q) /\ \A t \in Reqs : Alone(q, req[t])
  BY <1>2 DEF Holds, Alone
<1> QED BY <1>2, <1>3, RequestLinks DEF PeekInvitation

\* A new link is none of those before.
LEMMA UpsertLinks ==
    ASSUME LInv, CInv, NEW r \in Reqs, UpsertInvitation(r) PROVE LInv'
<1>1. /\ req[r].pc = "upsert" /\ sent < MaxLinks /\ req[r].org \in There
      /\ ~HeldInvite(req[r].org, req[r].person)
      /\ sent' = sent + 1 /\ invite' = [invite EXCEPT ![req[r].org][req[r].person] = sent']
      /\ Finish(r) /\ reset' = reset
  BY DEF UpsertInvitation, At
<1>2. /\ sent \in Nat /\ \A o \in Orgs, p \in Persons : invite[o][p] \in Nat
      /\ invite \in [Orgs -> [Persons -> Links \cup {0}]]
  BY CredentialsAssumption DEF CredentialsAssumption, CInv, TypeOK, Links
<1> DEFINE o == req[r].org
           p == req[r].person
<1>3. \A i \in Orgs, j \in Persons :
        \/ invite'[i][j] = invite[i][j]
        \/ i = o /\ j = p /\ invite'[i][j] = sent + 1
  BY <1>1, <1>2
<1>4. Fresh'
  <2>1. \A i \in Orgs, j \in Persons : invite'[i][j] <= sent'
    BY <1>1, <1>2, <1>3 DEF LInv, Fresh
  <2>2. ASSUME NEW l \in Links, reset'[l] # NoReset
        PROVE  l <= sent' /\ \A i \in Orgs, j \in Persons : invite'[i][j] # l
    <3>1. l <= sent /\ (\A i \in Orgs, j \in Persons : invite[i][j] # l) /\ l \in Nat
      BY <1>1, <2>2 DEF LInv, Fresh, Links
    <3> QED BY <1>1, <1>2, <1>3, <3>1
  <2>3. ASSUME NEW i \in Orgs, NEW m \in Orgs, NEW j \in Persons, NEW n \in Persons,
               invite'[i][j] # 0, invite'[i][j] = invite'[m][n]
        PROVE  i = m /\ j = n
    <3>1. invite[i][j] <= sent /\ invite[m][n] <= sent
      BY DEF LInv, Fresh
    <3>2. CASE invite'[i][j] = invite[i][j] /\ invite'[m][n] = invite[m][n]
      <4>1. invite[i][j] # 0 /\ invite[i][j] = invite[m][n]
        BY <2>3, <3>2
      <4> QED BY <4>1 DEF LInv, Fresh
    <3>3. CASE i = o /\ j = p /\ m = o /\ n = p
      BY <3>3
    <3>4. CASE ~(i = o /\ j = p) /\ m = o /\ n = p /\ invite'[m][n] = sent + 1
      BY <1>2, <1>3, <2>3, <3>1, <3>4
    <3>5. CASE i = o /\ j = p /\ invite'[i][j] = sent + 1 /\ ~(m = o /\ n = p)
      BY <1>2, <1>3, <2>3, <3>1, <3>5
    <3> QED BY <1>3, <3>2, <3>3, <3>4, <3>5
  <2> QED BY <2>1, <2>2, <2>3 DEF Fresh
<1>5. \A t \in Reqs : req'[t].pc \notin Linked \/ (req'[t] = req[t] /\ Spared(t))
  <2>1. SUFFICES ASSUME NEW t \in Reqs, t # r PROVE req'[t] = req[t] /\ Spared(t)
    BY <1>1, IdleFits DEF Finish, Become, CInv, TypeOK, Linked
  <2>2. req'[t] = req[t]
    BY <1>1, <2>1 DEF Finish, Become, CInv, TypeOK
  <2>3. req[t].pc \in {"user", "join"} =>
          req[t].org \in Orgs /\ req[t].person \in Persons /\ ~(req[t].org = o /\ req[t].person = p)
    BY <1>1, Carried DEF HeldInvite
  <2> QED BY <1>1, <1>3, <2>2, <2>3 DEF Spared
<1> QED BY <1>4, <1>5, ReleaseLinks

LEMMA IssueLinks ==
    ASSUME LInv, CInv, NEW u \in Ids, NEW o \in Orgs, IssuePasswordReset(u, o) PROVE LInv'
<1>1. /\ sent' = sent + 1 /\ reset' = [reset EXCEPT ![sent'] = [user |-> u, org |-> o]]
      /\ UNCHANGED <<invite, req>>
  BY DEF IssuePasswordReset
<1>2. /\ sent \in Nat /\ \A i \in Orgs, p \in Persons : invite[i][p] \in Nat
      /\ \A l \in Links : l \in Nat
  BY CredentialsAssumption DEF CredentialsAssumption, CInv, TypeOK, Links
<1>3. \A l \in Links : l # sent + 1 => reset'[l] = reset[l]
  BY <1>1 DEF CInv, TypeOK
<1>4. Fresh'
  <2>1. \A i \in Orgs, p \in Persons : invite'[i][p] <= sent'
    BY <1>1, <1>2 DEF LInv, Fresh
  <2>2. ASSUME NEW l \in Links, reset'[l] # NoReset
        PROVE  l <= sent' /\ \A i \in Orgs, p \in Persons : invite'[i][p] # l
    <3>1. CASE l = sent + 1
      BY <1>1, <1>2, <3>1 DEF LInv, Fresh
    <3>2. CASE l # sent + 1
      BY <1>1, <1>2, <1>3, <2>2, <3>2 DEF LInv, Fresh
    <3> QED BY <3>1, <3>2
  <2> QED BY <1>1, <2>1, <2>2 DEF LInv, Fresh
<1>5. ASSUME NEW t \in Reqs PROVE Spared(t)
  <2>1. req[t].pc = "set" => req[t].link \in Links /\ req[t].link <= sent
    BY DEF LInv, Holds, Fresh
  <2>2. req[t].pc = "set" => reset'[req[t].link] = reset[req[t].link]
    BY <1>2, <1>3, <2>1
  <2> QED BY <1>1, <2>2 DEF Spared
<1> QED BY <1>1, <1>4, <1>5, ReleaseLinks

\* Rows may go, if nobody holds them.
LEMMA RemoveLinks ==
    ASSUME LInv, CInv, sent' = sent,
           \A o \in Orgs, p \in Persons : invite'[o][p] \in {0, invite[o][p]},
           \A l \in Links : reset'[l] \in {NoReset, reset[l]},
           \A t \in Reqs : \/ req'[t].pc \notin Linked
                           \/ req'[t] = req[t] /\ Spared(t)
    PROVE  LInv'
<1>1. sent \in Nat /\ \A l \in Links : l # 0
  BY CredentialsAssumption DEF CredentialsAssumption, CInv, TypeOK, Links
<1>2. Fresh'
  BY <1>1 DEF LInv, Fresh
<1> QED BY <1>2, ReleaseLinks

LEMMA RevokeLinks ==
    ASSUME LInv, CInv, NEW o \in Orgs, NEW p \in Persons, RevokePendingInvitation(o, p)
    PROVE  LInv'
<1>1. /\ ~HeldInvite(o, p) /\ invite' = [invite EXCEPT ![o][p] = 0]
      /\ UNCHANGED <<reset, sent, req>>
  BY DEF RevokePendingInvitation
<1>2. \A i \in Orgs, j \in Persons : invite'[i][j] = IF i = o /\ j = p THEN 0 ELSE invite[i][j]
  BY <1>1 DEF CInv, TypeOK
<1>3. ASSUME NEW t \in Reqs PROVE Spared(t)
  <2>1. req[t].pc \in {"user", "join"} =>
          req[t].org \in Orgs /\ req[t].person \in Persons /\ ~(req[t].org = o /\ req[t].person = p)
    BY <1>1, Carried DEF HeldInvite
  <2> QED BY <1>1, <1>2, <2>1 DEF Spared
<1> QED BY <1>1, <1>2, <1>3, RemoveLinks

\* What goes with users and organizations waits for the requests that hold it.
LEMMA GoneLinks ==
    ASSUME LInv, CInv, NEW us, NEW os, Gone(us, os), sent' = sent, req' = req,
           \A o \in Orgs, p \in Persons :
              \/ invite'[o][p] = invite[o][p]
              \/ invite'[o][p] = 0 /\ ~HeldInvite(o, p)
    PROVE  LInv'
<1>1. \A l \in Links : /\ reset'[l] \in {NoReset, reset[l]}
                       /\ HeldReset(l) => reset'[l] = reset[l]
  BY DEF Gone
<1>2. ASSUME NEW t \in Reqs PROVE Spared(t)
  <2>1. req[t].pc = "set" => req[t].link \in Links /\ HeldReset(req[t].link)
    BY Carried DEF HeldReset
  <2>2. req[t].pc \in {"user", "join"} =>
          req[t].org \in Orgs /\ req[t].person \in Persons /\ HeldInvite(req[t].org, req[t].person)
    BY Carried DEF HeldInvite
  <2> QED BY <1>1, <2>1, <2>2 DEF Spared
<1> QED BY <1>1, <1>2, RemoveLinks

LEMMA JoinLinks == ASSUME LInv, CInv, NEW r \in Reqs, Join(r) PROVE LInv'
<1> DEFINE q == req[r]
<1>1. /\ q.pc = "join" /\ UNCHANGED <<reset, sent>>
      /\ invite' = [invite EXCEPT ![q.org][q.person] = 0]
  BY DEF Join, At
<1>2. PICK u : Become(r, [q EXCEPT !.pc = "mint", !.user = u])
  <2>1. CASE q.user = 0
    BY <2>1 DEF Join
  <2>2. CASE q.user # 0
    <3>1. Become(r, [q EXCEPT !.pc = "mint"])
      BY <2>2 DEF Join
    <3>2. [q EXCEPT !.pc = "mint"] = [q EXCEPT !.pc = "mint", !.user = q.user]
      BY Carried DEF ReqType
    <3> QED BY <3>1, <3>2
  <2> QED BY <2>1, <2>2
<1>3. /\ req'[r].pc = "mint"
      /\ \A t \in Reqs : t # r => req'[t] = req[t]
  BY <1>2, Carried DEF Become, CInv, TypeOK, ReqType
<1>4. \A i \in Orgs, j \in Persons :
        invite'[i][j] = IF i = q.org /\ j = q.person THEN 0 ELSE invite[i][j]
  BY <1>1 DEF CInv, TypeOK
<1> HIDE DEF q
<1>5. ASSUME NEW t \in Reqs, t # r PROVE Spared(t)
  <2>1. req[t].pc \in {"user", "join"} =>
          /\ req[t].org \in Orgs /\ req[t].person \in Persons
          /\ ~(req[t].org = q.org /\ req[t].person = q.person)
    BY <1>1, <1>5, Carried DEF LInv, Alone, q
  <2> QED BY <1>1, <1>4, <2>1 DEF Spared
<1>6. \A t \in Reqs : req'[t].pc \notin Linked \/ (req'[t] = req[t] /\ Spared(t))
  BY <1>3, <1>5 DEF Linked
<1> QED BY <1>1, <1>4, <1>6, RemoveLinks

LEMMA SetPasswordLinks == ASSUME LInv, CInv, NEW r \in Reqs, SetPassword(r) PROVE LInv'
<1> DEFINE q == req[r]
<1>1. /\ q.pc = "set" /\ UNCHANGED <<invite, sent>> /\ reset' = [reset EXCEPT ![q.link] = NoReset]
      /\ Become(r, [q EXCEPT !.pc = "revoke"])
  BY DEF SetPassword, At
<1>2. /\ req'[r].pc = "revoke"
      /\ \A t \in Reqs : t # r => req'[t] = req[t]
  BY <1>1, Carried DEF Become, CInv, TypeOK, ReqType
<1>3. \A l \in Links : reset'[l] = IF l = q.link THEN NoReset ELSE reset[l]
  BY <1>1 DEF CInv, TypeOK
<1> HIDE DEF q
<1>4. ASSUME NEW t \in Reqs, t # r PROVE Spared(t)
  <2>1. req[t].pc = "set" => req[t].link \in Links /\ req[t].link # q.link
    BY <1>1, <1>4, Carried DEF LInv, Alone, q
  <2> QED BY <1>1, <1>3, <2>1 DEF Spared
<1>5. \A t \in Reqs : req'[t].pc \notin Linked \/ (req'[t] = req[t] /\ Spared(t))
  BY <1>2, <1>4 DEF Linked
<1> QED BY <1>1, <1>3, <1>5, RemoveLinks

LEMMA InitLinks == Init => LInv
<1> SUFFICES ASSUME Init PROVE LInv
  OBVIOUS
<1>1. Fresh
  BY DEF Init, Fresh
<1>2. \A r \in Reqs : req[r] = Idle
  BY DEF Init
<1> QED BY <1>1, <1>2, IdleFits DEF LInv, Holds, Alone

LEMMA LinksNext == ASSUME LInv, CInv, [Next]_vars PROVE LInv'
<1>1. ASSUME \/ BootStep /\ UNCHANGED credVars
             \/ UNCHANGED vars
             \/ \E s \in Setups : Bootstrapped(s)
             \/ \E l \in Links : Expire(l)
      PROVE LInv'
  <2>1. UNCHANGED <<invite, reset, sent, req>>
    BY <1>1 DEF vars, credVars, Bootstrapped, linkVars, Expire
  <2>2. Fresh'
    BY <2>1 DEF LInv, Fresh
  <2>3. \A t \in Reqs : Spared(t)
    BY <2>1 DEF Spared
  <2> QED BY <2>1, <2>2, <2>3, ReleaseLinks
<1>2. ASSUME NEW o \in Orgs, DeleteOrganizationCascade(o) PROVE LInv'
  <2>1. \A i \in Orgs, p \in Persons : \/ invite'[i][p] = invite[i][p]
                                       \/ invite'[i][p] = 0 /\ ~HeldInvite(i, p)
    BY <1>2 DEF DeleteOrganizationCascade, CInv, TypeOK
  <2> QED BY <1>2, <2>1, GoneLinks DEF DeleteOrganizationCascade
<1>3. ASSUME NEW p \in Persons, DeleteUser(p) PROVE LInv'
  BY <1>3, GoneLinks DEF DeleteUser
<1>4. ASSUME NEW o \in Orgs, NEW p \in Persons, RevokePendingInvitation(o, p) PROVE LInv'
  BY <1>4, RevokeLinks
<1>5. ASSUME NEW u \in Ids, NEW o \in Orgs, IssuePasswordReset(u, o) PROVE LInv'
  BY <1>5, IssueLinks
<1>6. ASSUME NEW r \in Reqs, CreateInvitation(r) PROVE LInv'
  <2>1. PICK o \in There, p \in Persons :
          Become(r, [Idle EXCEPT !.pc = "upsert", !.org = o, !.person = p])
    BY <1>6 DEF CreateInvitation
  <2> DEFINE q == [Idle EXCEPT !.pc = "upsert", !.org = o, !.person = p]
  <2>2. q \in ReqType /\ q.pc \notin Linked
    BY DEF Idle, ReqType, There, Linked
  <2> QED BY <1>6, <2>1, <2>2, OtherLinks DEF CreateInvitation
<1>7. ASSUME NEW r \in Reqs, UpsertInvitation(r) PROVE LInv'
  BY <1>7, UpsertLinks
<1>8. ASSUME NEW r \in Reqs, NEW l \in Links, NEW w \in Passwords, PeekInvitation(r, l, w)
      PROVE  LInv'
  BY <1>8, PeekLinks
<1>9. ASSUME NEW r \in Reqs, NEW l \in Links, NEW w \in Passwords, RedeemPasswordReset(r, l, w)
      PROVE  LInv'
  <2> DEFINE q == [Idle EXCEPT !.pc = "read", !.link = l, !.password = w]
  <2>1. q \in ReqType /\ q.pc \notin Linked /\ Become(r, q) /\ UNCHANGED linkVars
    BY <1>9 DEF RedeemPasswordReset, Idle, ReqType, Linked
  <2> QED BY <2>1, OtherLinks
<1>10. ASSUME NEW r \in Reqs, LockInvitation(r) \/ ResolveUser(r) \/ Join(r) \/ LockReset(r)
                              \/ SetPassword(r)
       PROVE LInv'
  BY <1>10, LockInvitationLinks, ResolveUserLinks, JoinLinks, LockResetLinks, SetPasswordLinks
<1>11. ASSUME NEW r \in Reqs, NEW p \in Persons, NEW w \in Passwords,
              Login(r, p, w) \/ SelectOrg(r, p, w)
       PROVE LInv'
  <2>1. PICK o \in Orgs : Admit(r, user[p], w, o)
    BY <1>11 DEF Login, SelectOrg, LookupUserByEmail
  <2> DEFINE q == [Idle EXCEPT !.pc = "mint", !.user = user[p], !.password = w, !.org = o]
  <2>2. q \in ReqType /\ q.pc \notin Linked
    BY Taken DEF Idle, ReqType, Linked
  <2> QED BY <2>1, <2>2, OtherLinks DEF Admit
<1>12. ASSUME NEW r \in Reqs, MintSession(r) \/ RevokeUserSessions(r) \/ End(r) PROVE LInv'
  BY <1>12, IdleFits, OtherLinks DEF MintSession, RevokeUserSessions, End, Finish, Linked
<1> QED BY <1>1, <1>2, <1>3, <1>4, <1>5, <1>6, <1>7, <1>8, <1>9, <1>10, <1>11, <1>12 DEF Next

\* Only these steps take a request from where its link is to be redeemed.
LEMMA WhoRedeems ==
    ASSUME CInv, [Next]_vars, NEW r \in Reqs, Redeems(r) PROVE Join(r) \/ SetPassword(r)
<1>1. /\ req[r].pc \in {"join", "set"} /\ req'[r].pc \in {"mint", "revoke"}
      /\ req \in [Reqs -> ReqType]
  BY DEF Redeems, At, CInv, TypeOK
<1>2. ~UNCHANGED req /\ ~UNCHANGED vars
  BY <1>1 DEF vars, credVars
<1>3. \A t \in Reqs : \A q : Become(t, q) => t = r /\ q.pc \in {"mint", "revoke"}
  BY <1>1 DEF Become
<1>4. \A t \in Reqs : ~Finish(t)
  BY <1>3, IdleFits DEF Finish
<1>5. ASSUME NEW t \in Reqs, NEW p \in Persons, NEW w \in Passwords,
             Login(t, p, w) \/ SelectOrg(t, p, w)
      PROVE FALSE
  <2>1. req[t].pc = "idle" /\ \E o \in Orgs : Admit(t, user[p], w, o)
    BY <1>5 DEF Login, SelectOrg, At, LookupUserByEmail
  <2> QED BY <1>1, <1>3, <2>1 DEF Admit
<1>6. ASSUME NEW t \in Reqs,
             \/ CreateInvitation(t) \/ UpsertInvitation(t) \/ MintSession(t)
             \/ RevokeUserSessions(t) \/ End(t)
      PROVE FALSE
  BY <1>1, <1>3, <1>4, <1>6
  DEF CreateInvitation, UpsertInvitation, MintSession, RevokeUserSessions, End, At
<1>7. ASSUME NEW t \in Reqs, NEW l \in Links, NEW w \in Passwords,
             PeekInvitation(t, l, w) \/ RedeemPasswordReset(t, l, w)
      PROVE FALSE
  BY <1>1, <1>3, <1>7 DEF PeekInvitation, RedeemPasswordReset, At
<1>8. ASSUME NEW t \in Reqs, LockInvitation(t) \/ ResolveUser(t) \/ LockReset(t) PROVE FALSE
  <2>1. req[t].pc \in {"lock", "user", "read"} /\ \E q : Become(t, q)
    BY <1>8, <1>4 DEF LockInvitation, ResolveUser, LockReset, At
  <2> QED BY <1>1, <1>3, <2>1
<1>9. ASSUME NEW t \in Reqs, Join(t) \/ SetPassword(t) PROVE t = r
  BY <1>3, <1>9 DEF Join, SetPassword
<1> QED BY <1>2, <1>5, <1>6, <1>7, <1>8, <1>9
        DEF Next, credVars, Bootstrapped, DeleteOrganizationCascade, DeleteUser,
            RevokePendingInvitation, IssuePasswordReset, Expire

LEMMA RedeemStep ==
    ASSUME CInv, LInv, [Next]_vars, NEW r \in Reqs, Redeems(r)
    PROVE  Stands(req[r].link) /\ ~Stands(req[r].link)'
<1> DEFINE q == req[r]
<1>1. \A l \in Links : l # 0
  BY DEF Links
<1>0. req'[r].link = req[r].link
  <2>1. req[r] \in ReqType /\ req \in [Reqs -> ReqType]
    BY DEF CInv, TypeOK
  <2>2. CASE Join(r)
    <3>1. CASE Become(r, [req[r] EXCEPT !.pc = "mint", !.user = made'])
      BY <2>1, <3>1 DEF Become, ReqType
    <3>2. CASE Become(r, [req[r] EXCEPT !.pc = "mint"])
      BY <2>1, <3>2 DEF Become, ReqType
    <3> QED BY <2>2, <3>1, <3>2 DEF Join
  <2>3. CASE SetPassword(r)
    <3>1. Become(r, [req[r] EXCEPT !.pc = "revoke"])
      BY <2>3 DEF SetPassword
    <3> QED BY <2>1, <3>1 DEF Become, ReqType
  <2> QED BY <2>2, <2>3, WhoRedeems
<1>2. CASE Join(r)
  <2>1. /\ q.pc = "join" /\ reset' = reset /\ q.link \in Links /\ q.org \in Orgs /\ q.person \in Persons
        /\ invite' = [invite EXCEPT ![q.org][q.person] = 0] /\ invite[q.org][q.person] = q.link
    BY <1>2, Carried DEF Join, At, Holds
  <2>2. reset[q.link] = NoReset
    BY <2>1 DEF LInv, Fresh
  <2>3. \A i \in Orgs, j \in Persons :
          invite'[i][j] = IF i = q.org /\ j = q.person THEN 0 ELSE invite[i][j]
    BY <2>1 DEF CInv, TypeOK
  <2>4. \A i \in Orgs, j \in Persons : invite[i][j] = q.link => i = q.org /\ j = q.person
    BY <1>1, <2>1 DEF LInv, Fresh
  <2>5. Stands(q.link)
    BY <2>1 DEF Stands
  <2>6. ~(reset'[q.link] # NoReset \/ \E i \in Orgs, j \in Persons : invite'[i][j] = q.link)
    BY <1>1, <2>1, <2>2, <2>3, <2>4
  <2> QED BY <1>0, <2>5, <2>6 DEF Stands
<1>3. CASE SetPassword(r)
  <2>1. /\ q.pc = "set" /\ invite' = invite /\ reset' = [reset EXCEPT ![q.link] = NoReset]
        /\ q.link \in Links /\ reset[q.link] # NoReset
    BY <1>3, Carried DEF SetPassword, At, Holds
  <2>2. Stands(q.link)
    BY <2>1 DEF Stands
  <2>3. reset'[q.link] = NoReset /\ \A i \in Orgs, j \in Persons : invite'[i][j] # q.link
    BY <2>1 DEF LInv, Fresh, CInv, TypeOK
  <2> QED BY <1>0, <2>2, <2>3 DEF Stands
<1> QED BY <1>2, <1>3, WhoRedeems

\* A link is redeemed while it stands, by one request, and is dead afterwards, whatever is
\* replaced, revoked or deleted meanwhile.
\* (RedeemNativeInvitation, RedeemPasswordReset: FOR UPDATE)
THEOREM RedeemedOnce == Spec => LinksHonoured
<1>1. Init => LInv
  BY InitLinks
<1>2. LInv /\ (BInv /\ CInv) /\ [Next]_vars => LInv'
  BY LinksNext
<1>3. LInv /\ (BInv /\ CInv) /\ [Next]_vars =>
        [\A r \in Reqs : Redeems(r) => Stands(req[r].link) /\ ~Stands(req[r].link)']_vars
  BY RedeemStep
<1> QED BY <1>1, <1>2, <1>3, Invariant, PTL DEF Spec, LinksHonoured
==============================================================================
