------------------------------ MODULE Bootstrap ------------------------------
(***************************************************************************)
(* The first organization of an installation: every replica of the API     *)
(* that starts and finds no organization offers an install token, one wins *)
(* and shows its token in a file, and POST /v1/auth/bootstrap trades the   *)
(* token for the organization and its owner.                               *)
(*                                                                         *)
(* Replicas and requests share the row of bootstrap_state, which holds the *)
(* hash of the token, and an advisory lock on it; a replica's file is its  *)
(* own.  A replica may crash at any step, which ends its requests; the     *)
(* transaction it was in is rolled back, or has committed unheard.         *)
(*                                                                         *)
(* Left out: the checks of names and passwords, the rate limit of the      *)
(* probe GET /v1/auth/bootstrap/state, which changes nothing, the banner.  *)
(***************************************************************************)
EXTENDS Naturals, FiniteSets

CONSTANTS
    Replicas,
    Setups,     \* slots for POST /v1/auth/bootstrap
    Orgs,
    NoReplica,
    MaxStarts,  \* bound: starts of replicas
    MaxOps      \* bound: starts, requests and expiries together

ASSUME BootstrapAssumption ==
    /\ MaxStarts \in Nat /\ MaxOps \in Nat
    /\ NoReplica \notin Replicas

\* 0: BOOTSTRAP_INSTALL_TOKEN, which all replicas may be given.
\* n: the token drawn at the n-th start.
Tokens  == 0 .. MaxStarts
NoToken == MaxStarts + 1

VARIABLES
    org,       \* the organizations table
    row,       \* bootstrap_state: the token whose hash it holds
    file,      \* the token in a replica's BOOTSTRAP_TOKEN_FILE_PATH
    starts,
    replica,
    setup,
    ops        \* how many operations have begun

bootVars == <<org, row, file, starts, replica, setup, ops>>

Token       == Tokens \cup {NoToken}
ReplicaType == [pc : {"down", "count", "lock", "recount", "insert", "show", "up"}, token : Token]
SetupType   == [pc : {"idle", "lock", "found", "remove"}, on : Replicas \cup {NoReplica},
                token : Token]

Down == [pc |-> "down", token |-> NoToken]
NoSetup == [pc |-> "idle", on |-> NoReplica, token |-> NoToken]

BootTypeOK ==
    /\ org \in [Orgs -> {"none", "there", "deleted"}]
    /\ row \in Token
    /\ file \in [Replicas -> Token]
    /\ starts \in 0 .. MaxStarts
    /\ replica \in [Replicas -> ReplicaType]
    /\ setup \in [Setups -> SetupType]
    /\ ops \in 0 .. MaxOps

There == {o \in Orgs : org[o] = "there"}

\* Installations of a time before install tokens have organizations.
BootInit ==
    /\ org \in [Orgs -> {"none", "there"}]
    /\ row = NoToken
    /\ file = [r \in Replicas |-> NoToken]
    /\ starts = 0
    /\ replica = [r \in Replicas |-> Down]
    /\ setup = [s \in Setups |-> NoSetup]
    /\ ops = 0

Begin == ops < MaxOps /\ ops' = ops + 1

\* pg_advisory_xact_lock
Locked ==
    \/ \E r \in Replicas : replica[r].pc \in {"recount", "insert"}
    \/ \E s \in Setups : setup[s].pc = "found"

\* What GET /v1/auth/bootstrap/state tells.
Available == row # NoToken

Goto(r, pc) == replica' = [replica EXCEPT ![r].pc = pc]
Serves(r)   == replica' = [replica EXCEPT ![r] = [pc |-> "up", token |-> NoToken]]
------------------------------------------------------------------------------
(* MaybeGenerateInstallToken, before the replica serves requests *)

Start(r) ==
    /\ Begin
    /\ replica[r].pc = "down" /\ starts < MaxStarts
    /\ starts' = starts + 1
    /\ \E t \in {0, starts + 1} :
         replica' = [replica EXCEPT ![r] = [pc |-> "count", token |-> t]]
    /\ UNCHANGED <<org, row, file, setup>>

CountOrganizations(r) ==
    /\ replica[r].pc = "count"
    /\ IF There = {} THEN Goto(r, "lock") ELSE Serves(r)
    /\ UNCHANGED <<org, row, file, starts, setup, ops>>

LockBootstrap(r) ==
    /\ replica[r].pc = "lock" /\ ~Locked
    /\ Goto(r, "recount")
    /\ UNCHANGED <<org, row, file, starts, setup, ops>>

\* Mutant: what it has counted before is enough.
RecountNot(r) ==
    /\ replica[r].pc = "recount"
    /\ Goto(r, "insert")
    /\ UNCHANGED <<org, row, file, starts, setup, ops>>

Recount(r) ==
    /\ replica[r].pc = "recount"
    /\ IF There = {} THEN Goto(r, "insert") ELSE Serves(r)
    /\ UNCHANGED <<org, row, file, starts, setup, ops>>

\* INSERT ... ON CONFLICT DO NOTHING and its commit.  The replica that has won shows the
\* token, unless it does not hear of the commit.
CreateBootstrapState(r) ==
    /\ replica[r].pc = "insert"
    /\ row' = IF row = NoToken THEN replica[r].token ELSE row
    /\ \/ row = NoToken /\ Goto(r, "show")
       \/ Serves(r)
    /\ UNCHANGED <<org, file, starts, setup, ops>>

\* writeTokenFile, which may fail or be turned off.
ShowToken(r) ==
    /\ replica[r].pc = "show"
    /\ \E t \in {replica[r].token, file[r]} : file' = [file EXCEPT ![r] = t]
    /\ Serves(r)
    /\ UNCHANGED <<org, row, starts, setup, ops>>

\* An error: the replica serves without a token.
StartFails(r) ==
    /\ replica[r].pc \in {"count", "lock", "recount", "insert"}
    /\ Serves(r)
    /\ UNCHANGED <<org, row, file, starts, setup, ops>>

\* The file may be on a disk that goes with the replica.
Crash(r) ==
    /\ replica[r].pc # "down"
    /\ replica' = [replica EXCEPT ![r] = Down]
    /\ setup' = [s \in Setups |-> IF setup[s].on = r THEN NoSetup ELSE setup[s]]
    /\ \E t \in {file[r], NoToken} : file' = [file EXCEPT ![r] = t]
    /\ UNCHANGED <<org, row, starts, ops>>
------------------------------------------------------------------------------
(* POST /v1/auth/bootstrap *)

\* Someone has read a file, or given BOOTSTRAP_INSTALL_TOKEN.
Present(s, r) ==
    /\ Begin
    /\ setup[s].pc = "idle" /\ replica[r].pc = "up"
    /\ \E t \in {0} \cup {file[q] : q \in Replicas} :
         /\ t # NoToken
         /\ setup' = [setup EXCEPT ![s] = [pc |-> "lock", on |-> r, token |-> t]]
    /\ UNCHANGED <<org, row, file, starts, replica>>

\* Under the lock: 409 without a row, 401 for another token.
LockState(s) ==
    /\ setup[s].pc = "lock" /\ ~Locked
    /\ setup' = IF row = setup[s].token THEN [setup EXCEPT ![s].pc = "found"]
                                        ELSE [setup EXCEPT ![s] = NoSetup]
    /\ UNCHANGED <<org, row, file, starts, replica, ops>>

\* The organization, and the row is deleted.  (Its owner: Credentials.)
ConsumeBootstrapState(s, o) ==
    /\ setup[s].pc = "found"
    /\ org[o] = "none"
    /\ org' = [org EXCEPT ![o] = "there"]
    /\ row' = NoToken
    /\ setup' = [setup EXCEPT ![s].pc = "remove"]
    /\ UNCHANGED <<file, starts, replica, ops>>

RemoveInstallTokenFile(s) ==
    /\ setup[s].pc = "remove"
    /\ \E t \in {NoToken, file[setup[s].on]} : file' = [file EXCEPT ![setup[s].on] = t]
    /\ setup' = [setup EXCEPT ![s] = NoSetup]
    /\ UNCHANGED <<org, row, starts, replica, ops>>

\* An error, a cancelled context, or nothing else to do.
GiveUp(s) ==
    /\ setup[s].pc # "idle"
    /\ setup' = [setup EXCEPT ![s] = NoSetup]
    /\ UNCHANGED <<org, row, file, starts, replica, ops>>

\* DELETE /v1/organizations/me.  (What goes with it: Credentials.)
DropOrganization(o) ==
    /\ Begin
    /\ org[o] = "there"
    /\ org' = [org EXCEPT ![o] = "deleted"]
    /\ UNCHANGED <<row, file, starts, replica, setup>>

\* The steps that concern nothing but the bootstrap.
BootStep ==
    \/ \E r \in Replicas :
         \/ Start(r) \/ CountOrganizations(r) \/ LockBootstrap(r) \/ Recount(r)
         \/ CreateBootstrapState(r) \/ ShowToken(r) \/ StartFails(r) \/ Crash(r)
         \/ \E s \in Setups : Present(s, r)
    \/ \E s \in Setups : LockState(s) \/ RemoveInstallTokenFile(s) \/ GiveUp(s)
------------------------------------------------------------------------------
\* A token buys the first organization, or the first after all are deleted, and only one:
\* no restart, late replica or second request offers another while there is one.
\* (CreateBootstrapState: the count under the lock; ConsumeBootstrapState)
FoundedAlone ==
    [][\A o \in Orgs : org[o] = "none" /\ org'[o] = "there" => There = {}]_bootVars

\* Why it holds: the endpoint is open only while there is no organization.
Sealed ==
    /\ Available => There = {}
    /\ \A r \in Replicas : replica[r].pc = "insert" => There = {}
    /\ \A s \in Setups : setup[s].pc = "found" => Available

\* The advisory lock has one holder.
OneHolder ==
    /\ \A r, q \in Replicas : replica[r].pc \in {"recount", "insert"}
         /\ replica[q].pc \in {"recount", "insert"} => r = q
    /\ \A s, t \in Setups : setup[s].pc = "found" /\ setup[t].pc = "found" => s = t
    /\ \A r \in Replicas, s \in Setups :
         ~(replica[r].pc \in {"recount", "insert"} /\ setup[s].pc = "found")
==============================================================================
