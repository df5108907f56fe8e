------------------------------ MODULE SsoConfig ------------------------------
(***************************************************************************)
(* The administration of single sign-on: connections to identity           *)
(* providers and the e-mail domains that route logins to them, with what   *)
(* happens between the statements of a request: a PATCH writes back the    *)
(* whole row it read, a verification asks the DNS in between, and the      *)
(* sweep ends what has expired.                                            *)
(*                                                                         *)
(* Left out: labels, secrets, SAML, group mappings and default roles (a    *)
(* login's membership is the module Membership), reads.                    *)
(***************************************************************************)
EXTENDS Integers, FiniteSets

CONSTANTS
    Connections, Idps,
    Rows, Names,            \* rows of sso_domains; the domains they are about
    ConnOf, NameOf,         \* what the row, once made, is about
    NoConnection, NoRow, NoPatch,
    MaxChanges              \* bound: requests, expiries and rotations of keys

ASSUME ConfigAssumption ==
    /\ ConnOf \in [Rows -> Connections] /\ NameOf \in [Rows -> Names]
    /\ NoConnection \notin Connections /\ NoRow \notin Rows
    /\ MaxChanges \in Nat

VARIABLES
    conn,      \* rows of sso_connections
    domain,    \* rows of sso_domains
    patch,     \* the row that a PATCH has read and changed, not yet written
    verify,    \* the row whose token a verification looks for in the DNS
    changes

configVars == <<conn, domain, patch, verify, changes>>

ConnType  == [status : {"none", "draft", "active", "disabled", "deleted"}, idp : Idps]
PatchType == [of : Connections, to : ConnType]
RowType   == [status : {"none", "pending", "verified", "stale", "deleted"}, expired : BOOLEAN]

ConfigTypeOK ==
    /\ conn \in [Connections -> ConnType]
    /\ domain \in [Rows -> RowType]
    /\ patch \in PatchType \cup {NoPatch}
    /\ verify \in Rows \cup {NoRow}
    /\ changes \in 0 .. MaxChanges

There(c)  == conn[c].status \in {"draft", "active", "disabled"}
InDb(r)   == domain[r].status \in {"pending", "verified", "stale"}
Claims(r) == domain[r].status \in {"pending", "verified"}

\* The unique index on lower(domain) of the pending and the verified rows.
Free(r) == \A o \in Rows \ {r} : NameOf[o] = NameOf[r] => ~Claims(o)

Change == changes < MaxChanges /\ changes' = changes + 1

ConfigInit ==
    /\ conn \in [Connections -> [status : {"none", "active"}, idp : Idps]]
    /\ domain \in [Rows -> [status : {"none", "verified"}, expired : {FALSE}]]
    /\ \A r \in Rows : domain[r].status = "verified" => There(ConnOf[r]) /\ Free(r)
    /\ patch = NoPatch
    /\ verify = NoRow
    /\ changes = 0
------------------------------------------------------------------------------
CreateSSOConnection(c, i) == conn' = [conn EXCEPT ![c] = [status |-> "draft", idp |-> i]]

CreateConnection(c) ==
    /\ Change
    /\ conn[c].status = "none"
    /\ \E i \in Idps : CreateSSOConnection(c, i)
    /\ UNCHANGED <<domain, patch, verify>>

\* updateConnection reads the row and applies what the request has ...
ReadConnection(c) ==
    /\ Change
    /\ patch = NoPatch /\ There(c)
    /\ \E s \in {"draft", "active", "disabled"}, i \in Idps :
         patch' = [of |-> c, to |-> [status |-> s, idp |-> i]]
    /\ UNCHANGED <<conn, domain, verify>>

\* ... and updates it, if it is still there and the constraints allow it.
UpdateConnection ==
    /\ patch # NoPatch
    /\ \/ There(patch.of) /\ conn' = [conn EXCEPT ![patch.of] = patch.to]
       \/ UNCHANGED conn
    /\ patch' = NoPatch
    /\ UNCHANGED <<domain, verify, changes>>

NoDomain == [status |-> "deleted", expired |-> FALSE]

\* Its domains go with it.
DeleteConnection(c) ==
    /\ Change
    /\ There(c)
    /\ conn' = [conn EXCEPT ![c].status = "deleted"]
    /\ domain' = [r \in Rows |-> IF ConnOf[r] = c /\ InDb(r)
                                 THEN NoDomain ELSE domain[r]]
    /\ UNCHANGED <<patch, verify>>

CreateDomain(r) ==
    /\ Change
    /\ domain[r].status = "none" /\ There(ConnOf[r]) /\ Free(r)
    /\ domain' = [domain EXCEPT ![r].status = "pending"]
    /\ UNCHANGED <<conn, patch, verify>>

\* verifyDomain reads the row, whatever its status ...
ReadDomain(r) ==
    /\ Change
    /\ verify = NoRow /\ InDb(r)
    /\ verify' = r
    /\ UNCHANGED <<conn, domain, patch>>

\* Mutant: only verified rows are unique, by a check before the update.
VerifyDomainAnyway ==
    /\ verify # NoRow /\ InDb(verify)
    /\ domain' = [domain EXCEPT ![verify] = [status |-> "verified", expired |-> FALSE]]
    /\ verify' = NoRow
    /\ UNCHANGED <<conn, patch, changes>>

\* ... and updates it when the token is in the DNS.
VerifyDomain ==
    /\ verify # NoRow /\ InDb(verify) /\ Free(verify)
    /\ domain' = [domain EXCEPT ![verify] = [status |-> "verified", expired |-> FALSE]]
    /\ verify' = NoRow
    /\ UNCHANGED <<conn, patch, changes>>

\* The token is not there, the row is gone, or another one claims the domain by now.
VerifyFails ==
    /\ verify # NoRow
    /\ verify' = NoRow
    /\ UNCHANGED <<conn, domain, patch, changes>>

DeleteDomain(r) ==
    /\ Change
    /\ InDb(r)
    /\ domain' = [domain EXCEPT ![r] = NoDomain]
    /\ UNCHANGED <<conn, patch, verify>>

\* Ninety days pass.
DomainExpires(r) ==
    /\ Change
    /\ domain[r] = [status |-> "verified", expired |-> FALSE]
    /\ domain' = [domain EXCEPT ![r].expired = TRUE]
    /\ UNCHANGED <<conn, patch, verify>>

\* The daily ticker.
SweepStaleSSODomains ==
    /\ \E r \in Rows : domain[r].expired
    /\ domain' = [r \in Rows |-> IF domain[r].expired
                    THEN [status |-> "stale", expired |-> FALSE] ELSE domain[r]]
    /\ UNCHANGED <<conn, patch, verify, changes>>

ConfigStep ==
    \/ \E c \in Connections : CreateConnection(c) \/ ReadConnection(c) \/ DeleteConnection(c)
    \/ \E r \in Rows : CreateDomain(r) \/ ReadDomain(r) \/ DeleteDomain(r) \/ DomainExpires(r)
    \/ UpdateConnection \/ VerifyDomain \/ VerifyFails \/ SweepStaleSSODomains
------------------------------------------------------------------------------
\* The connections that a login with an address of the domain is routed to.
Routes(n) == {ConnOf[r] : r \in {r \in Rows : NameOf[r] = n /\ domain[r].status = "verified"}}

\* A domain is claimed once, and its logins go to one connection, however the claims and
\* the verifications of several organizations interleave.
\* (sso_domains_one_active_claim_per_domain, verifyDomain)
OneClaim ==
    /\ \A r, o \in Rows : r # o /\ NameOf[r] = NameOf[o] => ~(Claims(r) /\ Claims(o))
    /\ \A n \in Names : Cardinality(Routes(n)) <= 1
=============================================================================
