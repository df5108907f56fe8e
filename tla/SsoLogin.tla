------------------------------- MODULE SsoLogin -------------------------------
(***************************************************************************)
(* The OIDC login next to the administration of its connection: initiate,  *)
(* the callback, which the browser may deliver more than once, and the     *)
(* caches of the discovery document and of the signing keys, which no      *)
(* PATCH evicts and whose entries may be older than the last rotation of   *)
(* the identity provider's keys.  The caches are keyed by the connection.  *)
(*                                                                         *)
(* An identity provider publishes the key it signs with and the one        *)
(* before; nothing is assumed about its codes, which it may redeem twice.  *)
(*                                                                         *)
(* Left out: PKCE, nonce and audience (a token is for its login),          *)
(* redirects, the audit log, the user's row and membership (Membership).   *)
(***************************************************************************)
EXTENDS SsoConfig

CONSTANTS
    States,          \* the random values of the logins
    Callbacks,       \* deliveries of a callback
    NoState, NoIdp

ASSUME LoginAssumption ==
    /\ NoState \notin States /\ NoIdp \notin Idps

VARIABLES
    key,        \* the version of the key that a provider signs with
    docs,       \* sso:oidc-discovery:<connection>: whose document it is
    jwks,       \* jwks:<connection>: a provider's keys, up to a version
    state,      \* sso:state:<value>
    callback

loginVars == <<key, docs, jwks, state, callback>>
vars == <<configVars, loginVars>>

Keys      == [idp : Idps \cup {NoIdp}, key : 0 .. MaxChanges]
NoKeys    == [idp |-> NoIdp, key |-> 0]
StateType == [status : {"unused", "stored", "gone"}, conn : Connections \cup {NoConnection},
              idp : Idps \cup {NoIdp}]

\* status; state, conn, idp: what it took from the state and from the connection's row;
\* token, doc: the token, the document it was checked against.
CallbackType == [status : {"idle", "load", "exchange", "validate", "refresh", "domain",
                           "mint", "session", "refused", "badsignature"},
                 state : States \cup {NoState}, idp : Idps \cup {NoIdp}, token : Keys,
                 doc : Idps \cup {NoIdp}]

At(k, status) == callback[k].status = status
Goto(k, status) == callback' = [callback EXCEPT ![k].status = status]

\* The callback is done with the token, or failed.
End(k, status) == callback' = [callback EXCEPT ![k].status = status, ![k].idp = NoIdp,
                                               ![k].token = NoKeys, ![k].doc = NoIdp]
Conn(k) == state[callback[k].state].conn

TypeOK ==
    /\ ConfigTypeOK
    /\ key \in [Idps -> 0 .. MaxChanges]
    /\ docs \in [Connections -> Idps \cup {NoIdp}]
    /\ jwks \in [Connections -> Keys]
    /\ state \in [States -> StateType]
    /\ callback \in [Callbacks -> CallbackType]
    /\ \A k \in Callbacks :
         /\ ~At(k, "idle") => callback[k].state \in States /\ Conn(k) \in Connections
         /\ callback[k].status \in {"exchange", "validate", "refresh", "domain"} =>
              callback[k].idp \in Idps
         /\ callback[k].status \in {"validate", "refresh", "domain"} =>
              callback[k].token.idp \in Idps
         /\ callback[k].status \in {"refresh", "badsignature"} => callback[k].doc \in Idps

Init ==
    /\ ConfigInit
    /\ key = [i \in Idps |-> 0]
    /\ docs = [c \in Connections |-> NoIdp]
    /\ \E cached \in BOOLEAN :
         jwks = [c \in Connections |-> IF cached /\ conn[c].status = "active"
                                       THEN [idp |-> conn[c].idp, key |-> 0] ELSE NoKeys]
    /\ state = [t \in States |-> [status |-> "unused", conn |-> NoConnection, idp |-> NoIdp]]
    /\ callback = [k \in Callbacks |-> [status |-> "idle", state |-> NoState, idp |-> NoIdp,
                                        token |-> NoKeys, doc |-> NoIdp]]

\* discoveryDoc: d is the provider whose document connection c, with provider i in its row,
\* is given: the cached one, or that of i, which is cached then, unless the cache fails.
Discovers(c, i, d) ==
    \/ docs[c] = d /\ UNCHANGED docs
    \/ d = i /\ docs' \in {docs, [docs EXCEPT ![c] = i]}

Published(i) == [idp |-> i, key |-> key[i]]

\* FromCache: the cached keys, or, if there are none or the cache fails, the published ones.
FromCache(c, d) == {jwks[c], Published(d)} \ {NoKeys}

SignedBy(tok, ks)      == tok.idp = ks.idp /\ tok.key \in {ks.key - 1, ks.key}
ValidateClaims(tok, d) == tok.idp = d

\* exchangeCode: only the provider that the user was sent to knows the code, and it may fail.
ExchangesCode(k, d) == d = state[callback[k].state].idp
------------------------------------------------------------------------------
\* NewInitiateHandler.
Initiate(t, c) ==
    /\ state[t].status = "unused" /\ conn[c].status = "active"
    /\ \E d \in Idps :
         /\ Discovers(c, conn[c].idp, d)
         /\ state' = [state EXCEPT ![t] = [status |-> "stored", conn |-> c, idp |-> d]]
    /\ UNCHANGED <<configVars, key, jwks, callback>>

\* Ten minutes, or a loss of the cache.
StateExpires(t) ==
    /\ state[t].status = "stored"
    /\ state' = [state EXCEPT ![t].status = "gone"]
    /\ UNCHANGED <<configVars, key, docs, jwks, callback>>

\* Mutant: GET, with the DEL left to the expiry.
ConsumeGet(k, t) ==
    /\ At(k, "idle") /\ state[t].status = "stored"
    /\ \E s \in {"load", "refused"} :
         callback' = [callback EXCEPT ![k].status = s, ![k].state = t]
    /\ UNCHANGED <<configVars, key, docs, jwks, state>>

\* Consume: GETDEL.  Its reply may be lost; then the login fails.
Consume(k, t) ==
    /\ At(k, "idle") /\ state[t].status = "stored"
    /\ state' = [state EXCEPT ![t].status = "gone"]
    /\ \E s \in {"load", "refused"} :
         callback' = [callback EXCEPT ![k].status = s, ![k].state = t]
    /\ UNCHANGED <<configVars, key, docs, jwks>>

\* Mutant: a connection that is not active or not there is not refused.
LoadAnyway(k) ==
    /\ At(k, "load")
    /\ callback' = [callback EXCEPT ![k].status = "exchange",
          ![k].idp = IF There(Conn(k)) THEN conn[Conn(k)].idp ELSE NoIdp]
    /\ UNCHANGED <<configVars, key, docs, jwks, state>>

\* GetSSOConnectionByID.
LoadConnection(k) ==
    /\ At(k, "load")
    /\ IF conn[Conn(k)].status = "active"
       THEN callback' = [callback EXCEPT ![k].status = "exchange", ![k].idp = conn[Conn(k)].idp]
       ELSE End(k, "refused")
    /\ UNCHANGED <<configVars, key, docs, jwks, state>>

\* At the token endpoint of the document.
ExchangeCode(k) ==
    /\ At(k, "exchange")
    /\ \E d \in Idps :
         /\ Discovers(Conn(k), callback[k].idp, d)
         /\ \/ /\ ExchangesCode(k, d)
               /\ callback' = [callback EXCEPT ![k].status = "validate", ![k].token = Published(d)]
            \/ End(k, "refused")
    /\ UNCHANGED <<configVars, key, jwks, state>>

\* ValidateIDToken with the cached keys, or with fetched ones, which are cached, unless the
\* cache fails.  A bad signature evicts them, with the same reservation.
ValidateIDToken(k) ==
    /\ At(k, "validate")
    /\ \E d \in Idps, keys \in Keys :
         LET c    == Conn(k)
             good == SignedBy(callback[k].token, keys)
             Cached(ks) == [jwks EXCEPT ![c] = ks]
         IN  /\ Discovers(c, callback[k].idp, d)
             /\ keys \in FromCache(c, d)
             /\ jwks' \in {jwks, Cached(IF good THEN keys ELSE NoKeys), Cached(keys)}
             /\ callback' = [callback EXCEPT ![k].doc = d,
                    ![k].status = CASE good /\ ValidateClaims(callback[k].token, d) -> "domain"
                                    [] good /\ ~ValidateClaims(callback[k].token, d) -> "refused"
                                    [] OTHER -> "refresh"]
    /\ UNCHANGED <<configVars, key, state>>

\* Mutant: the second try goes through the cache.
RefreshCached(k) ==
    /\ At(k, "refresh")
    /\ LET keys == IF jwks[Conn(k)] = NoKeys THEN Published(callback[k].doc) ELSE jwks[Conn(k)]
       IN  Goto(k, IF SignedBy(callback[k].token, keys) THEN "domain" ELSE "badsignature")
    /\ UNCHANGED <<configVars, key, docs, jwks, state>>

\* Once more, with keys that are fetched whatever the cache has, and not cached.
Refresh(k) ==
    /\ At(k, "refresh")
    /\ Goto(k, IF SignedBy(callback[k].token, Published(callback[k].doc)) THEN "domain"
               ELSE "badsignature")
    /\ UNCHANGED <<configVars, key, docs, jwks, state>>

\* GetVerifiedSSODomainByName: the address may be of any domain.
CheckDomain(k) ==
    /\ At(k, "domain")
    /\ \E n \in Names : End(k, IF Conn(k) \in Routes(n) THEN "mint" ELSE "refused")
    /\ UNCHANGED <<configVars, key, docs, jwks, state>>

\* UpsertUser, RedeemPendingInvitation or JITProvisionMembership, MintSession.
MintSession(k) ==
    /\ At(k, "mint")
    /\ Goto(k, "session")
    /\ UNCHANGED <<configVars, key, docs, jwks, state>>

\* A database or provider that fails ends the login.
CallbackFails(k) ==
    /\ callback[k].status \in {"load", "exchange", "validate", "refresh", "domain", "mint"}
    /\ End(k, "refused")
    /\ UNCHANGED <<configVars, key, docs, jwks, state>>

Rotate(i) ==
    /\ Change
    /\ key' = [key EXCEPT ![i] = @ + 1]
    /\ UNCHANGED <<conn, domain, patch, verify, docs, jwks, state, callback>>

\* The times to live: a day and an hour.
CacheExpires(c) ==
    /\ Change
    /\ \/ docs[c] # NoIdp /\ docs' = [docs EXCEPT ![c] = NoIdp] /\ UNCHANGED jwks
       \/ jwks[c] # NoKeys /\ jwks' = [jwks EXCEPT ![c] = NoKeys] /\ UNCHANGED docs
    /\ UNCHANGED <<conn, domain, patch, verify, key, state, callback>>

CallbackStep(k) ==
    \/ \E t \in States : Consume(k, t)
    \/ LoadConnection(k) \/ ExchangeCode(k) \/ ValidateIDToken(k) \/ Refresh(k)
    \/ CheckDomain(k) \/ MintSession(k) \/ CallbackFails(k)

Next ==
    \/ ConfigStep /\ UNCHANGED loginVars
    \/ \E t \in States : StateExpires(t) \/ \E c \in Connections : Initiate(t, c)
    \/ \E k \in Callbacks : CallbackStep(k)
    \/ \E i \in Idps : Rotate(i)
    \/ \E c \in Connections : CacheExpires(c)

Spec == Init /\ [][Next]_vars
------------------------------------------------------------------------------
\* One callback of a login gets a token, and with it a session, although the callback may be
\* delivered twice and the provider redeem its code twice.
\* (StateStore.Consume)
HasToken(k) == callback[k].status \in {"validate", "refresh", "domain", "mint", "session"}
StateUsedOnce ==
    \A j, k \in Callbacks :
        j # k /\ HasToken(j) /\ HasToken(k) => callback[j].state # callback[k].state

\* No login is refused because of a stale cache: a signature that is refused at last is of
\* another provider than the document, or of a key that is no longer published.
\* (ValidateIDToken: eviction, and a second try past the cache)
RefusedRightly ==
    \A k \in Callbacks : At(k, "badsignature") =>
        \/ callback[k].token.idp # callback[k].doc
        \/ callback[k].token.key < key[callback[k].doc] - 1
=============================================================================
