---------------------------- MODULE SsoLoginProofs ----------------------------
(***************************************************************************)
(* Types, OneClaim, StateUsedOnce and RefusedRightly of SsoLogin, for any  *)
(* number of connections, providers, domains, logins, deliveries of a      *)
(* callback and rotations of keys.                                         *)
(***************************************************************************)
EXTENDS SsoLogin, FiniteSetTheorems, TLAPS

\* What the unique index keeps.
Unique == \A r, o \in Rows : r # o /\ NameOf[r] = NameOf[o] => ~(Claims(r) /\ Claims(o))

\* Every rotation is counted, so that the versions keep within the bound.
Counted == \A i \in Idps : key[i] <= changes

\* A state, once used, is of a connection.  A callback has taken its state away, and no two
\* of them took the same one.
Begun == \A t \in States : state[t].status # "unused" => state[t].conn \in Connections
Taken == \A k \in Callbacks : ~At(k, "idle") => state[callback[k].state].status = "gone"
Distinct ==
    \A j, k \in Callbacks :
        j # k /\ ~At(j, "idle") /\ ~At(k, "idle") => callback[j].state # callback[k].state

\* No token is signed with a key of the future.
Signed ==
    \A k \in Callbacks :
        callback[k].token.idp \in Idps => callback[k].token.key <= key[callback[k].token.idp]

IInv == TypeOK /\ Unique /\ Counted /\ Begun /\ Taken /\ Distinct /\ Signed /\ RefusedRightly

------------------------------------------------------------------------------
(* Initially. *)

LEMMA InitConfig == ConfigInit => ConfigTypeOK /\ Unique
<1> SUFFICES ASSUME ConfigInit PROVE ConfigTypeOK /\ Unique
  OBVIOUS
<1>1. conn \in [Connections -> ConnType]
  BY DEF ConfigInit, ConnType
<1>2. domain \in [Rows -> RowType]
  BY DEF ConfigInit, RowType
<1>3. patch = NoPatch /\ verify = NoRow /\ changes \in 0 .. MaxChanges
  BY ConfigAssumption DEF ConfigAssumption, ConfigInit
<1>4. Unique
  <2> SUFFICES ASSUME NEW r \in Rows, NEW o \in Rows, r # o, NameOf[r] = NameOf[o],
                      Claims(r), Claims(o)
               PROVE FALSE
    BY DEF Unique
  <2>1. domain[r].status = "verified"
    BY DEF ConfigInit, Claims
  <2> QED BY <2>1 DEF ConfigInit, Free
<1> QED BY <1>1, <1>2, <1>3, <1>4 DEF ConfigTypeOK

LEMMA InitInv == Init => IInv
<1> SUFFICES ASSUME Init PROVE IInv
  OBVIOUS
<1> USE ConfigAssumption, LoginAssumption DEF ConfigAssumption, LoginAssumption
<1>1. ConfigTypeOK /\ Unique /\ changes = 0
  BY InitConfig DEF Init, ConfigInit
<1>2. key \in [Idps -> 0 .. MaxChanges] /\ Counted
  BY <1>1 DEF Init, Counted
<1>3. docs \in [Connections -> Idps \cup {NoIdp}]
  BY DEF Init
<1>4. jwks \in [Connections -> Keys]
  <2>1. NoKeys \in Keys
    BY DEF NoKeys, Keys
  <2>2. \A c \in Connections : [idp |-> conn[c].idp, key |-> 0] \in Keys
    BY <1>1 DEF ConfigTypeOK, ConnType, Keys
  <2> QED BY <2>1, <2>2 DEF Init
<1>5. state \in [States -> StateType]
  BY DEF Init, StateType
<1>6. callback \in [Callbacks -> CallbackType]
  BY DEF Init, CallbackType, NoKeys, Keys
<1>7. \A k \in Callbacks : At(k, "idle") /\ callback[k].token.idp = NoIdp
  BY DEF Init, At, NoKeys
<1>8. TypeOK
  BY <1>1, <1>2, <1>3, <1>4, <1>5, <1>6, <1>7 DEF TypeOK, At
<1>9. Begun /\ Taken /\ Distinct /\ Signed /\ RefusedRightly
  BY <1>7 DEF Init, Begun, Taken, Distinct, Signed, RefusedRightly, At
<1> QED BY <1>1, <1>2, <1>8, <1>9 DEF IInv

------------------------------------------------------------------------------
(* The administration. *)

\* Rows keep their types, and the changes never go back.
LEMMA ConfigTypes ==
    ASSUME ConfigTypeOK, ConfigStep PROVE ConfigTypeOK' /\ changes <= changes'
<1> USE ConfigAssumption DEF ConfigAssumption, ConfigTypeOK, ConnType, RowType, PatchType, Change
<1>1. ASSUME NEW c \in Connections, CreateConnection(c)
      PROVE ConfigTypeOK' /\ changes <= changes'
  BY <1>1 DEF CreateConnection, CreateSSOConnection
<1>2. ASSUME NEW c \in Connections, ReadConnection(c)
      PROVE ConfigTypeOK' /\ changes <= changes'
  BY <1>2 DEF ReadConnection
<1>3. ASSUME NEW c \in Connections, DeleteConnection(c)
      PROVE ConfigTypeOK' /\ changes <= changes'
  BY <1>3 DEF DeleteConnection, NoDomain
<1>4. ASSUME NEW r \in Rows, CreateDomain(r) \/ DeleteDomain(r) \/ DomainExpires(r)
      PROVE ConfigTypeOK' /\ changes <= changes'
  <2>1. domain' \in [Rows -> RowType]
    <3>1. CASE CreateDomain(r) BY <3>1 DEF CreateDomain
    <3>2. CASE DeleteDomain(r) BY <3>2 DEF DeleteDomain, NoDomain
    <3>3. CASE DomainExpires(r) BY <3>3 DEF DomainExpires
    <3> QED BY <1>4, <3>1, <3>2, <3>3
  <2>2. UNCHANGED <<conn, patch, verify>> /\ Change
    BY <1>4 DEF CreateDomain, DeleteDomain, DomainExpires
  <2> QED BY <2>1, <2>2
<1>5. ASSUME NEW r \in Rows, ReadDomain(r) PROVE ConfigTypeOK' /\ changes <= changes'
  BY <1>5 DEF ReadDomain
<1>6. CASE UpdateConnection
  BY <1>6 DEF UpdateConnection
<1>7. CASE VerifyDomain \/ VerifyFails
  <2>1. domain' \in [Rows -> RowType]
    <3>1. CASE VerifyDomain BY <3>1 DEF VerifyDomain
    <3>2. CASE VerifyFails BY <3>2 DEF VerifyFails
    <3> QED BY <1>7, <3>1, <3>2
  <2>2. verify' = NoRow /\ UNCHANGED <<conn, patch, changes>>
    BY <1>7 DEF VerifyDomain, VerifyFails
  <2> QED BY <2>1, <2>2
<1>8. CASE SweepStaleSSODomains
  BY <1>8 DEF SweepStaleSSODomains
<1> QED BY <1>1, <1>2, <1>3, <1>4, <1>5, <1>6, <1>7, <1>8 DEF ConfigStep

\* Only a creation and a verification make a row claim its domain, and only a free one.
LEMMA StaysUnique == ASSUME ConfigTypeOK, Unique, ConfigStep PROVE Unique'
<1> USE DEF ConfigTypeOK, RowType, Unique, Claims
<1>1. ASSUME NEW r \in Rows, CreateDomain(r) PROVE Unique'
  BY <1>1 DEF CreateDomain, Free
<1>2. ASSUME NEW r \in Rows, DeleteDomain(r) \/ DomainExpires(r) PROVE Unique'
  BY <1>2 DEF DeleteDomain, DomainExpires, NoDomain
<1>3. CASE VerifyDomain
  BY <1>3 DEF VerifyDomain, Free, InDb
<1>4. CASE SweepStaleSSODomains
  BY <1>4 DEF SweepStaleSSODomains
<1>5. ASSUME NEW c \in Connections, DeleteConnection(c) PROVE Unique'
  BY <1>5 DEF DeleteConnection, NoDomain
<1>6. CASE UNCHANGED domain
  BY <1>6
<1> QED BY <1>1, <1>2, <1>3, <1>4, <1>5, <1>6
        DEF ConfigStep, CreateConnection, ReadConnection, ReadDomain, UpdateConnection, VerifyFails

LEMMA ConfigKeeps == ASSUME IInv, ConfigStep, UNCHANGED loginVars PROVE IInv'
<1>1. ConfigTypeOK' /\ changes <= changes' /\ Unique'
  BY ConfigTypes, StaysUnique DEF IInv, TypeOK
<1>2. TypeOK'
  BY <1>1 DEF IInv, TypeOK, loginVars, At, Conn
<1>3. Counted'
  BY <1>1 DEF IInv, TypeOK, ConfigTypeOK, Counted, loginVars
<1>4. Begun' /\ Taken' /\ Distinct' /\ Signed' /\ RefusedRightly'
  BY DEF IInv, Begun, Taken, Distinct, Signed, RefusedRightly, loginVars, At
<1> QED BY <1>1, <1>2, <1>3, <1>4 DEF IInv

------------------------------------------------------------------------------
(* Logins. *)

LEMMA DiscoversTyped ==
    ASSUME TypeOK, NEW c \in Connections, NEW i \in Idps, NEW d, Discovers(c, i, d)
    PROVE docs' \in [Connections -> Idps \cup {NoIdp}]
BY DEF Discovers, TypeOK

\* A login begins: its state is of nobody's callback.
LEMMA InitiateKeeps ==
    ASSUME IInv, NEW t \in States, NEW c \in Connections, Initiate(t, c) PROVE IInv'
<1> USE DEF IInv
<1>1. PICK d \in Idps :
         /\ Discovers(c, conn[c].idp, d)
         /\ state' = [state EXCEPT ![t] = [status |-> "stored", conn |-> c, idp |-> d]]
  BY DEF Initiate
<1>2. UNCHANGED <<configVars, key, jwks, callback>> /\ state[t].status = "unused"
  BY DEF Initiate
<1>3. docs' \in [Connections -> Idps \cup {NoIdp}]
  BY <1>1, DiscoversTyped DEF TypeOK, ConfigTypeOK, ConnType
<1>4. state' \in [States -> StateType]
  BY <1>1 DEF TypeOK, StateType
<1>5. \A k \in Callbacks : ~At(k, "idle") => callback[k].state # t
  BY <1>2 DEF Taken
<1>6. ConfigTypeOK' /\ Unique' /\ Counted'
  BY <1>2 DEF TypeOK, configVars, ConfigTypeOK, Unique, Claims, Counted
<1>7. \A k \in Callbacks : ~At(k, "idle") => state'[callback[k].state] = state[callback[k].state]
  BY <1>1, <1>5 DEF TypeOK
<1>8. TypeOK'
  BY <1>2, <1>3, <1>4, <1>6, <1>7 DEF TypeOK, At, Conn
<1>9. Begun'
  BY <1>1 DEF Begun, TypeOK
<1>10. Taken' /\ Distinct' /\ Signed' /\ RefusedRightly'
  BY <1>2, <1>7 DEF Taken, Distinct, Signed, RefusedRightly, At
<1> QED BY <1>6, <1>8, <1>9, <1>10

LEMMA ExpiryKeeps == ASSUME IInv, NEW t \in States, StateExpires(t) PROVE IInv'
<1> USE DEF IInv
<1>1. /\ state' = [state EXCEPT ![t].status = "gone"]
      /\ UNCHANGED <<configVars, key, docs, jwks, callback>> /\ state[t].status = "stored"
  BY DEF StateExpires
<1>2. /\ state' \in [States -> StateType]
      /\ \A u \in States : state'[u].conn = state[u].conn
      /\ \A u \in States : state[u].status = "gone" => state'[u].status = "gone"
  BY <1>1 DEF TypeOK, StateType
<1>3. ConfigTypeOK' /\ Unique' /\ Counted'
  BY <1>1 DEF TypeOK, configVars, ConfigTypeOK, Unique, Claims, Counted
<1>4. TypeOK'
  BY <1>1, <1>2, <1>3 DEF TypeOK, At, Conn
<1>5. Begun'
  BY <1>1, <1>2 DEF Begun, TypeOK
<1>6. Taken' /\ Distinct' /\ Signed' /\ RefusedRightly'
  BY <1>1, <1>2 DEF Taken, Distinct, Signed, RefusedRightly, At, TypeOK
<1> QED BY <1>3, <1>4, <1>5, <1>6

------------------------------------------------------------------------------
(* A callback. *)

\* What callback k may be after a step of its own that leaves its state alone.
Fits(k, new) ==
    /\ new \in CallbackType
    /\ new.state = callback[k].state
    /\ new.status \in {"exchange", "validate", "refresh", "domain"} => new.idp \in Idps
    /\ new.status \in {"validate", "refresh", "domain"} => new.token.idp \in Idps
    /\ new.status \in {"refresh", "badsignature"} => new.doc \in Idps
    /\ new.token.idp \in Idps => new.token.key <= key[new.token.idp]
    /\ new.status = "badsignature" =>
         new.token.idp # new.doc \/ new.token.key < key[new.doc] - 1

\* Such a step keeps the invariant: only its own callback and the caches change.
LEMMA StepKeeps ==
    ASSUME IInv, NEW k \in Callbacks, ~At(k, "idle"), NEW new, Fits(k, new),
           callback' = [callback EXCEPT ![k] = new],
           docs' \in [Connections -> Idps \cup {NoIdp}], jwks' \in [Connections -> Keys],
           UNCHANGED <<configVars, key, state>>
    PROVE  IInv'
<1> USE DEF IInv
<1>1. ConfigTypeOK' /\ Unique' /\ Counted' /\ Begun'
  BY DEF TypeOK, configVars, ConfigTypeOK, Unique, Claims, Counted, Begun
<1>2. /\ callback' \in [Callbacks -> CallbackType]
      /\ callback'[k] = new
      /\ \A j \in Callbacks : j # k => callback'[j] = callback[j]
      /\ \A j \in Callbacks : callback'[j].state = callback[j].state
  BY DEF TypeOK, Fits
<1>3. TypeOK'
  <2> SUFFICES ASSUME NEW j \in Callbacks
               PROVE  /\ ~At(j, "idle")' => callback'[j].state \in States /\ Conn(j)' \in Connections
                      /\ callback'[j].status \in {"exchange", "validate", "refresh", "domain"} =>
                           callback'[j].idp \in Idps
                      /\ callback'[j].status \in {"validate", "refresh", "domain"} =>
                           callback'[j].token.idp \in Idps
                      /\ callback'[j].status \in {"refresh", "badsignature"} =>
                           callback'[j].doc \in Idps
    BY <1>1, <1>2 DEF TypeOK
  <2>1. CASE j = k
    BY <2>1, <1>2 DEF TypeOK, Fits, At, Conn
  <2>2. CASE j # k
    BY <2>2, <1>2 DEF TypeOK, At, Conn
  <2> QED BY <2>1, <2>2
<1>4. Taken' /\ Distinct'
  BY <1>2 DEF Taken, Distinct, At
<1>5. Signed' /\ RefusedRightly'
  BY <1>2 DEF Signed, RefusedRightly, Fits, At
<1> QED BY <1>1, <1>3, <1>4, <1>5

LEMMA Ended ==
    ASSUME TypeOK, NEW k \in Callbacks, NEW status \in {"refused", "mint"}, End(k, status)
    PROVE  \E new : Fits(k, new) /\ callback' = [callback EXCEPT ![k] = new]
<1> DEFINE new == [callback[k] EXCEPT !.status = status, !.idp = NoIdp, !.token = NoKeys,
                                      !.doc = NoIdp]
<1> USE LoginAssumption DEF LoginAssumption
<1>1. callback' = [callback EXCEPT ![k] = new]
  BY DEF End
<1>2. NoKeys \in Keys /\ NoKeys.idp = NoIdp
  BY ConfigAssumption DEF ConfigAssumption, NoKeys, Keys
<1>3. new \in CallbackType
  <2>1. callback[k] \in CallbackType
    BY DEF TypeOK
  <2> QED BY <1>2, <2>1 DEF CallbackType
<1>4. /\ new.status = status /\ new.state = callback[k].state /\ new.token = NoKeys
  BY DEF TypeOK, CallbackType
<1>5. Fits(k, new)
  BY <1>2, <1>3, <1>4 DEF Fits
<1> QED BY <1>1, <1>5

\* GETDEL: the state is gone for every other delivery.
LEMMA ConsumeKeeps ==
    ASSUME IInv, NEW k \in Callbacks, NEW t \in States, Consume(k, t) PROVE IInv'
<1> USE LoginAssumption DEF IInv, LoginAssumption
<1>1. PICK s \in {"load", "refused"} :
         callback' = [callback EXCEPT ![k].status = s, ![k].state = t]
  BY DEF Consume
<1>2. /\ At(k, "idle") /\ state[t].status = "stored"
      /\ state' = [state EXCEPT ![t].status = "gone"]
      /\ UNCHANGED <<configVars, key, docs, jwks>>
  BY DEF Consume
<1>3. /\ state' \in [States -> StateType] /\ state'[t].status = "gone"
      /\ \A u \in States : state'[u].conn = state[u].conn
      /\ \A u \in States : u # t => state'[u] = state[u]
  BY <1>2 DEF TypeOK, StateType
<1>4. /\ callback' \in [Callbacks -> CallbackType]
      /\ callback'[k].status = s /\ callback'[k].state = t
      /\ callback'[k].token = callback[k].token
      /\ \A j \in Callbacks : j # k => callback'[j] = callback[j]
  <2> DEFINE new == [callback[k] EXCEPT !.status = s, !.state = t]
  <2>1. callback' = [callback EXCEPT ![k] = new]
    BY <1>1
  <2>2. new \in CallbackType /\ new.status = s /\ new.state = t /\ new.token = callback[k].token
    BY DEF TypeOK, CallbackType
  <2> HIDE DEF new
  <2> QED BY <2>1, <2>2 DEF TypeOK
<1>5. ConfigTypeOK' /\ Unique' /\ Counted'
  BY <1>2 DEF TypeOK, configVars, ConfigTypeOK, Unique, Claims, Counted
<1>6. Begun'
  BY <1>2, <1>3 DEF Begun, TypeOK
<1>7. TypeOK'
  <2> SUFFICES ASSUME NEW j \in Callbacks
               PROVE  /\ ~At(j, "idle")' => callback'[j].state \in States /\ Conn(j)' \in Connections
                      /\ callback'[j].status \in {"exchange", "validate", "refresh", "domain"} =>
                           callback'[j].idp \in Idps
                      /\ callback'[j].status \in {"validate", "refresh", "domain"} =>
                           callback'[j].token.idp \in Idps
                      /\ callback'[j].status \in {"refresh", "badsignature"} =>
                           callback'[j].doc \in Idps
    BY <1>2, <1>3, <1>4, <1>5 DEF TypeOK
  <2>1. CASE j = k
    BY <2>1, <1>2, <1>3, <1>4 DEF Begun, Conn
  <2>2. CASE j # k
    BY <2>2, <1>3, <1>4 DEF TypeOK, At, Conn
  <2> QED BY <2>1, <2>2
<1>8. \A j \in Callbacks : j # k /\ ~At(j, "idle") => callback[j].state # t
  BY <1>2 DEF Taken
<1>9. Taken' /\ Distinct'
  BY <1>3, <1>4, <1>8 DEF Taken, Distinct, At, TypeOK
<1>10. Signed' /\ RefusedRightly'
  BY <1>2, <1>4 DEF Signed, RefusedRightly, At
<1> QED BY <1>5, <1>6, <1>7, <1>9, <1>10

LEMMA LoadKeeps == ASSUME IInv, NEW k \in Callbacks, LoadConnection(k) PROVE IInv'
<1>1. ~At(k, "idle") /\ UNCHANGED <<configVars, key, docs, jwks, state>>
  BY DEF LoadConnection, At
<1>2. docs' \in [Connections -> Idps \cup {NoIdp}] /\ jwks' \in [Connections -> Keys]
  BY <1>1 DEF IInv, TypeOK
<1>3. CASE End(k, "refused")
  BY <1>1, <1>2, <1>3, Ended, StepKeeps DEF IInv
<1>4. CASE callback' = [callback EXCEPT ![k].status = "exchange", ![k].idp = conn[Conn(k)].idp]
  <2> DEFINE new == [callback[k] EXCEPT !.status = "exchange", !.idp = conn[Conn(k)].idp]
  <2>1. conn[Conn(k)].idp \in Idps
    BY <1>1 DEF IInv, TypeOK, ConfigTypeOK, ConnType
  <2>2. Fits(k, new)
    BY <2>1 DEF IInv, TypeOK, CallbackType, Fits, Signed
  <2>3. callback' = [callback EXCEPT ![k] = new]
    BY <1>4
  <2> QED BY <1>1, <1>2, <2>2, <2>3, StepKeeps
<1> QED BY <1>3, <1>4 DEF LoadConnection

LEMMA PublishedTyped ==
    ASSUME TypeOK, NEW i \in Idps
    PROVE  Published(i) \in Keys /\ Published(i).idp = i /\ Published(i).key = key[i]
BY DEF TypeOK, Published, Keys

LEMMA ExchangeKeeps == ASSUME IInv, NEW k \in Callbacks, ExchangeCode(k) PROVE IInv'
<1>1. At(k, "exchange") /\ UNCHANGED <<configVars, key, jwks, state>>
  BY DEF ExchangeCode
<1>2. PICK d \in Idps :
         /\ Discovers(Conn(k), callback[k].idp, d)
         /\ \/ callback' = [callback EXCEPT ![k].status = "validate", ![k].token = Published(d)]
            \/ End(k, "refused")
  BY DEF ExchangeCode
<1>3. Conn(k) \in Connections /\ callback[k].idp \in Idps /\ ~At(k, "idle")
  BY <1>1 DEF IInv, TypeOK, At
<1>4. docs' \in [Connections -> Idps \cup {NoIdp}] /\ jwks' \in [Connections -> Keys]
  BY <1>1, <1>2, <1>3, DiscoversTyped DEF IInv, TypeOK
<1>5. CASE End(k, "refused")
  BY <1>1, <1>3, <1>4, <1>5, Ended, StepKeeps DEF IInv
<1>6. CASE callback' = [callback EXCEPT ![k].status = "validate", ![k].token = Published(d)]
  <2> DEFINE new == [callback[k] EXCEPT !.status = "validate", !.token = Published(d)]
  <2>1. Published(d) \in Keys /\ Published(d).idp = d /\ Published(d).key = key[d]
    BY PublishedTyped DEF IInv
  <2>2. key[d] \in Int
    BY DEF IInv, TypeOK
  <2>3. Fits(k, new)
    <3>1. new \in CallbackType
      BY <2>1 DEF IInv, TypeOK, CallbackType
    <3>2. /\ new.status = "validate" /\ new.state = callback[k].state
          /\ new.idp = callback[k].idp /\ new.token = Published(d)
      BY DEF IInv, TypeOK, CallbackType
    <3> HIDE DEF new
    <3> QED BY <1>3, <2>1, <2>2, <3>1, <3>2 DEF Fits
  <2>4. callback' = [callback EXCEPT ![k] = new]
    BY <1>6
  <2> QED BY <1>1, <1>3, <1>4, <2>3, <2>4, StepKeeps
<1> QED BY <1>2, <1>5, <1>6

LEMMA ValidateKeeps == ASSUME IInv, NEW k \in Callbacks, ValidateIDToken(k) PROVE IInv'
<1>1. At(k, "validate") /\ UNCHANGED <<configVars, key, state>>
  BY DEF ValidateIDToken
<1>2. Conn(k) \in Connections /\ callback[k].idp \in Idps /\ ~At(k, "idle")
      /\ callback[k].token.idp \in Idps
  BY <1>1 DEF IInv, TypeOK, At
<1>3. NoKeys \in Keys
  BY ConfigAssumption DEF ConfigAssumption, NoKeys, Keys
<1>4. PICK d \in Idps, keys \in Keys, kept \in Keys,
           status \in {"domain", "refused", "refresh"} :
         /\ Discovers(Conn(k), callback[k].idp, d)
         /\ jwks' \in {jwks, [jwks EXCEPT ![Conn(k)] = kept], [jwks EXCEPT ![Conn(k)] = keys]}
         /\ callback' = [callback EXCEPT ![k].doc = d, ![k].status = status]
  BY <1>3 DEF ValidateIDToken
<1>5. docs' \in [Connections -> Idps \cup {NoIdp}] /\ jwks' \in [Connections -> Keys]
  BY <1>2, <1>4, DiscoversTyped DEF IInv, TypeOK
<1> DEFINE new == [callback[k] EXCEPT !.doc = d, !.status = status]
<1>6. Fits(k, new)
  BY <1>2 DEF IInv, TypeOK, CallbackType, Fits, Signed
<1>7. callback' = [callback EXCEPT ![k] = new]
  BY <1>4
<1> QED BY <1>1, <1>2, <1>5, <1>6, <1>7, StepKeeps

\* The second try refuses only what the keys of the document, as they are published now, do
\* not sign; and no key is from the future.
LEMMA RefreshKeeps == ASSUME IInv, NEW k \in Callbacks, Refresh(k) PROVE IInv'
<1>1. At(k, "refresh") /\ UNCHANGED <<configVars, key, docs, jwks, state>>
  BY DEF Refresh
<1> DEFINE tok == callback[k].token
           doc == callback[k].doc
<1>2. ~At(k, "idle") /\ callback[k].idp \in Idps /\ doc \in Idps
  BY <1>1 DEF IInv, TypeOK, At
<1>3. docs' \in [Connections -> Idps \cup {NoIdp}] /\ jwks' \in [Connections -> Keys]
  BY <1>1 DEF IInv, TypeOK
<1>4. tok.key \in Int /\ key[doc] \in Int /\ (tok.idp = doc => tok.key <= key[doc])
  BY <1>2 DEF IInv, TypeOK, CallbackType, Keys, Signed
<1>5. CASE SignedBy(tok, Published(doc))
  <2> DEFINE new == [callback[k] EXCEPT !.status = "domain"]
  <2>1. tok.idp = doc
    BY <1>2, <1>5, PublishedTyped DEF IInv, SignedBy
  <2>2. Fits(k, new)
    BY <1>2, <2>1 DEF IInv, TypeOK, CallbackType, Fits, Signed
  <2>3. callback' = [callback EXCEPT ![k] = new]
    BY <1>5 DEF Refresh, Goto
  <2> QED BY <1>1, <1>2, <1>3, <2>2, <2>3, StepKeeps
<1>6. CASE ~SignedBy(tok, Published(doc))
  <2> DEFINE new == [callback[k] EXCEPT !.status = "badsignature"]
  <2>1. tok.idp # doc \/ tok.key < key[doc] - 1
    <3>1. tok.idp # doc \/ tok.key \notin {key[doc] - 1, key[doc]}
      BY <1>2, <1>6, PublishedTyped DEF IInv, SignedBy
    <3> QED BY <1>4, <3>1
  <2>2. Fits(k, new)
    BY <1>2, <2>1 DEF IInv, TypeOK, CallbackType, Fits, Signed
  <2>3. callback' = [callback EXCEPT ![k] = new]
    BY <1>6 DEF Refresh, Goto
  <2> QED BY <1>1, <1>2, <1>3, <2>2, <2>3, StepKeeps
<1> QED BY <1>5, <1>6

\* The rest of a callback keeps or drops the token.
LEMMA LastKeeps ==
    ASSUME IInv, NEW k \in Callbacks, CheckDomain(k) \/ MintSession(k) \/ CallbackFails(k)
    PROVE  IInv'
<1>1. ~At(k, "idle") /\ UNCHANGED <<configVars, key, docs, jwks, state>>
  BY DEF CheckDomain, MintSession, CallbackFails, At
<1>2. docs' \in [Connections -> Idps \cup {NoIdp}] /\ jwks' \in [Connections -> Keys]
  BY <1>1 DEF IInv, TypeOK
<1>3. CASE CheckDomain(k) \/ CallbackFails(k)
  <2>1. PICK status \in {"refused", "mint"} : End(k, status)
    BY <1>3 DEF CheckDomain, CallbackFails
  <2> QED BY <1>1, <1>2, <2>1, Ended, StepKeeps DEF IInv
<1>4. CASE MintSession(k)
  <2> DEFINE new == [callback[k] EXCEPT !.status = "session"]
  <2>1. Fits(k, new)
    BY DEF IInv, TypeOK, CallbackType, Fits, Signed
  <2>2. callback' = [callback EXCEPT ![k] = new]
    BY <1>4 DEF MintSession, Goto
  <2> QED BY <1>1, <1>2, <2>1, <2>2, StepKeeps
<1> QED BY <1>3, <1>4

------------------------------------------------------------------------------
(* Keys and caches. *)

LEMMA RotateKeeps == ASSUME IInv, NEW i \in Idps, Rotate(i) PROVE IInv'
<1> USE DEF IInv
<1>1. /\ changes < MaxChanges /\ changes' = changes + 1 /\ key' = [key EXCEPT ![i] = @ + 1]
      /\ UNCHANGED <<conn, domain, patch, verify, docs, jwks, state, callback>>
  BY DEF Rotate, Change
<1>2. changes \in 0 .. MaxChanges /\ MaxChanges \in Nat /\ key[i] \in Nat /\ key[i] <= changes
  BY ConfigAssumption DEF ConfigAssumption, TypeOK, ConfigTypeOK, Counted
<1>3. ConfigTypeOK' /\ Unique'
  BY <1>1, <1>2 DEF TypeOK, ConfigTypeOK, Unique, Claims
<1>4. key[i] + 1 \in 0 .. MaxChanges
  BY <1>1, <1>2
<1>5. key' \in [Idps -> 0 .. MaxChanges] /\ \A j \in Idps : key[j] <= key'[j]
  BY <1>1, <1>4 DEF TypeOK
<1>6. Counted'
  BY <1>1, <1>2 DEF Counted, TypeOK
<1>7. TypeOK'
  BY <1>1, <1>3, <1>5 DEF TypeOK, At, Conn
<1>8. Begun' /\ Taken' /\ Distinct'
  BY <1>1 DEF Begun, Taken, Distinct, At
<1>9. \A k \in Callbacks : callback[k].token.key \in Int
  BY DEF TypeOK, CallbackType, Keys
<1>10. Signed'
  BY <1>1, <1>5, <1>9 DEF Signed, TypeOK
<1>11. RefusedRightly'
  <2> SUFFICES ASSUME NEW k \in Callbacks, At(k, "badsignature"),
                      callback[k].token.idp = callback[k].doc
               PROVE  callback[k].token.key < key'[callback[k].doc] - 1
    BY <1>1 DEF RefusedRightly, At
  <2>1. callback[k].doc \in Idps
    BY DEF TypeOK, At
  <2>2. callback[k].token.key < key[callback[k].doc] - 1
    BY DEF RefusedRightly
  <2> QED BY <1>5, <1>9, <2>1, <2>2 DEF TypeOK
<1> QED BY <1>3, <1>6, <1>7, <1>8, <1>10, <1>11

LEMMA CacheKeeps == ASSUME IInv, NEW c \in Connections, CacheExpires(c) PROVE IInv'
<1> USE DEF IInv
<1>1. /\ changes < MaxChanges /\ changes' = changes + 1
      /\ UNCHANGED <<conn, domain, patch, verify, key, state, callback>>
  BY DEF CacheExpires, Change
<1>2. NoKeys \in Keys
  BY ConfigAssumption DEF ConfigAssumption, NoKeys, Keys
<1>3. docs' \in [Connections -> Idps \cup {NoIdp}] /\ jwks' \in [Connections -> Keys]
  BY <1>2 DEF CacheExpires, TypeOK
<1>4. ConfigTypeOK' /\ Unique' /\ Counted'
  BY <1>1, ConfigAssumption DEF ConfigAssumption, TypeOK, ConfigTypeOK, Unique, Claims, Counted
<1>5. TypeOK'
  BY <1>1, <1>3, <1>4 DEF TypeOK, At, Conn
<1>6. Begun' /\ Taken' /\ Distinct' /\ Signed' /\ RefusedRightly'
  BY <1>1 DEF Begun, Taken, Distinct, Signed, RefusedRightly, At
<1> QED BY <1>4, <1>5, <1>6

------------------------------------------------------------------------------
LEMMA StutterKeeps == ASSUME IInv, UNCHANGED vars PROVE IInv'
<1> USE DEF IInv, vars, configVars, loginVars
<1>1. TypeOK' /\ Unique' /\ Counted'
  BY DEF TypeOK, ConfigTypeOK, Unique, Claims, Counted, At, Conn
<1>2. Begun' /\ Taken' /\ Distinct' /\ Signed' /\ RefusedRightly'
  BY DEF Begun, Taken, Distinct, Signed, RefusedRightly, At
<1> QED BY <1>1, <1>2

LEMMA NextInv == IInv /\ [Next]_vars => IInv'
<1> SUFFICES ASSUME IInv, [Next]_vars PROVE IInv'
  OBVIOUS
<1>1. CASE ConfigStep /\ UNCHANGED loginVars
  BY <1>1, ConfigKeeps
<1>2. ASSUME NEW t \in States, StateExpires(t) PROVE IInv'
  BY <1>2, ExpiryKeeps
<1>3. ASSUME NEW t \in States, NEW c \in Connections, Initiate(t, c) PROVE IInv'
  BY <1>3, InitiateKeeps
<1>4. ASSUME NEW k \in Callbacks, CallbackStep(k) PROVE IInv'
  <2>1. ASSUME NEW t \in States, Consume(k, t) PROVE IInv'
    BY <2>1, ConsumeKeeps
  <2>2. CASE LoadConnection(k) BY <2>2, LoadKeeps
  <2>3. CASE ExchangeCode(k) BY <2>3, ExchangeKeeps
  <2>4. CASE ValidateIDToken(k) BY <2>4, ValidateKeeps
  <2>5. CASE Refresh(k) BY <2>5, RefreshKeeps
  <2>6. CASE CheckDomain(k) \/ MintSession(k) \/ CallbackFails(k) BY <2>6, LastKeeps
  <2> QED BY <1>4, <2>1, <2>2, <2>3, <2>4, <2>5, <2>6 DEF CallbackStep
<1>5. ASSUME NEW i \in Idps, Rotate(i) PROVE IInv'
  BY <1>5, RotateKeeps
<1>6. ASSUME NEW c \in Connections, CacheExpires(c) PROVE IInv'
  BY <1>6, CacheKeeps
<1>7. CASE UNCHANGED vars
  BY <1>7, StutterKeeps
<1> QED BY <1>1, <1>2, <1>3, <1>4, <1>5, <1>6, <1>7 DEF Next

\* So it always holds.
LEMMA Invariance == Spec => []IInv
BY InitInv, NextInv, PTL DEF Spec

\* The rows, caches, logins and callbacks keep their types: a callback past its state has a
\* connection, and past the connection's row a provider.
THEOREM TypeCorrect == Spec => []TypeOK
BY Invariance, PTL DEF IInv

\* Rows of one claimed domain route to one connection, since the verified one is unique.
LEMMA UniqueRoutes == ASSUME ConfigTypeOK, Unique PROVE OneClaim
<1>1. ASSUME NEW n \in Names PROVE Cardinality(Routes(n)) <= 1
  <2>1. CASE Routes(n) = {}
    BY <2>1, FS_EmptySet
  <2>2. CASE Routes(n) # {}
    <3>1. PICK c : c \in Routes(n)
      BY <2>2
    <3>2. \A e \in Routes(n) : e = c
      BY <3>1 DEF Routes, Unique, Claims
    <3>3. Routes(n) = {c}
      BY <3>1, <3>2
    <3>4. Cardinality({c}) = 1
      BY FS_Singleton
    <3> QED BY <3>3, <3>4
  <2> QED BY <2>1, <2>2
<1> QED BY <1>1 DEF OneClaim, Unique

\* However many claims and verifications of however many organizations interleave, a domain
\* is claimed once and its logins go to one connection (the unique index, verifyDomain).
THEOREM ClaimedOnce == Spec => []OneClaim
<1>1. IInv => OneClaim
  BY UniqueRoutes DEF IInv, TypeOK
<1> QED BY <1>1, Invariance, PTL

\* However often the callbacks of however many logins are delivered, one callback of a login
\* gets a token, and a session: the GETDEL hands a state out once (StateStore.Consume).
THEOREM UsedOnce == Spec => []StateUsedOnce
<1>1. IInv => StateUsedOnce
  BY DEF IInv, Distinct, StateUsedOnce, HasToken, At
<1> QED BY <1>1, Invariance, PTL

\* A login whose signature is refused at last was signed by another provider or with a key
\* withdrawn since, whatever the caches had (ValidateIDToken).
THEOREM NoStaleRefusal == Spec => []RefusedRightly
BY Invariance, PTL DEF IInv
=============================================================================
