---------------------------- MODULE SessionsProofs ----------------------------
(***************************************************************************)
(* Types, AtMostCap and ResetRevokesAll of Sessions, and its refinement of *)
(* SessionPromise, for any number of users, requests, caches and sessions, *)
(* and any cap.                                                            *)
(***************************************************************************)
EXTENDS Sessions, FiniteSetTheorems, TLAPS

\* What a request q in flight can rely on.  Its NOW() is in the past.  It has a session,
\* unless it resets or has not begun to mint; while it mints, that session is its user's
\* and not committed.  After the count, the live sessions are no more than counted, and
\* without those it has picked there is a free seat.  What was live when the reset was
\* redeemed is the user's, is found by the last UPDATE if it is still live, and is not
\* live afterwards.
Sound(q) ==
    /\ q.exp \subseteq expired
    /\ \A s \in q.old : s < next /\ user[s] = q.user
    /\ q.pc \in Minting \cup {"begin", "put"} => q.op = "mint"
    /\ q.pc \in {"snap", "grab", "wipe", "unrevoked"} => q.op = "reset"
    /\ q.op = "reset" => q.pc \in {"snap", "grab", "wipe", "evict", "unrevoked"}
    /\ q.op # "reset" => q.old = {}
    /\ q.op # "reset" /\ q.pc \notin {"idle", "begin"} => q.s \in Ids
    /\ q.pc \in Minting =>
         q.s \in Ids /\ q.s < next /\ user[q.s] = q.user /\ rows[q.s] = "none"
    /\ q.pc = "pick" => Cap > 0 /\ Cardinality(Live(q.user, q.exp)) < q.excess + Cap
    /\ q.pc = "commit" /\ Cap > 0 => Cardinality(Live(q.user, q.exp) \ q.ids) < Cap
    /\ q.pc = "wipe" => \A s \in q.old : IsLive(rows[s], s, expired) => s \in q.upd
    /\ q.pc = "evict" => \A s \in q.old : ~IsLive(rows[s], s, expired)

\* Of two requests, the session that p mints is not minted by q nor known to its reset, and
\* only one has the advisory lock of a user.
Apart(p, q) ==
    /\ p.pc \in Minting => p.s \notin q.old
    /\ p.pc \in Minting /\ q.pc \in Minting => p.s # q.s
    /\ HasMintLock(p) /\ HasMintLock(q) => p.user # q.user

\* What has not begun is not in the table.
Fresh == \A s \in Ids : s >= next => rows[s] = "none"

IInv ==
    /\ TypeOK /\ Fresh /\ AtMostCap
    /\ \A r \in Reqs : Sound(req[r])
    /\ \A r, q \in Reqs : r # q => Apart(req[r], req[q])
------------------------------------------------------------------------------
LEMMA LiveFinite ==
    ASSUME NEW u, NEW exp PROVE IsFiniteSet(Live(u, exp)) /\ Live(u, exp) \subseteq Ids
<1>1. IsFiniteSet(Ids) BY SessionsAssumption, FS_Interval DEF SessionsAssumption, Ids
<1>2. Live(u, exp) \subseteq Ids BY DEF Live
<1> QED BY <1>1, <1>2, FS_Subset

\* A subset of a finite set has at most as many elements.
LEMMA Smaller ==
    ASSUME NEW S, NEW T, IsFiniteSet(T), S \subseteq T
    PROVE  /\ Cardinality(S) \in Nat /\ Cardinality(T) \in Nat
           /\ Cardinality(S) <= Cardinality(T)
BY FS_Subset, FS_CardinalityType

LEMMA IdleTyped == Idle \in ReqType
BY SessionsAssumption DEF SessionsAssumption, Idle, ReqType, Ops, PCs, Statuses

\* Nothing that a request relies on is lost when rows are revoked or deleted, sessions
\* expire, and nothing is committed.
LEMMA Weaker ==
    ASSUME TypeOK, TypeOK', Fresh, AtMostCap, next' = next, user' = user,
           expired \subseteq expired',
           \A s \in Ids : /\ rows'[s] = "live" => rows[s] = "live"
                          /\ rows[s] = "none" => rows'[s] = "none"
    PROVE  /\ Fresh' /\ AtMostCap'
           /\ \A q \in ReqType : Sound(q) => Sound(q)'
<1>1. Fresh' BY DEF Fresh, TypeOK
<1>2. ASSUME NEW u, NEW exp PROVE Live(u, exp)' \subseteq Live(u, exp) BY DEF Live
<1>3. AtMostCap'
  <2> SUFFICES ASSUME Cap > 0, NEW u \in Users PROVE Cardinality(Live(u, expired)') <= Cap
    BY DEF AtMostCap
  <2>1. Live(u, expired)' \subseteq Live(u, expired) BY DEF Live
  <2>2. Cardinality(Live(u, expired)') <= Cardinality(Live(u, expired))
        /\ Cardinality(Live(u, expired)') \in Nat /\ Cardinality(Live(u, expired)) \in Nat
    BY <2>1, LiveFinite, Smaller
  <2> QED BY <2>2, SessionsAssumption DEF AtMostCap, SessionsAssumption
<1>4. ASSUME NEW q \in ReqType, Sound(q) PROVE Sound(q)'
  <2>1. Live(q.user, q.exp)' \subseteq Live(q.user, q.exp) BY <1>2
  <2>2. Cardinality(Live(q.user, q.exp)') <= Cardinality(Live(q.user, q.exp))
        /\ Cardinality(Live(q.user, q.exp)') \in Nat /\ Cardinality(Live(q.user, q.exp)) \in Nat
    BY <2>1, LiveFinite, Smaller
  <2>3. IsFiniteSet(Live(q.user, q.exp) \ q.ids)
    BY LiveFinite, FS_Subset
  <2>4. Cardinality(Live(q.user, q.exp)' \ q.ids) <= Cardinality(Live(q.user, q.exp) \ q.ids)
        /\ Cardinality(Live(q.user, q.exp)' \ q.ids) \in Nat
        /\ Cardinality(Live(q.user, q.exp) \ q.ids) \in Nat
    BY <2>1, <2>3, Smaller
  <2>5. q.excess \in Nat /\ Cap \in Nat BY SessionsAssumption DEF SessionsAssumption, ReqType
  <2>6. q.pc = "pick" => Cap > 0 /\ Cardinality(Live(q.user, q.exp)') < q.excess + Cap
    BY <1>4, <2>2, <2>5 DEF Sound
  <2>7. q.pc = "commit" /\ Cap > 0 => Cardinality(Live(q.user, q.exp)' \ q.ids) < Cap
    BY <1>4, <2>4, <2>5 DEF Sound
  <2>8. \A s \in q.old : s \in Ids BY DEF ReqType
  <2>9. \A s \in q.old : IsLive(rows[s], s, expired)' => IsLive(rows[s], s, expired)
    BY <2>8 DEF IsLive
  <2> HIDE DEF Live, IsLive
  <2> QED BY <1>4, <2>6, <2>7, <2>9 DEF Sound
<1> QED BY <1>1, <1>3, <1>4

\* A step in which one request becomes q, and nothing is committed.
LEMMA RequestStep ==
    ASSUME IInv, TypeOK', next' = next, user' = user, expired' = expired,
           \A s \in Ids : /\ rows'[s] = "live" => rows[s] = "live"
                          /\ rows[s] = "none" => rows'[s] = "none",
           NEW r \in Reqs, NEW q \in ReqType, req' = [req EXCEPT ![r] = q],
           Sound(q)', \A p \in Reqs \ {r} : Apart(req[p], q) /\ Apart(q, req[p])
    PROVE  IInv'
<1>1. Fresh' /\ AtMostCap' /\ \A p \in ReqType : Sound(p) => Sound(p)'
  BY Weaker DEF IInv
<1>2. ASSUME NEW p \in Reqs PROVE Sound(req[p])'
  <2>1. CASE p = r BY <2>1 DEF IInv, TypeOK
  <2>2. CASE p # r
    <3>1. req'[p] = req[p] /\ req[p] \in ReqType /\ Sound(req[p]) BY <2>2 DEF IInv, TypeOK
    <3>2. PICK o \in ReqType : o = req[p] BY <3>1
    <3>3. Sound(o)' BY <1>1, <3>1, <3>2
    <3> QED BY <3>1, <3>2, <3>3, Zenon
  <2> QED BY <2>1, <2>2
<1>3. ASSUME NEW p \in Reqs, NEW o \in Reqs, p # o PROVE Apart(req[p], req[o])'
  <2>1. Apart(req'[p], req'[o]) BY <1>3 DEF IInv, TypeOK
  <2> QED BY <2>1 DEF Apart, HasMintLock
<1> QED BY <1>1, <1>2, <1>3 DEF IInv

\* The same when the table, the users and the time stay as they are.
LEMMA QuietStep ==
    ASSUME IInv, UNCHANGED <<rows, user, expired, next>>,
           cache' \in [Caches -> [Ids -> Statuses]], tokens' \subseteq Ids,
           redeemed' \subseteq Users,
           NEW r \in Reqs, NEW q \in ReqType, Become(r, q), Sound(q),
           \A p \in Reqs \ {r} : Apart(req[p], q) /\ Apart(q, req[p])
    PROVE  IInv'
<1>1. TypeOK' BY DEF IInv, TypeOK, Become
<1>2. Sound(q)' BY DEF Sound, Live, IsLive
<1> QED BY <1>1, <1>2, RequestStep DEF Become

\* What Afresh keeps and forgets.
LEMMA AfreshTyped ==
    ASSUME NEW q \in ReqType
    PROVE  /\ Afresh(q) \in ReqType
           /\ Afresh(q).op = q.op /\ Afresh(q).cache = q.cache
           /\ Afresh(q).user = q.user /\ Afresh(q).s = q.s
           /\ Afresh(q).exp = {} /\ Afresh(q).old = {} /\ Afresh(q).ids = {}
BY IdleTyped DEF Afresh, Idle, ReqType

\* Every end of a request.
LEMMA EndStep ==
    ASSUME IInv, UNCHANGED <<rows, user, expired, next>>,
           cache' \in [Caches -> [Ids -> Statuses]], tokens' \subseteq Ids,
           redeemed' \subseteq Users, NEW r \in Reqs, Become(r, Idle)
    PROVE  IInv'
<1>1. Sound(Idle) BY DEF Sound, Idle, Minting
<1>2. \A p \in Reqs \ {r} : Apart(req[p], Idle) /\ Apart(Idle, req[p])
  BY DEF Apart, Idle, Minting, HasMintLock
<1> QED BY <1>1, <1>2, IdleTyped, QuietStep

\* A failed or successful Put keeps the type of the caches.
LEMMA PutTyped ==
    ASSUME TypeOK, NEW c, NEW s, NEW status \in Statuses, Put(c, s, status)
    PROVE  cache' \in [Caches -> [Ids -> Statuses]]
BY DEF TypeOK, Put

\* A request that neither mints nor resets relies on nothing.
LEMMA PlainStep ==
    ASSUME IInv, UNCHANGED <<rows, user, expired, next>>,
           cache' \in [Caches -> [Ids -> Statuses]], tokens' \subseteq Ids,
           redeemed' \subseteq Users, NEW r \in Reqs, NEW q \in ReqType, Become(r, q),
           q.pc \notin Minting \cup {"begin", "put", "snap", "grab", "wipe", "unrevoked"},
           q.op # "reset", q.old = {}, q.exp \subseteq expired,
           q.s \in Ids
    PROVE  IInv'
<1>1. Sound(q) BY DEF Sound, Minting
<1>2. \A p \in Reqs \ {r} : Apart(req[p], q) /\ Apart(q, req[p])
  BY DEF Apart, Minting, HasMintLock
<1> QED BY <1>1, <1>2, QuietStep
------------------------------------------------------------------------------
\* Starting a request.
LEMMA StartStep ==
    ASSUME IInv, NEW r \in Reqs, Start(r) PROVE IInv'
<1> USE IdleTyped
<1>t. TypeOK BY DEF IInv
<1>1. CASE Login(r)
  <2>1. PICK u \in Users, c \in Caches :
          Become(r, [Idle EXCEPT !.op = "mint", !.pc = "begin", !.cache = c, !.user = u])
    BY <1>1 DEF Login
  <2> DEFINE q == [Idle EXCEPT !.op = "mint", !.pc = "begin", !.cache = c, !.user = u]
  <2>2. q \in ReqType BY DEF Idle, ReqType, Ops, PCs
  <2>3. Sound(q) BY DEF Sound, Idle, Minting
  <2>4. \A p \in Reqs \ {r} : Apart(req[p], q) /\ Apart(q, req[p])
    BY DEF Apart, Idle, Minting, HasMintLock
  <2> HIDE DEF q
  <2> QED BY <1>1, <1>t, <2>1, <2>2, <2>3, <2>4, QuietStep DEF Login, TypeOK, q
<1>2. CASE Validate(r)
  <2>1. PICK s \in tokens, c \in Caches, op \in {"validate", "switch"} :
          Become(r, [Idle EXCEPT !.op = op, !.pc = "get", !.cache = c, !.user = user[s],
                                 !.s = s, !.exp = expired])
    BY <1>2 DEF Validate
  <2> DEFINE q == [Idle EXCEPT !.op = op, !.pc = "get", !.cache = c, !.user = user[s],
                               !.s = s, !.exp = expired]
  <2>2. s \in Ids /\ user[s] \in Users \cup {Nobody} /\ expired \subseteq Ids
    BY <1>t DEF TypeOK
  <2>3. /\ q \in ReqType /\ q.pc = "get" /\ q.op # "reset" /\ q.old = {} /\ q.exp = expired
        /\ q.s = s
    BY <2>2 DEF Idle, ReqType, Ops, PCs
  <2> HIDE DEF q
  <2> QED BY <1>2, <1>t, <2>1, <2>2, <2>3, PlainStep DEF Validate, TypeOK, q, Minting
<1>3. CASE Logout(r)
  <2>1. PICK s \in tokens, c \in Caches :
          Become(r, [Idle EXCEPT !.op = "logout", !.pc = "revoke", !.cache = c,
                                 !.user = user[s], !.s = s])
    BY <1>3 DEF Logout
  <2> DEFINE q == [Idle EXCEPT !.op = "logout", !.pc = "revoke", !.cache = c,
                               !.user = user[s], !.s = s]
  <2>2. s \in Ids /\ user[s] \in Users \cup {Nobody} BY <1>t DEF TypeOK
  <2>3. /\ q \in ReqType /\ q.pc = "revoke" /\ q.op # "reset" /\ q.old = {} /\ q.exp = {}
        /\ q.s = s
    BY <2>2 DEF Idle, ReqType, Ops, PCs
  <2> HIDE DEF q
  <2> QED BY <1>3, <1>t, <2>1, <2>2, <2>3, PlainStep DEF Logout, TypeOK, q, Minting
<1>4. CASE Redeem(r)
  <2>1. PICK u \in Users, c \in Caches :
          /\ redeemed' = redeemed \cup {u}
          /\ Become(r, [Idle EXCEPT !.op = "reset", !.pc = "snap", !.cache = c, !.user = u,
                                    !.old = Live(u, {})])
    BY <1>4 DEF Redeem
  <2> DEFINE q == [Idle EXCEPT !.op = "reset", !.pc = "snap", !.cache = c, !.user = u,
                               !.old = Live(u, {})]
  <2>2. /\ q \in ReqType /\ q.pc = "snap" /\ q.op = "reset" /\ q.exp = {}
        /\ q.user = u /\ q.old = Live(u, {})
    BY LiveFinite DEF Idle, ReqType, Ops, PCs
  <2>3. \A s \in Live(u, {}) : s \in Ids /\ rows[s] = "live" /\ user[s] = u BY DEF Live
  <2>4. \A s \in Live(u, {}) : s < next
    BY <1>t, <2>3 DEF IInv, Fresh, TypeOK, Ids
  <2> HIDE DEF q
  <2>5. Sound(q) BY <2>2, <2>3, <2>4 DEF Sound, Minting
  <2>6. ASSUME NEW p \in Reqs \ {r} PROVE Apart(req[p], q) /\ Apart(q, req[p])
    <3>1. req[p].pc \in Minting => rows[req[p].s] = "none" BY DEF IInv, Sound
    <3> QED BY <2>2, <2>3, <3>1 DEF Apart, Minting, HasMintLock
  <2> QED BY <1>4, <1>t, <2>1, <2>2, <2>5, <2>6, QuietStep DEF Redeem, TypeOK, q
<1> QED BY <1>1, <1>2, <1>3, <1>4 DEF Start

\* A request changes fields that the others do not look at, and keeps its lock.
LEMMA SameApart ==
    ASSUME IInv, NEW r \in Reqs, NEW q,
           q.s = req[r].s, q.user = req[r].user, q.old \subseteq req[r].old,
           q.pc \in Minting => req[r].pc \in Minting,
           HasMintLock(q) => HasMintLock(req[r])
    PROVE  \A p \in Reqs \ {r} : Apart(req[p], q) /\ Apart(q, req[p])
BY DEF IInv, Apart

\* Validation.
LEMMA ValidateStep ==
    ASSUME IInv, NEW r \in Reqs,
           CacheGet(r) \/ ReadRow(r) \/ Touch(r) \/ Fill(r) \/ Accept(r)
    PROVE  IInv'
<1> DEFINE o == req[r]
<1>t. TypeOK /\ o \in ReqType /\ Sound(o) BY DEF IInv, TypeOK
<1>o. /\ o.pc \in {"get", "read", "touch", "fill", "accepted"}
      /\ o.op # "reset" /\ o.old = {} /\ o.exp \subseteq expired /\ o.s \in Ids
  BY <1>t DEF Sound, CacheGet, ReadRow, Touch, Fill, Accept
<1>a. /\ Afresh(o) \in ReqType /\ Afresh(o).op = o.op /\ Afresh(o).s = o.s
      /\ Afresh(o).exp = {} /\ Afresh(o).old = {}
  BY <1>t, AfreshTyped
<1>c. cache \in [Caches -> [Ids -> Statuses]] /\ tokens \subseteq Ids /\ redeemed \subseteq Users
  BY <1>t DEF TypeOK
<1>u. /\ UNCHANGED <<rows, user, expired, next, tokens, redeemed>>
      /\ cache' \in [Caches -> [Ids -> Statuses]]
  <2>1. CASE Fill(r)
    BY <2>1, <1>t, PutTyped DEF Fill, ReqType
  <2> QED BY <2>1, <1>c DEF CacheGet, ReadRow, Touch, Accept
<1> HIDE DEF o
<1>1. ASSUME NEW q \in ReqType, Become(r, q),
             q.pc \in {"get", "read", "touch", "fill", "accepted", "revoke", "evict"},
             q.op # "reset", q.old = {}, q.exp \subseteq expired, q.s \in Ids
      PROVE  IInv'
  BY <1>1, <1>c, <1>u, PlainStep DEF Minting
<1>2. ASSUME Become(r, Idle) PROVE IInv' BY <1>2, <1>c, <1>u, EndStep
<1>3. CASE Become(r, [Afresh(o) EXCEPT !.pc = "accepted"])
  <2> DEFINE q == [Afresh(o) EXCEPT !.pc = "accepted"]
  <2>1. /\ q \in ReqType /\ q.pc = "accepted" /\ q.op = o.op /\ q.s = o.s
        /\ q.exp = {} /\ q.old = {}
    BY <1>a DEF ReqType, PCs
  <2> HIDE DEF q
  <2> QED BY <1>o, <1>3, <1>1, <2>1 DEF q
<1>4. CASE Become(r, [Afresh(o) EXCEPT !.op = "validate", !.pc = "evict", !.ids = {o.s}])
  <2> DEFINE q == [Afresh(o) EXCEPT !.op = "validate", !.pc = "evict", !.ids = {o.s}]
  <2>1. /\ q \in ReqType /\ q.pc = "evict" /\ q.op = "validate" /\ q.s = o.s
        /\ q.exp = {} /\ q.old = {}
    BY <1>a, <1>o DEF ReqType, PCs, Ops
  <2> HIDE DEF q
  <2> QED BY <1>o, <1>4, <1>1, <2>1 DEF q
<1>5. ASSUME NEW pc \in {"read", "fill", "revoke"}, Become(r, [o EXCEPT !.pc = pc])
      PROVE  IInv'
  <2> DEFINE q == [o EXCEPT !.pc = pc]
  <2>1. /\ q \in ReqType /\ q.pc = pc /\ q.op = o.op /\ q.s = o.s
        /\ q.exp = o.exp /\ q.old = o.old
    BY <1>t DEF ReqType, PCs
  <2> HIDE DEF q
  <2> QED BY <1>o, <1>5, <1>1, <2>1 DEF q
<1>6. CASE Become(r, [o EXCEPT !.pc = "touch", !.row = "live"])
  <2> DEFINE q == [o EXCEPT !.pc = "touch", !.row = "live"]
  <2>1. /\ q \in ReqType /\ q.pc = "touch" /\ q.op = o.op /\ q.s = o.s
        /\ q.exp = o.exp /\ q.old = o.old
    BY <1>t DEF ReqType, PCs, Statuses
  <2> HIDE DEF q
  <2> QED BY <1>o, <1>6, <1>1, <2>1 DEF q
<1>7. CASE CacheGet(r) BY <1>7, <1>3, <1>4, <1>5 DEF CacheGet, o
<1>8. CASE ReadRow(r) BY <1>8, <1>6, <1>2 DEF ReadRow, IsLive, o
<1>9. CASE Touch(r) BY <1>9, <1>5 DEF Touch, o
<1>10. CASE Fill(r) BY <1>10, <1>3 DEF Fill, o
<1>11. CASE Accept(r) BY <1>11, <1>2, <1>5 DEF Accept, o
<1> QED BY <1>7, <1>8, <1>9, <1>10, <1>11
------------------------------------------------------------------------------
\* Minting, up to the commit.  The advisory lock keeps apart two mints of a user.
LEMMA MintLockStep ==
    ASSUME IInv, NEW r \in Reqs, MintLock(r) PROVE IInv'
<1> DEFINE o == req[r]
           q == [o EXCEPT !.pc = "count"]
<1>t. TypeOK /\ o \in ReqType /\ Sound(o) BY DEF IInv, TypeOK
<1>1. /\ q \in ReqType /\ q.op = o.op /\ q.pc = "count" /\ q.user = o.user /\ q.s = o.s
      /\ q.exp = o.exp /\ q.old = o.old /\ o.pc = "lock"
  BY <1>t DEF ReqType, PCs, MintLock
<1> HIDE DEF q
<1>2. Sound(q) BY <1>1, <1>t DEF Sound, Minting
<1>3. ASSUME NEW p \in Reqs \ {r} PROVE Apart(req[p], q) /\ Apart(q, req[p])
  <2>1. Apart(req[p], o) /\ Apart(o, req[p]) BY DEF IInv
  <2>2. HasMintLock(req[p]) => req[p].user # o.user BY DEF MintLock
  <2> QED BY <1>1, <2>1, <2>2 DEF Apart, Minting
<1> QED BY <1>1, <1>2, <1>3, <1>t, QuietStep DEF MintLock, TypeOK, q

\* The count bounds the live sessions of the user by Cap and the excess.
LEMMA MintCountStep ==
    ASSUME IInv, NEW r \in Reqs, MintCount(r) PROVE IInv'
<1> DEFINE o == req[r]
           n == Cardinality(Live(o.user, o.exp))
<1>t. TypeOK /\ o \in ReqType /\ Sound(o) BY DEF IInv, TypeOK
<1>o. o.pc = "count" /\ o.op = "mint" BY <1>t DEF MintCount, Sound, Minting
<1>n. n \in Nat /\ Cap \in Nat
  BY LiveFinite, FS_CardinalityType, SessionsAssumption DEF SessionsAssumption
<1>c. cache \in [Caches -> [Ids -> Statuses]] /\ tokens \subseteq Ids /\ redeemed \subseteq Users
  BY <1>t DEF TypeOK
<1>1. CASE Cap > 0 /\ n + 1 > Cap /\ Become(r, [o EXCEPT !.pc = "pick", !.excess = n + 1 - Cap])
  <2> DEFINE q == [o EXCEPT !.pc = "pick", !.excess = n + 1 - Cap]
  <2>e. n + 1 - Cap \in Nat BY <1>n, <1>1
  <2> HIDE DEF n
  <2>1. /\ q \in ReqType /\ q.op = o.op /\ q.pc = "pick" /\ q.user = o.user /\ q.s = o.s
        /\ q.exp = o.exp /\ q.old = o.old /\ q.excess = n + 1 - Cap
    BY <1>t, <2>e DEF ReqType, PCs
  <2>2. n < q.excess + Cap BY <2>1, <1>n
  <2> HIDE DEF q
  <2>3. Sound(q) BY <1>o, <1>1, <2>1, <2>2, <1>t DEF Sound, Minting, n
  <2>4. HasMintLock(o) BY <1>o DEF HasMintLock
  <2>5. \A p \in Reqs \ {r} : Apart(req[p], q) /\ Apart(q, req[p])
    BY <1>o, <2>1, <2>4, SameApart DEF Minting
  <2> QED BY <1>1, <1>c, <2>1, <2>3, <2>5, QuietStep DEF MintCount, q, n
<1>2. CASE ~(Cap > 0 /\ n + 1 > Cap) /\ Become(r, [o EXCEPT !.pc = "commit"])
  <2> DEFINE q == [o EXCEPT !.pc = "commit"]
  <2>1. /\ q \in ReqType /\ q.op = o.op /\ q.pc = "commit" /\ q.user = o.user /\ q.s = o.s
        /\ q.exp = o.exp /\ q.old = o.old /\ q.ids = o.ids
    BY <1>t DEF ReqType, PCs
  <2> HIDE DEF q
  <2>2. Cap > 0 => Cardinality(Live(q.user, q.exp) \ q.ids) < Cap
    <3>1. Cardinality(Live(o.user, o.exp) \ o.ids) <= n
          /\ Cardinality(Live(o.user, o.exp) \ o.ids) \in Nat
      BY LiveFinite, Smaller
    <3> QED BY <1>2, <1>n, <2>1, <3>1
  <2>3. Sound(q) BY <1>o, <2>1, <2>2, <1>t DEF Sound, Minting
  <2>4. HasMintLock(o) BY <1>o DEF HasMintLock
  <2>5. \A p \in Reqs \ {r} : Apart(req[p], q) /\ Apart(q, req[p])
    BY <1>o, <2>1, <2>4, SameApart DEF Minting
  <2> QED BY <1>2, <1>c, <2>1, <2>3, <2>5, QuietStep DEF MintCount, q
<1> QED BY <1>1, <1>2 DEF MintCount

\* Without the oldest n of S, at most n fewer remain.
LEMMA OldestLeave ==
    ASSUME NEW S, IsFiniteSet(S), NEW T, NEW n \in Nat, AreOldest(T, n, S)
    PROVE  /\ Cardinality(S \ T) = 0 \/ Cardinality(S \ T) + n = Cardinality(S)
           /\ Cardinality(S \ T) \in Nat /\ Cardinality(S) \in Nat
<1>1. T \subseteq S BY DEF AreOldest
<1>2. IsFiniteSet(T) /\ IsFiniteSet(S \ T) BY <1>1, FS_Subset, FS_Difference
<1>3. Cardinality(S \ T) = Cardinality(S) - Cardinality(S \cap T) BY FS_Difference
<1>4. Cardinality(S \cap T) = Cardinality(T)
  <2>1. S \cap T = T BY <1>1
  <2> QED BY <2>1
<1>5. Cardinality(S) \in Nat /\ Cardinality(T) \in Nat /\ Cardinality(S \ T) \in Nat
  BY <1>2, FS_CardinalityType
<1>6. CASE Cardinality(T) = n
  <2>1. Cardinality(S \ T) = Cardinality(S) - n BY <1>3, <1>4, <1>6
  <2> QED BY <2>1, <1>5
<1>7. CASE T = S
  <2>1. S \ T = {} BY <1>7
  <2> QED BY <2>1, <1>5, FS_EmptySet
<1> QED BY <1>5, <1>6, <1>7 DEF AreOldest

\* After the pick a seat is free.
LEMMA MintPickStep ==
    ASSUME IInv, NEW r \in Reqs, MintPick(r) PROVE IInv'
<1> DEFINE o == req[r]
           S == Live(o.user, o.exp)
<1>t. TypeOK /\ o \in ReqType /\ Sound(o) BY DEF IInv, TypeOK
<1>o. o.pc = "pick" /\ o.op = "mint" BY <1>t DEF MintPick, Sound, Minting
<1>1. PICK T \in SUBSET S :
        /\ AreOldest(T, o.excess, S)
        /\ Become(r, [o EXCEPT !.pc = "commit", !.ids = T, !.excess = 0])
  BY DEF MintPick
<1> DEFINE q == [o EXCEPT !.pc = "commit", !.ids = T, !.excess = 0]
<1>2. T \subseteq Ids BY LiveFinite
<1>3. /\ q \in ReqType /\ q.op = o.op /\ q.pc = "commit" /\ q.user = o.user /\ q.s = o.s
      /\ q.exp = o.exp /\ q.old = o.old /\ q.ids = T
  BY <1>t, <1>2 DEF ReqType, PCs
<1> HIDE DEF q
<1>4. Cap > 0 /\ Cardinality(S) < o.excess + Cap BY <1>o, <1>t DEF Sound
<1>5. o.excess \in Nat /\ Cap \in Nat
  BY <1>t, SessionsAssumption DEF SessionsAssumption, ReqType
<1>6. Cardinality(S \ T) < Cap
  <2>1. /\ Cardinality(S \ T) = 0 \/ Cardinality(S \ T) + o.excess = Cardinality(S)
        /\ Cardinality(S \ T) \in Nat /\ Cardinality(S) \in Nat
    BY <1>1, <1>5, LiveFinite, OldestLeave
  <2> QED BY <1>4, <1>5, <2>1
<1>7. Sound(q) BY <1>o, <1>3, <1>6, <1>t DEF Sound, Minting
<1>8. HasMintLock(o) BY <1>o DEF HasMintLock
<1>9. \A p \in Reqs \ {r} : Apart(req[p], q) /\ Apart(q, req[p])
  BY <1>o, <1>3, <1>8, SameApart DEF Minting
<1> QED BY <1>t, <1>1, <1>3, <1>7, <1>9, QuietStep DEF MintPick, TypeOK, q

\* A new session is nobody else's, and not in the table.
LEMMA MintBeginStep ==
    ASSUME IInv, NEW r \in Reqs, MintBegin(r) PROVE IInv'
<1> DEFINE o == req[r]
<1>t. TypeOK /\ o \in ReqType /\ Sound(o) BY DEF IInv, TypeOK
<1>n. /\ next \in Ids /\ next' = next + 1 /\ next \in Nat
      /\ rows[next] = "none" /\ rows' = rows /\ expired' = expired
  <2>1. next \in 1 .. MaxSessions + 1 /\ next <= MaxSessions BY <1>t DEF TypeOK, MintBegin
  <2>2. next \in Ids BY <2>1, SessionsAssumption DEF SessionsAssumption, Ids
  <2> QED BY <2>1, <2>2 DEF IInv, Fresh, Ids, MintBegin
<1>q. PICK q \in ReqType :
        /\ q.op = "mint" /\ q.pc = "lock" /\ q.s = next /\ q.exp = expired
        /\ q.user = o.user /\ q.old = {} /\ req' = [req EXCEPT ![r] = q]
  <2> DEFINE w == [Afresh(o) EXCEPT !.pc = "lock", !.s = next, !.exp = expired]
  <2>1. o.op = "mint" BY <1>t DEF MintBegin, Sound
  <2>2. /\ Afresh(o) \in ReqType /\ Afresh(o).op = o.op /\ Afresh(o).user = o.user
        /\ Afresh(o).old = {}
    BY <1>t, AfreshTyped
  <2>3. expired \subseteq Ids BY <1>t DEF TypeOK
  <2>4. /\ w \in ReqType /\ w.op = "mint" /\ w.pc = "lock" /\ w.s = next
        /\ w.exp = expired /\ w.user = o.user /\ w.old = {}
    BY <1>n, <2>1, <2>2, <2>3 DEF ReqType, PCs
  <2>5. req' = [req EXCEPT ![r] = w] BY DEF MintBegin, Become
  <2> HIDE DEF w
  <2> QED BY <2>4, <2>5
<1>u. user' = [user EXCEPT ![next] = o.user] /\ o.user \in Users \cup {Nobody}
  BY <1>t DEF MintBegin, ReqType
<1>l. ASSUME NEW u, NEW exp PROVE Live(u, exp)' = Live(u, exp)
  BY <1>t, <1>n, <1>u DEF Live, TypeOK
<1>1. TypeOK'
  <2>1. next' \in 1 .. MaxSessions + 1
    BY <1>n, SessionsAssumption DEF Ids, SessionsAssumption
  <2> QED BY <1>t, <1>n, <1>q, <1>u, <2>1 DEF TypeOK, MintBegin
<1>2. Fresh' BY <1>n DEF IInv, Fresh, Ids
<1>3. AtMostCap'
  <2>1. \A u \in Users : Live(u, expired)' = Live(u, expired) BY <1>t, <1>n, <1>u DEF Live, TypeOK
  <2> QED BY <2>1 DEF IInv, AtMostCap
<1>4. ASSUME NEW p \in ReqType, Sound(p) PROVE Sound(p)'
  <2>1. Live(p.user, p.exp)' = Live(p.user, p.exp) BY <1>l
  <2>2. \A s \in p.old : s < next' /\ user'[s] = p.user
    <3>1. \A s \in p.old : s \in Ids /\ s < next /\ user[s] = p.user
      BY <1>4 DEF Sound, ReqType
    <3> QED BY <1>t, <1>n, <1>u, <3>1 DEF TypeOK, Ids
  <2>3. p.pc \in Minting =>
          p.s \in Ids /\ p.s < next' /\ user'[p.s] = p.user /\ rows'[p.s] = "none"
    <3>1. p.pc \in Minting => p.s \in Ids /\ p.s < next /\ user[p.s] = p.user /\ rows[p.s] = "none"
      BY <1>4 DEF Sound
    <3> QED BY <1>t, <1>n, <1>u, <3>1 DEF TypeOK, Ids
  <2>4. \A s : IsLive(rows[s], s, expired)' <=> IsLive(rows[s], s, expired) BY <1>n DEF IsLive
  <2> HIDE DEF Live, IsLive
  <2> QED BY <1>4, <1>n, <2>1, <2>2, <2>3, <2>4 DEF Sound
<1>5. Sound(q)'
  <2>1. user'[next] = o.user BY <1>t, <1>n, <1>u DEF TypeOK
  <2> QED BY <1>n, <1>q, <2>1 DEF Sound, Minting, Ids
<1>6. ASSUME NEW p \in Reqs \ {r} PROVE Apart(req[p], q) /\ Apart(q, req[p])
  <2>1. Sound(req[p]) BY DEF IInv
  <2>2. req[p].pc \in Minting => req[p].s # next BY <1>n, <2>1 DEF Sound, Ids
  <2>3. next \notin req[p].old BY <1>n, <2>1 DEF Sound
  <2> QED BY <1>q, <2>2, <2>3 DEF Apart, HasMintLock
<1>7. ASSUME NEW p \in Reqs PROVE Sound(req[p])'
  <2>1. CASE p = r BY <1>5, <1>q, <2>1 DEF IInv, TypeOK
  <2>2. CASE p # r
    <3>1. req'[p] = req[p] /\ req[p] \in ReqType /\ Sound(req[p])
      BY <1>t, <1>q, <2>2 DEF IInv, TypeOK
    <3>2. PICK v \in ReqType : v = req[p] BY <3>1
    <3>3. Sound(v)' BY <1>4, <3>1, <3>2
    <3> QED BY <3>1, <3>2, <3>3, Zenon
  <2> QED BY <2>1, <2>2
<1>8. ASSUME NEW p \in Reqs, NEW v \in Reqs, p # v PROVE Apart(req[p], req[v])'
  <2>1. Apart(req'[p], req'[v]) BY <1>q, <1>6, <1>8, <1>t DEF IInv, TypeOK
  <2> QED BY <2>1 DEF Apart, HasMintLock
<1> QED BY <1>1, <1>2, <1>3, <1>7, <1>8 DEF IInv

\* The commit fills the free seat; it concerns nobody who counts for the same user, and no
\* session that a reset knows.
LEMMA MintCommitStep ==
    ASSUME IInv, NEW r \in Reqs, MintCommit(r) PROVE IInv'
<1>t. TypeOK /\ TypeOK' /\ Sound(req[r])
  <2>1. rows' \in [Ids -> Statuses]
    BY DEF IInv, TypeOK, MintCommit, Revoked, Statuses
  <2>2. Afresh(req[r]) \in ReqType /\ req[r] \in ReqType BY AfreshTyped DEF IInv, TypeOK
  <2>3. [Afresh(req[r]) EXCEPT !.pc = "put", !.ids = req[r].ids] \in ReqType
    BY <2>2 DEF ReqType, PCs
  <2> QED BY <2>1, <2>3 DEF IInv, TypeOK, MintCommit, Become
<1>o. PICK o \in ReqType : o = req[r] /\ Sound(o) BY <1>t DEF TypeOK
<1>m. /\ o.pc = "commit" /\ o.op = "mint" /\ o.s \in Ids /\ o.s < next /\ user[o.s] = o.user
      /\ o.exp \subseteq expired
      /\ Cap > 0 => Cardinality(Live(o.user, o.exp) \ o.ids) < Cap
  BY <1>o DEF MintCommit, Sound, Minting
<1>u. next' = next /\ user' = user /\ expired' = expired BY DEF MintCommit
<1>r. /\ \A s \in Ids : rows'[s] = "live" => s = o.s \/ (rows[s] = "live" /\ s \notin o.ids)
      /\ \A s \in Ids : rows[s] = "none" /\ s # o.s => rows'[s] = "none"
  BY <1>o, <1>t DEF MintCommit, Revoked, TypeOK, Statuses
<1>q. PICK q \in ReqType : /\ q.pc = "put" /\ q.op = "mint" /\ q.s = o.s /\ q.user = o.user
                           /\ q.exp = {} /\ q.old = {} /\ req' = [req EXCEPT ![r] = q]
  <2> DEFINE w == [Afresh(o) EXCEPT !.pc = "put", !.ids = o.ids]
  <2>1. /\ Afresh(o) \in ReqType /\ Afresh(o).op = o.op /\ Afresh(o).user = o.user
        /\ Afresh(o).s = o.s /\ Afresh(o).exp = {} /\ Afresh(o).old = {}
    BY AfreshTyped
  <2>2. /\ w \in ReqType /\ w.pc = "put" /\ w.op = "mint" /\ w.s = o.s /\ w.user = o.user
        /\ w.exp = {} /\ w.old = {}
    BY <1>m, <2>1 DEF ReqType, PCs
  <2>3. req' = [req EXCEPT ![r] = w] BY <1>o DEF MintCommit, Become
  <2> HIDE DEF w
  <2> QED BY <2>2, <2>3
<1>1. Fresh'
  <2> SUFFICES ASSUME NEW s \in Ids, s >= next PROVE rows'[s] = "none" BY <1>u DEF Fresh
  <2>1. s # o.s BY <1>m, <1>t DEF TypeOK, Ids
  <2> QED BY <1>r, <2>1 DEF IInv, Fresh
<1>2. AtMostCap'
  <2> SUFFICES ASSUME Cap > 0, NEW u \in Users PROVE Cardinality(Live(u, expired)') <= Cap
    BY DEF AtMostCap
  <2>c. Cap \in Nat BY SessionsAssumption DEF SessionsAssumption
  <2>1. CASE u # o.user
    <3>1. Live(u, expired)' \subseteq Live(u, expired) BY <1>m, <1>u, <1>r, <2>1 DEF Live
    <3>2. /\ Cardinality(Live(u, expired)') <= Cardinality(Live(u, expired))
          /\ Cardinality(Live(u, expired)') \in Nat /\ Cardinality(Live(u, expired)) \in Nat
      BY <3>1, LiveFinite, Smaller
    <3> QED BY <2>c, <3>2 DEF IInv, AtMostCap
  <2>2. CASE u = o.user
    <3> DEFINE rest == Live(o.user, o.exp) \ o.ids
    <3>1. IsFiniteSet(rest) BY LiveFinite, FS_Subset
    <3>2. /\ IsFiniteSet(rest \cup {o.s}) /\ Cardinality(rest) \in Nat
          /\ Cardinality(rest \cup {o.s}) \in Nat
          /\ Cardinality(rest \cup {o.s}) <= Cardinality(rest) + 1
      <4> HIDE DEF rest
      <4>1. /\ IsFiniteSet(rest \cup {o.s})
            /\ Cardinality(rest \cup {o.s}) = IF o.s \in rest THEN Cardinality(rest)
                                               ELSE Cardinality(rest) + 1
        BY <3>1, FS_AddElement
      <4>2. Cardinality(rest) \in Nat BY <3>1, FS_CardinalityType
      <4> QED BY <4>1, <4>2
    <3>3. Live(u, expired)' \subseteq rest \cup {o.s}
      BY <1>m, <1>u, <1>r, <2>2 DEF Live
    <3>4. Cardinality(Live(u, expired)') <= Cardinality(rest \cup {o.s})
          /\ Cardinality(Live(u, expired)') \in Nat
      BY <3>2, <3>3, Smaller
    <3>5. Cardinality(rest) < Cap BY <1>m
    <3> HIDE DEF rest
    <3> QED BY <2>c, <3>2, <3>4, <3>5
  <2> QED BY <2>1, <2>2
<1>3. ASSUME NEW p \in ReqType, Sound(p), Apart(p, o), Apart(o, p) PROVE Sound(p)'
  <2>1. HasMintLock(o) /\ o.pc \in Minting BY <1>m DEF HasMintLock, Minting
  <2>2. o.s \notin p.old /\ (p.pc \in Minting => p.s # o.s) BY <1>3, <2>1 DEF Apart
  <2>3. p.pc \in {"pick", "commit"} => p.user # o.user \/ p.op # "mint"
    BY <1>3, <2>1 DEF Apart, HasMintLock
  <2>4. p.pc \in {"pick", "commit"} => Live(p.user, p.exp)' \subseteq Live(p.user, p.exp)
    <3>1. p.pc \in {"pick", "commit"} => p.user # o.user BY <1>3, <2>3 DEF Sound, Minting
    <3> QED BY <1>m, <1>u, <1>r, <3>1 DEF Live
  <2>5. p.excess \in Nat /\ Cap \in Nat BY SessionsAssumption DEF SessionsAssumption, ReqType
  <2>6. p.pc = "pick" => Cap > 0 /\ Cardinality(Live(p.user, p.exp)') < p.excess + Cap
    <3> SUFFICES ASSUME p.pc = "pick"
                 PROVE  Cap > 0 /\ Cardinality(Live(p.user, p.exp)') < p.excess + Cap
      OBVIOUS
    <3>1. /\ Cardinality(Live(p.user, p.exp)') <= Cardinality(Live(p.user, p.exp))
          /\ Cardinality(Live(p.user, p.exp)') \in Nat /\ Cardinality(Live(p.user, p.exp)) \in Nat
      BY <2>4, LiveFinite, Smaller
    <3> QED BY <1>3, <2>5, <3>1 DEF Sound
  <2>7. p.pc = "commit" /\ Cap > 0 => Cardinality(Live(p.user, p.exp)' \ p.ids) < Cap
    <3> SUFFICES ASSUME p.pc = "commit", Cap > 0
                 PROVE  Cardinality(Live(p.user, p.exp)' \ p.ids) < Cap
      OBVIOUS
    <3>1. IsFiniteSet(Live(p.user, p.exp) \ p.ids) BY LiveFinite, FS_Subset
    <3>2. /\ Cardinality(Live(p.user, p.exp)' \ p.ids) <= Cardinality(Live(p.user, p.exp) \ p.ids)
          /\ Cardinality(Live(p.user, p.exp)' \ p.ids) \in Nat
          /\ Cardinality(Live(p.user, p.exp) \ p.ids) \in Nat
      BY <2>4, <3>1, Smaller
    <3> QED BY <1>3, <2>5, <3>2 DEF Sound
  <2>8. \A s \in p.old : IsLive(rows[s], s, expired)' => IsLive(rows[s], s, expired)
    <3>1. \A s \in p.old : s \in Ids BY DEF ReqType
    <3> QED BY <1>u, <1>r, <2>2, <3>1 DEF IsLive
  <2>9. p.pc \in Minting => rows'[p.s] = "none" BY <1>3, <1>r, <2>2 DEF Sound
  <2> HIDE DEF Live, IsLive
  <2> QED BY <1>3, <1>u, <2>6, <2>7, <2>8, <2>9 DEF Sound
<1>4. Sound(q)' BY <1>m, <1>q DEF Sound, Minting
<1>5. ASSUME NEW p \in Reqs PROVE Sound(req[p])'
  <2>1. CASE p = r BY <1>4, <1>q, <1>t, <2>1 DEF TypeOK
  <2>2. CASE p # r
    <3>1. /\ req'[p] = req[p] /\ req[p] \in ReqType /\ Sound(req[p])
          /\ Apart(req[p], o) /\ Apart(o, req[p])
      BY <1>o, <1>q, <1>t, <2>2 DEF IInv, TypeOK
    <3>2. PICK v \in ReqType : v = req[p] BY <3>1
    <3>3. Sound(v)' BY <1>3, <3>1, <3>2
    <3> QED BY <3>1, <3>2, <3>3, Zenon
  <2> QED BY <2>1, <2>2
<1>6. \A p \in Reqs \ {r} : Apart(req[p], q) /\ Apart(q, req[p])
  BY <1>q DEF Apart, Minting, HasMintLock
<1>7. ASSUME NEW p \in Reqs, NEW v \in Reqs, p # v PROVE Apart(req[p], req[v])'
  <2>1. Apart(req'[p], req'[v]) BY <1>q, <1>6, <1>7, <1>t DEF IInv, TypeOK
  <2> QED BY <2>1 DEF Apart, HasMintLock
<1> QED BY <1>t, <1>1, <1>2, <1>5, <1>7 DEF IInv

\* After the commit: the copies, and the answer.
LEMMA CacheStep ==
    ASSUME IInv, NEW r \in Reqs, MintPut(r) \/ Evict(r) \/ Answer(r) PROVE IInv'
<1>t. TypeOK /\ req[r] \in ReqType /\ Sound(req[r]) BY DEF IInv, TypeOK
<1>o. PICK o \in ReqType : o = req[r] /\ Sound(o) BY <1>t
<1>c. cache \in [Caches -> [Ids -> Statuses]] /\ tokens \subseteq Ids /\ redeemed \subseteq Users
  BY <1>t DEF TypeOK
<1>1. CASE MintPut(r)
  <2> DEFINE q == [o EXCEPT !.pc = "evict"]
  <2>1. /\ q \in ReqType /\ q.pc = "evict" /\ q.op = o.op /\ q.s = o.s /\ q.user = o.user
        /\ q.exp = o.exp /\ q.old = o.old
    BY DEF ReqType, PCs
  <2>2. o.op = "mint" /\ o.old = {} /\ o.exp \subseteq expired /\ o.s \in Ids
    BY <1>1, <1>o DEF Sound, MintPut
  <2>3. Become(r, q) BY <1>1, <1>o DEF MintPut
  <2>4. cache' \in [Caches -> [Ids -> Statuses]]
    BY <1>1, <1>t, PutTyped DEF MintPut, Statuses
  <2> HIDE DEF q
  <2> QED BY <1>1, <1>c, <2>1, <2>2, <2>3, <2>4, PlainStep DEF MintPut, Minting
<1>2. CASE Evict(r)
  <2>1. PICK s \in o.ids : /\ Put(o.cache, s, "none") /\ Become(r, [o EXCEPT !.ids = @ \ {s}])
    BY <1>2, <1>o DEF Evict
  <2> DEFINE q == [o EXCEPT !.ids = @ \ {s}]
  <2>2. /\ q \in ReqType /\ q.pc = "evict" /\ q.op = o.op /\ q.s = o.s /\ q.user = o.user
        /\ q.exp = o.exp /\ q.old = o.old
    BY <1>2, <1>o DEF ReqType, Evict
  <2>3. cache' \in [Caches -> [Ids -> Statuses]] BY <2>1, <1>t, PutTyped DEF Statuses
  <2> HIDE DEF q
  <2>4. Sound(q) BY <1>2, <1>o, <2>2 DEF Sound, Minting, Evict
  <2>5. \A p \in Reqs \ {r} : Apart(req[p], q) /\ Apart(q, req[p])
    BY <1>o, <2>2, SameApart DEF Minting, HasMintLock
  <2> QED BY <1>2, <1>c, <2>1, <2>2, <2>3, <2>4, <2>5, QuietStep DEF Evict, q
<1>3. CASE Answer(r) /\ Become(r, Idle)
  <2>1. o.op = "mint" => o.s \in Ids BY <1>3, <1>o DEF Answer, Sound
  <2>2. tokens' \subseteq Ids BY <1>3, <1>o, <1>c, <2>1 DEF Answer
  <2> QED BY <1>3, <1>c, <2>2, EndStep DEF Answer
<1>4. CASE Answer(r) /\ o.op = "switch"
           /\ Become(r, [Afresh(o) EXCEPT !.op = "mint", !.pc = "begin", !.s = 0])
  <2> DEFINE q == [Afresh(o) EXCEPT !.op = "mint", !.pc = "begin", !.s = 0]
  <2>1. Afresh(o) \in ReqType /\ Afresh(o).exp = {} /\ Afresh(o).old = {} BY AfreshTyped
  <2>2. q \in ReqType /\ q.pc = "begin" /\ q.op = "mint" /\ q.exp = {} /\ q.old = {}
    BY <2>1 DEF ReqType, PCs, Ops
  <2> HIDE DEF q
  <2>3. Sound(q) BY <2>2 DEF Sound, Minting
  <2>4. \A p \in Reqs \ {r} : Apart(req[p], q) /\ Apart(q, req[p])
    BY <2>2 DEF Apart, Minting, HasMintLock
  <2>5. tokens' = tokens BY <1>4, <1>o DEF Answer
  <2> QED BY <1>4, <1>c, <2>2, <2>3, <2>4, <2>5, QuietStep DEF Answer, q
<1>5. Answer(r) => \/ Become(r, Idle)
                   \/ o.op = "switch"
                      /\ Become(r, [Afresh(o) EXCEPT !.op = "mint", !.pc = "begin", !.s = 0])
  BY <1>o DEF Answer
<1> QED BY <1>1, <1>2, <1>3, <1>4, <1>5
------------------------------------------------------------------------------
\* Revocations.
LEMMA RevokedRows ==
    ASSUME TypeOK, NEW S, rows' = Revoked(S)
    PROVE  /\ rows' \in [Ids -> Statuses]
           /\ \A s \in Ids : /\ rows'[s] = "live" => rows[s] = "live" /\ s \notin S
                             /\ rows[s] = "none" => rows'[s] = "none"
BY DEF TypeOK, Revoked, Statuses

LEMMA RevokeRowStep ==
    ASSUME IInv, NEW r \in Reqs, RevokeRow(r) PROVE IInv'
<1>t. TypeOK /\ req[r] \in ReqType /\ Sound(req[r]) BY DEF IInv, TypeOK
<1>o. PICK o \in ReqType : o = req[r] /\ Sound(o) BY <1>t
<1>1. o.op # "reset" /\ o.old = {} /\ o.exp \subseteq expired /\ o.s \in Ids
  BY <1>o DEF Sound, RevokeRow
<1>q. PICK q \in ReqType : /\ q.pc = "evict" /\ q.op = o.op /\ q.s = o.s /\ q.user = o.user
                           /\ q.exp = o.exp /\ q.old = {} /\ req' = [req EXCEPT ![r] = q]
  <2> DEFINE w == [o EXCEPT !.pc = "evict", !.ids = {o.s}]
  <2>1. /\ w \in ReqType /\ w.pc = "evict" /\ w.op = o.op /\ w.s = o.s /\ w.user = o.user
        /\ w.exp = o.exp /\ w.old = {}
    BY <1>1 DEF ReqType, PCs
  <2>2. req' = [req EXCEPT ![r] = w] BY <1>o DEF RevokeRow, Become
  <2> HIDE DEF w
  <2> QED BY <2>1, <2>2
<1>2. /\ rows' \in [Ids -> Statuses]
      /\ \A s \in Ids : /\ rows'[s] = "live" => rows[s] = "live"
                        /\ rows[s] = "none" => rows'[s] = "none"
  BY <1>t, RevokedRows DEF RevokeRow
<1>3. TypeOK' BY <1>t, <1>q, <1>2 DEF TypeOK, RevokeRow
<1>4. Sound(q)' BY <1>1, <1>q DEF Sound, Minting, RevokeRow
<1>5. \A p \in Reqs \ {r} : Apart(req[p], q) /\ Apart(q, req[p])
  BY <1>q DEF Apart, Minting, HasMintLock
<1>6. next' = next /\ user' = user /\ expired' = expired BY DEF RevokeRow
<1> QED BY <1>q, <1>2, <1>3, <1>4, <1>5, <1>6, RequestStep

\* The SELECT of a reset; the UPDATE that follows finds whatever of its user is live.
LEMMA SelectStep ==
    ASSUME IInv, NEW r \in Reqs, Snap(r) \/ Grab(r) PROVE IInv'
<1>t. TypeOK /\ req[r] \in ReqType /\ Sound(req[r]) BY DEF IInv, TypeOK
<1>o. PICK o \in ReqType : o = req[r] /\ Sound(o) BY <1>t
<1>c. cache \in [Caches -> [Ids -> Statuses]] /\ tokens \subseteq Ids /\ redeemed \subseteq Users
  BY <1>t DEF TypeOK
<1>1. o.op = "reset" /\ o.pc \in {"snap", "grab"} BY <1>o DEF Sound, Snap, Grab
<1>2. CASE Snap(r)
  <2> DEFINE q == [o EXCEPT !.pc = "grab", !.exp = expired, !.ids = Live(o.user, expired)]
  <2>1. expired \subseteq Ids /\ Live(o.user, expired) \subseteq Ids
    BY <1>t, LiveFinite DEF TypeOK
  <2>2. /\ q \in ReqType /\ q.pc = "grab" /\ q.op = o.op /\ q.s = o.s /\ q.user = o.user
        /\ q.exp = expired /\ q.old = o.old
    BY <2>1 DEF ReqType, PCs
  <2>3. Become(r, q) BY <1>2, <1>o DEF Snap
  <2> HIDE DEF q
  <2>4. Sound(q) BY <1>1, <1>o, <2>2 DEF Sound, Minting
  <2>5. \A p \in Reqs \ {r} : Apart(req[p], q) /\ Apart(q, req[p])
    BY <1>o, <2>2, SameApart DEF Minting, HasMintLock
  <2> QED BY <1>2, <1>c, <2>2, <2>3, <2>4, <2>5, QuietStep DEF Snap
<1>3. CASE Grab(r)
  <2> DEFINE live == Live(o.user, o.exp)
             q == [o EXCEPT !.pc = "wipe", !.ids = @ \cap live, !.upd = live]
  <2>1. live \subseteq Ids BY LiveFinite
  <2>2. /\ q \in ReqType /\ q.pc = "wipe" /\ q.op = o.op /\ q.s = o.s /\ q.user = o.user
        /\ q.exp = o.exp /\ q.old = o.old /\ q.upd = live
    BY <2>1 DEF ReqType, PCs
  <2>3. Become(r, q) BY <1>3, <1>o DEF Grab
  <2>4. \A s \in o.old : IsLive(rows[s], s, expired) => s \in live
    <3>1. \A s \in o.old : s \in Ids /\ user[s] = o.user BY <1>o DEF Sound, ReqType
    <3>2. o.exp \subseteq expired BY <1>o DEF Sound
    <3> QED BY <3>1, <3>2 DEF Live, IsLive
  <2> HIDE DEF q, live
  <2>5. Sound(q) BY <1>1, <1>o, <2>2, <2>4 DEF Sound, Minting
  <2>6. \A p \in Reqs \ {r} : Apart(req[p], q) /\ Apart(q, req[p])
    BY <1>o, <2>2, SameApart DEF Minting, HasMintLock
  <2> QED BY <1>3, <1>c, <2>2, <2>3, <2>5, <2>6, QuietStep DEF Grab
<1> QED BY <1>2, <1>3

\* The UPDATE of a reset.
LEMMA WipeStep ==
    ASSUME IInv, NEW r \in Reqs, Wipe(r) PROVE IInv'
<1>t. TypeOK /\ req[r] \in ReqType /\ Sound(req[r]) BY DEF IInv, TypeOK
<1>o. PICK o \in ReqType : o = req[r] /\ Sound(o) BY <1>t
<1>1. o.op = "reset" /\ o.pc = "wipe" BY <1>o DEF Sound, Wipe
<1>q. PICK q \in ReqType : /\ q.pc = "evict" /\ q.op = o.op /\ q.s = o.s /\ q.user = o.user
                           /\ q.exp = {} /\ q.old = o.old /\ req' = [req EXCEPT ![r] = q]
  <2> DEFINE w == [o EXCEPT !.pc = "evict", !.upd = {}, !.exp = {}]
  <2>1. /\ w \in ReqType /\ w.pc = "evict" /\ w.op = o.op /\ w.s = o.s /\ w.user = o.user
        /\ w.exp = {} /\ w.old = o.old
    BY DEF ReqType, PCs
  <2>2. req' = [req EXCEPT ![r] = w] BY <1>o DEF Wipe, Become
  <2> HIDE DEF w
  <2> QED BY <2>1, <2>2
<1>2. /\ rows' \in [Ids -> Statuses]
      /\ \A s \in Ids : /\ rows'[s] = "live" => rows[s] = "live" /\ s \notin o.upd
                        /\ rows[s] = "none" => rows'[s] = "none"
  BY <1>o, <1>t, RevokedRows DEF Wipe
<1>3. TypeOK' BY <1>t, <1>q, <1>2 DEF TypeOK, Wipe
<1>4. \A s \in o.old : ~IsLive(rows[s], s, expired)'
  <2>1. \A s \in o.old : s \in Ids /\ (IsLive(rows[s], s, expired) => s \in o.upd)
    BY <1>1, <1>o DEF Sound, ReqType
  <2> QED BY <1>2, <2>1 DEF IsLive, Wipe
<1>5. Sound(q)' BY <1>1, <1>o, <1>q, <1>4 DEF Sound, Minting, Wipe
<1>6. \A p \in Reqs \ {r} : Apart(req[p], q) /\ Apart(q, req[p])
  BY <1>o, <1>q, SameApart DEF Minting, HasMintLock
<1>7. next' = next /\ user' = user /\ expired' = expired BY DEF Wipe
<1> QED BY <1>q, <1>2, <1>3, <1>5, <1>6, <1>7, RequestStep

\* A revocation that fails.
LEMMA RevokeFailsStep ==
    ASSUME IInv, NEW r \in Reqs, RevokeFails(r) PROVE IInv'
<1>t. TypeOK /\ req[r] \in ReqType /\ Sound(req[r]) BY DEF IInv, TypeOK
<1>o. PICK o \in ReqType : o = req[r] /\ Sound(o) BY <1>t
<1>1. o.op = "reset" /\ o.pc \in {"snap", "grab", "wipe"} BY <1>o DEF Sound, RevokeFails
<1> DEFINE q == [o EXCEPT !.pc = "unrevoked", !.ids = {}, !.upd = {}, !.exp = {}]
<1>2. /\ q \in ReqType /\ q.pc = "unrevoked" /\ q.op = o.op /\ q.s = o.s /\ q.user = o.user
      /\ q.exp = {} /\ q.old = o.old
  BY DEF ReqType, PCs
<1>3. Become(r, q) BY <1>o DEF RevokeFails
<1> HIDE DEF q
<1>4. Sound(q) BY <1>1, <1>o, <1>2 DEF Sound, Minting
<1>5. \A p \in Reqs \ {r} : Apart(req[p], q) /\ Apart(q, req[p])
  BY <1>o, <1>2, SameApart DEF Minting, HasMintLock
<1>6. /\ cache' \in [Caches -> [Ids -> Statuses]] /\ tokens' \subseteq Ids
      /\ redeemed' \subseteq Users /\ UNCHANGED <<rows, user, expired, next>>
  BY <1>t DEF TypeOK, RevokeFails
<1> QED BY <1>2, <1>3, <1>4, <1>5, <1>6, QuietStep

\* Time, the caches and the sweep change no request.
LEMMA EnvironmentStep ==
    ASSUME IInv,
           \/ \E s \in Ids : Expire(s) \/ Sweep(s)
           \/ \E c \in Caches, s \in Ids : CacheExpire(c, s)
    PROVE  IInv'
<1>1. /\ next' = next /\ user' = user /\ req' = req /\ expired \subseteq expired'
      /\ \A s \in Ids : /\ rows'[s] = "live" => rows[s] = "live"
                        /\ rows[s] = "none" => rows'[s] = "none"
  BY DEF IInv, TypeOK, Expire, Sweep, CacheExpire
<1>2. TypeOK'
  <2>1. ASSUME NEW s \in Ids, Expire(s) PROVE TypeOK' BY <2>1 DEF IInv, TypeOK, Expire
  <2>2. ASSUME NEW s \in Ids, Sweep(s) PROVE TypeOK'
    BY <2>2 DEF IInv, TypeOK, Sweep, Statuses
  <2>3. ASSUME NEW c \in Caches, NEW s \in Ids, CacheExpire(c, s) PROVE TypeOK'
    BY <2>3 DEF IInv, TypeOK, CacheExpire, Statuses
  <2> QED BY <2>1, <2>2, <2>3
<1>3. Fresh' /\ AtMostCap' /\ \A q \in ReqType : Sound(q) => Sound(q)'
  BY <1>1, <1>2, Weaker DEF IInv
<1>4. ASSUME NEW p \in Reqs PROVE Sound(req[p])'
  <2>1. PICK q \in ReqType : q = req[p] BY DEF IInv, TypeOK
  <2>2. Sound(q)' BY <1>3, <2>1 DEF IInv
  <2> QED BY <1>1, <2>1, <2>2, Zenon
<1>5. (\A p, q \in Reqs : p # q => Apart(req[p], req[q]))'
  BY <1>1 DEF IInv, Apart, HasMintLock
<1> QED BY <1>2, <1>3, <1>4, <1>5 DEF IInv
------------------------------------------------------------------------------
LEMMA InitInv == Init => IInv
<1> SUFFICES ASSUME Init PROVE IInv OBVIOUS
<1>1. TypeOK
  BY IdleTyped, SessionsAssumption DEF SessionsAssumption, Init, TypeOK, Statuses, Ids
<1>2. Fresh BY DEF Init, Fresh
<1>3. AtMostCap
  <2>1. \A u \in Users : Live(u, expired) = {} BY DEF Init, Live
  <2> QED BY <2>1, FS_EmptySet, SessionsAssumption DEF AtMostCap, SessionsAssumption
<1>4. \A r \in Reqs : Sound(req[r]) BY DEF Init, Sound, Idle, Minting
<1>5. \A r, q \in Reqs : r # q => Apart(req[r], req[q])
  BY DEF Init, Apart, Idle, Minting, HasMintLock
<1> QED BY <1>1, <1>2, <1>3, <1>4, <1>5 DEF IInv

LEMMA NextInv == IInv /\ [Next]_vars => IInv'
<1> SUFFICES ASSUME IInv, [Next]_vars PROVE IInv' OBVIOUS
<1>1. ASSUME NEW r \in Reqs, Step(r) PROVE IInv'
  BY <1>1, MintBeginStep, MintLockStep, MintCountStep, MintPickStep, MintCommitStep,
     CacheStep, ValidateStep, RevokeRowStep, SelectStep, WipeStep
  DEF Step
<1>2. ASSUME NEW r \in Reqs, Abort(r) PROVE IInv'
  BY <1>2, EndStep DEF Abort, IInv, TypeOK
<1>3. ASSUME NEW r \in Reqs, RevokeFails(r) PROVE IInv' BY <1>3, RevokeFailsStep
<1>4. CASE UNCHANGED vars
  <2>1. TypeOK' BY <1>4 DEF vars, IInv, TypeOK
  <2>2. Fresh' /\ AtMostCap' BY <1>4 DEF vars, IInv, Fresh, AtMostCap, Live
  <2>3. (\A p \in Reqs : Sound(req[p]))' BY <1>4 DEF vars, IInv, Sound, Live, IsLive
  <2>4. (\A p, q \in Reqs : p # q => Apart(req[p], req[q]))'
    BY <1>4 DEF vars, IInv, Apart, HasMintLock
  <2> QED BY <2>1, <2>2, <2>3, <2>4 DEF IInv
<1> QED BY <1>1, <1>2, <1>3, <1>4, StartStep, EnvironmentStep DEF Next

LEMMA Invariance == Spec => []IInv
BY InitInv, NextInv, PTL DEF Spec

\* The requests and what they share keep their types.
THEOREM TypeCorrect == Spec => []TypeOK
BY Invariance, PTL DEF IInv

\* No user ever has more live sessions than the cap.
THEOREM CapKept == Spec => []AtMostCap
BY Invariance, PTL DEF IInv

\* A password reset that has revoked the sessions leaves none of those from before it.
THEOREM ResetLeavesNone == Spec => []ResetRevokesAll
<1>1. IInv => ResetRevokesAll BY DEF IInv, Sound, ResetRevokesAll
<1> QED BY <1>1, Invariance, PTL
------------------------------------------------------------------------------
(* The promise: what the mapping to SessionPromise needs besides *)

\* Sessions that were begun have an owner, and only those have a cookie or can expire.
Known ==
    /\ \A s \in tokens : s < next
    /\ \A s \in Ids : IF s < next THEN user[s] \in Users ELSE s \notin expired

\* A request has a user and, unless it resets or has not begun to mint, a session that was
\* begun; one that it mints has not expired.  What it is about to revoke is its user's; what
\* a mint has picked was created before whatever it leaves, for nobody else can commit a
\* session of that user.
Held(q) ==
    /\ q.pc # "idle" => q.user \in Users
    /\ q.op # "reset" /\ q.pc \notin {"idle", "begin"} => q.s \in Ids /\ q.s < next
    /\ q.pc \in Minting => q.s \notin expired
    /\ q.pc = "commit" =>
         /\ \A s \in q.ids : s < next /\ user[s] = q.user
         /\ \A t \in q.ids, s \in Live(q.user, expired) \ q.ids : t < s
         /\ Cap = 0 => q.ids = {}
    /\ q.pc = "wipe" => \A s \in q.upd : s < next /\ user[s] = q.user
    /\ q.pc \in {"lock", "count", "pick"} => q.ids = {}

PInv == IInv /\ Known /\ \A r \in Reqs : Held(req[r])

\* A request that is idle holds nothing.
LEMMA IdleHeld == Held(Idle)
BY DEF Held, Idle, Minting

\* What a request holds it goes on holding: no session goes back to another user, none that
\* is minted expires, and none of its user is committed while it is about to commit itself.
LEMMA HeldOn ==
    ASSUME TypeOK, next' \in Nat, next <= next', \A s \in Ids : s < next => user'[s] = user[s],
           NEW q \in ReqType, Held(q),
           q.pc \in Minting => q.s \notin expired',
           q.pc = "commit" => Live(q.user, expired)' \subseteq Live(q.user, expired)
    PROVE  Held(q)'
<1>1. next \in Nat /\ q.ids \subseteq Ids /\ q.upd \subseteq Ids
  BY SessionsAssumption DEF SessionsAssumption, TypeOK, ReqType
<1>2. \A s \in Ids : s \in Nat BY DEF Ids
<1>3. q.op # "reset" /\ q.pc \notin {"idle", "begin"} => q.s \in Ids /\ q.s < next'
  BY <1>1, <1>2 DEF Held
<1>4. ASSUME q.pc = "commit"
      PROVE  /\ \A s \in q.ids : s < next' /\ user'[s] = q.user
             /\ \A t \in q.ids, s \in Live(q.user, expired)' \ q.ids : t < s
             /\ Cap = 0 => q.ids = {}
  <2>1. \A s \in q.ids : s < next /\ user[s] = q.user BY <1>4 DEF Held
  <2>2. \A s \in q.ids : s < next' /\ user'[s] = q.user BY <1>1, <1>2, <2>1
  <2>3. \A t \in q.ids, s \in Live(q.user, expired)' \ q.ids : t < s BY <1>4 DEF Held
  <2> QED BY <1>4, <2>2, <2>3 DEF Held
<1>5. ASSUME q.pc = "wipe" PROVE \A s \in q.upd : s < next' /\ user'[s] = q.user
  <2>1. \A s \in q.upd : s < next /\ user[s] = q.user BY <1>5 DEF Held
  <2> QED BY <1>1, <1>2, <2>1
<1> HIDE DEF Live
<1> QED BY <1>3, <1>4, <1>5 DEF Held

\* A step of one request, which becomes q, in which nothing is committed.
LEMMA HeldStep ==
    ASSUME PInv, IInv', NEW r \in Reqs, NEW q \in ReqType, req' = [req EXCEPT ![r] = q],
           UNCHANGED <<user, expired, next>>, tokens' \subseteq tokens \cup {s \in Ids : s < next},
           \A s \in Ids : rows'[s] = "live" => rows[s] = "live",
           Held(q)
    PROVE  PInv'
<1>1. TypeOK /\ next' \in Nat /\ next <= next'
  BY SessionsAssumption DEF SessionsAssumption, PInv, IInv, TypeOK
<1>2. \A u : Live(u, expired)' \subseteq Live(u, expired) BY DEF Live
<1>3. ASSUME NEW p \in ReqType, Held(p) PROVE Held(p)'
  <2>1. p.pc \in Minting => p.s \notin expired' BY <1>3 DEF Held
  <2> QED BY <1>1, <1>2, <1>3, <2>1, HeldOn
<1>4. ASSUME NEW p \in Reqs PROVE Held(req[p])'
  <2>1. CASE p = r
    <3>1. req'[p] = q BY <1>1, <2>1 DEF TypeOK
    <3>2. Held(q)' BY <1>3
    <3> QED BY <3>1, <3>2, Zenon
  <2>2. CASE p # r
    <3>1. PICK o \in ReqType : o = req[p] BY <1>1 DEF TypeOK
    <3>2. req'[p] = o BY <1>1, <2>2, <3>1 DEF TypeOK
    <3>3. Held(o)' BY <1>3, <3>1 DEF PInv
    <3> QED BY <3>2, <3>3, Zenon
  <2> QED BY <2>1, <2>2
<1>5. Known' BY DEF Known, PInv
<1> QED BY <1>4, <1>5 DEF PInv

\* What the promise tells of a request is the same before and after.
Alike(q, o) ==
    /\ q.pc \in Minting <=> o.pc \in Minting
    /\ q.pc \in Minting => q.s = o.s
    /\ q.op = "reset" <=> o.op = "reset"
    /\ q.op = "reset" => (q.pc = "evict" <=> o.pc = "evict")
                         /\ (q.pc = "unrevoked" <=> o.pc = "unrevoked")
    /\ q.old = o.old

\* The steps that change no table, and for which it is.
Begins(r) == Login(r) \/ Validate(r) \/ Logout(r)
Mints(r) == MintLock(r) \/ MintCount(r) \/ MintPick(r) \/ MintPut(r)
Answers(r) == Evict(r) \/ (Answer(r) /\ req[r].op # "reset")
Validates(r) == CacheGet(r) \/ ReadRow(r) \/ Touch(r) \/ Fill(r) \/ Accept(r)
Selects(r) == Snap(r) \/ Grab(r)

Quietly(r) == \E q \in ReqType : Become(r, q) /\ Held(q) /\ Alike(q, req[r])

LEMMA BeginsQuietly == ASSUME PInv, NEW r \in Reqs, Begins(r) PROVE Quietly(r)
<1> DEFINE o == req[r]
<1>0. /\ o \in ReqType /\ o.pc = "idle" /\ Sound(o) /\ tokens \subseteq Ids
      /\ user \in [Ids -> Users \cup {Nobody}]
  BY DEF PInv, IInv, TypeOK, Begins, Login, Validate, Logout
<1>1. o.op # "reset" /\ o.old = {} BY <1>0 DEF Sound
<1>2. CASE Login(r)
  <2>1. PICK u \in Users, c \in Caches :
           Become(r, [Idle EXCEPT !.op = "mint", !.pc = "begin", !.cache = c, !.user = u])
    BY <1>2 DEF Login
  <2> DEFINE q == [Idle EXCEPT !.op = "mint", !.pc = "begin", !.cache = c, !.user = u]
  <2>2. q \in ReqType BY IdleTyped DEF ReqType, Ops, PCs
  <2>3. /\ q.pc = "begin" /\ q.op = "mint" /\ q.user \in Users /\ q.old = {} BY DEF Idle
  <2> HIDE DEF q
  <2>4. Held(q) BY <2>3 DEF Held, Minting
  <2>5. Alike(q, o) BY <1>0, <1>1, <2>3 DEF Alike, Minting
  <2> QED BY <2>1, <2>2, <2>4, <2>5 DEF Quietly, q
<1>3. CASE Validate(r)
  <2>1. PICK s \in tokens, c \in Caches, op \in {"validate", "switch"} :
           Become(r, [Idle EXCEPT !.op = op, !.pc = "get", !.cache = c, !.user = user[s],
                                  !.s = s, !.exp = expired])
    BY <1>3 DEF Validate
  <2> DEFINE q == [Idle EXCEPT !.op = op, !.pc = "get", !.cache = c, !.user = user[s],
                               !.s = s, !.exp = expired]
  <2>2. s \in Ids /\ s < next /\ user[s] \in Users BY <1>0, <2>1 DEF PInv, Known
  <2>3. q \in ReqType
    <3>1. expired \subseteq Ids BY DEF PInv, IInv, TypeOK
    <3> QED BY <2>2, <3>1, IdleTyped DEF ReqType, Ops, PCs
  <2>4. /\ q.pc = "get" /\ q.op = op /\ q.user = user[s] /\ q.s = s /\ q.old = {} BY DEF Idle
  <2> HIDE DEF q
  <2>5. Held(q) BY <2>2, <2>4 DEF Held, Minting
  <2>6. Alike(q, o) BY <1>0, <1>1, <2>1, <2>4 DEF Alike, Minting
  <2> QED BY <2>1, <2>3, <2>5, <2>6 DEF Quietly, q
<1>4. CASE Logout(r)
  <2>1. PICK s \in tokens, c \in Caches :
           Become(r, [Idle EXCEPT !.op = "logout", !.pc = "revoke", !.cache = c,
                                  !.user = user[s], !.s = s])
    BY <1>4 DEF Logout
  <2> DEFINE q == [Idle EXCEPT !.op = "logout", !.pc = "revoke", !.cache = c,
                               !.user = user[s], !.s = s]
  <2>2. s \in Ids /\ s < next /\ user[s] \in Users BY <1>0, <2>1 DEF PInv, Known
  <2>3. q \in ReqType BY <2>2, IdleTyped DEF ReqType, Ops, PCs
  <2>4. /\ q.pc = "revoke" /\ q.op = "logout" /\ q.user = user[s] /\ q.s = s /\ q.old = {}
    BY DEF Idle
  <2> HIDE DEF q
  <2>5. Held(q) BY <2>2, <2>4 DEF Held, Minting
  <2>6. Alike(q, o) BY <1>0, <1>1, <2>4 DEF Alike, Minting
  <2> QED BY <2>1, <2>3, <2>5, <2>6 DEF Quietly, q
<1> QED BY <1>2, <1>3, <1>4 DEF Begins

LEMMA MintsQuietly == ASSUME PInv, NEW r \in Reqs, Mints(r) PROVE Quietly(r)
<1> DEFINE o == req[r]
<1>0. /\ o \in ReqType /\ Held(o) /\ Sound(o) /\ o.pc \in {"lock", "count", "pick", "put"}
  BY DEF PInv, IInv, TypeOK, Mints, MintLock, MintCount, MintPick, MintPut
<1>1. o.op = "mint" /\ o.user \in Users /\ o.s \in Ids /\ o.s < next
  BY <1>0 DEF Sound, Held, Minting
<1>2. CASE MintLock(r)
  <2> DEFINE q == [o EXCEPT !.pc = "count"]
  <2>1. q \in ReqType /\ o.pc = "lock" BY <1>0, <1>2 DEF ReqType, PCs, MintLock
  <2>2. /\ q.pc = "count" /\ q.op = o.op /\ q.user = o.user /\ q.s = o.s /\ q.old = o.old
        /\ q.ids = o.ids
    BY <1>0 DEF ReqType
  <2>3. Become(r, q) BY <1>2 DEF MintLock
  <2> HIDE DEF q
  <2>4. Held(q) BY <1>0, <1>1, <2>1, <2>2 DEF Held, Minting
  <2>5. Alike(q, o) BY <1>0, <1>1, <2>1, <2>2 DEF Alike, Minting
  <2> QED BY <2>1, <2>3, <2>4, <2>5 DEF Quietly
<1>3. CASE MintCount(r)
  <2> DEFINE others == Cardinality(Live(o.user, o.exp))
             q1 == [o EXCEPT !.pc = "pick", !.excess = others + 1 - Cap]
             q2 == [o EXCEPT !.pc = "commit"]
  <2>0. o.pc = "count" BY <1>3 DEF MintCount
  <2>1. CASE Cap > 0 /\ others + 1 > Cap /\ Become(r, q1)
    <3>1. others + 1 - Cap \in Nat
      BY <2>1, LiveFinite, FS_CardinalityType, SessionsAssumption DEF SessionsAssumption
    <3>2. q1 \in ReqType BY <1>0, <3>1 DEF ReqType, PCs
    <3>3. /\ q1.pc = "pick" /\ q1.op = o.op /\ q1.user = o.user /\ q1.s = o.s /\ q1.old = o.old
          /\ q1.ids = o.ids
      BY <1>0 DEF ReqType
    <3>4. Become(r, q1) BY <2>1
    <3> HIDE DEF q1
    <3>5. Held(q1) BY <1>0, <1>1, <2>0, <3>3 DEF Held, Minting
    <3>6. Alike(q1, o) BY <1>0, <1>1, <2>0, <3>3 DEF Alike, Minting
    <3> QED BY <3>2, <3>4, <3>5, <3>6 DEF Quietly
  <2>2. CASE Become(r, q2)
    <3>1. q2 \in ReqType BY <1>0 DEF ReqType, PCs
    <3>2. /\ q2.pc = "commit" /\ q2.op = o.op /\ q2.user = o.user /\ q2.s = o.s /\ q2.old = o.old
          /\ q2.ids = o.ids
      BY <1>0 DEF ReqType
    <3>3. o.ids = {} BY <1>0, <2>0 DEF Held
    <3> HIDE DEF q2
    <3>4. Held(q2) BY <1>0, <1>1, <2>0, <3>2, <3>3 DEF Held, Minting
    <3>5. Alike(q2, o) BY <1>0, <1>1, <2>0, <3>2 DEF Alike, Minting
    <3> QED BY <2>2, <3>1, <3>4, <3>5 DEF Quietly
  <2> QED BY <1>3, <2>1, <2>2 DEF MintCount
<1>4. CASE MintPick(r)
  <2>1. PICK T \in SUBSET Live(o.user, o.exp) :
           /\ AreOldest(T, o.excess, Live(o.user, o.exp))
           /\ Become(r, [o EXCEPT !.pc = "commit", !.ids = T, !.excess = 0])
    BY <1>4 DEF MintPick
  <2> DEFINE q == [o EXCEPT !.pc = "commit", !.ids = T, !.excess = 0]
  <2>2. T \subseteq Ids BY <2>1 DEF Live
  <2>3. q \in ReqType BY <1>0, <2>2 DEF ReqType, PCs
  <2>4. /\ q.pc = "commit" /\ q.op = o.op /\ q.user = o.user /\ q.s = o.s /\ q.old = o.old
        /\ q.ids = T
    BY <1>0 DEF ReqType
  <2>5. o.pc = "pick" BY <1>4 DEF MintPick
  <2>6. Cap > 0 BY <1>0, <2>5 DEF Sound
  <2>7. \A s \in T : s < next /\ user[s] = o.user
    <3>1. \A s \in Ids : rows[s] = "live" => s < next
      BY SessionsAssumption DEF PInv, IInv, Fresh, TypeOK, Ids, SessionsAssumption
    <3> QED BY <2>1, <3>1 DEF Live
  <2>8. Live(o.user, expired) \subseteq Live(o.user, o.exp) BY <1>0 DEF Live, Sound
  <2>9. \A t \in T, s \in Live(o.user, expired) \ T : t < s BY <2>1, <2>8 DEF AreOldest
  <2>10. Become(r, q) BY <2>1
  <2> HIDE DEF q, Live
  <2>11. Held(q) BY <1>0, <1>1, <2>4, <2>5, <2>6, <2>7, <2>9 DEF Held, Minting
  <2>12. Alike(q, o) BY <1>0, <1>1, <2>4, <2>5 DEF Alike, Minting
  <2> QED BY <2>3, <2>10, <2>11, <2>12 DEF Quietly
<1>5. CASE MintPut(r)
  <2> DEFINE q == [o EXCEPT !.pc = "evict"]
  <2>1. q \in ReqType /\ o.pc = "put" BY <1>0, <1>5 DEF ReqType, PCs, MintPut
  <2>2. /\ q.pc = "evict" /\ q.op = o.op /\ q.user = o.user /\ q.s = o.s /\ q.old = o.old
    BY <1>0 DEF ReqType
  <2>3. Become(r, q) BY <1>5 DEF MintPut
  <2> HIDE DEF q
  <2>4. Held(q) BY <1>0, <1>1, <2>1, <2>2 DEF Held, Minting
  <2>5. Alike(q, o) BY <1>0, <1>1, <2>1, <2>2 DEF Alike, Minting
  <2> QED BY <2>1, <2>3, <2>4, <2>5 DEF Quietly
<1> QED BY <1>2, <1>3, <1>4, <1>5 DEF Mints

LEMMA AnswersQuietly == ASSUME PInv, NEW r \in Reqs, Answers(r) PROVE Quietly(r)
<1> DEFINE o == req[r]
<1>0. /\ o \in ReqType /\ Held(o) /\ Sound(o) /\ o.pc = "evict"
  BY DEF PInv, IInv, TypeOK, Answers, Evict, Answer, Sound
<1>1. o.user \in Users /\ (o.op # "reset" => o.s \in Ids /\ o.s < next /\ o.old = {})
  BY <1>0 DEF Sound, Held
<1>2. CASE Evict(r)
  <2>1. PICK s \in o.ids : Become(r, [o EXCEPT !.ids = @ \ {s}]) BY <1>2 DEF Evict
  <2> DEFINE q == [o EXCEPT !.ids = @ \ {s}]
  <2>2. q \in ReqType BY <1>0 DEF ReqType
  <2>3. /\ q.pc = "evict" /\ q.op = o.op /\ q.user = o.user /\ q.s = o.s /\ q.old = o.old
    BY <1>0 DEF ReqType
  <2> HIDE DEF q
  <2>4. Held(q) BY <1>0, <1>1, <2>3 DEF Held, Minting
  <2>5. Alike(q, o) BY <1>0, <2>3 DEF Alike, Minting
  <2> QED BY <2>1, <2>2, <2>4, <2>5 DEF Quietly, q
<1>3. CASE Answer(r) /\ o.op # "reset"
  <2>1. Idle.op # "reset" /\ Idle.pc = "idle" /\ Idle.old = {} BY DEF Idle
  <2>2. CASE Become(r, Idle)
    <3>1. Alike(Idle, o) BY <1>0, <1>1, <1>3, <2>1 DEF Alike, Minting
    <3> QED BY <2>2, <3>1, IdleHeld, IdleTyped DEF Quietly
  <2> DEFINE q == [Afresh(o) EXCEPT !.op = "mint", !.pc = "begin", !.s = 0]
  <2>3. CASE Become(r, q)
    <3>1. Afresh(o) \in ReqType /\ Afresh(o).user = o.user /\ Afresh(o).old = {}
      BY <1>0, AfreshTyped
    <3>2. q \in ReqType BY <3>1 DEF ReqType, Ops, PCs
    <3>3. q.pc = "begin" /\ q.op = "mint" /\ q.user = o.user /\ q.old = {}
      BY <3>1 DEF ReqType
    <3> HIDE DEF q
    <3>4. Held(q) BY <1>1, <3>3 DEF Held, Minting
    <3>5. Alike(q, o) BY <1>0, <1>1, <1>3, <3>3 DEF Alike, Minting
    <3> QED BY <2>3, <3>2, <3>4, <3>5 DEF Quietly
  <2>4. Become(r, Idle) \/ Become(r, q) BY <1>3 DEF Answer
  <2> QED BY <2>2, <2>3, <2>4
<1> QED BY <1>2, <1>3 DEF Answers

\* A request that does not mint, reset or begin to goes on with its session.
LEMMA PlainQuietly ==
    ASSUME PInv, NEW r \in Reqs, req[r].op # "reset", req[r].pc \notin Minting \cup {"idle", "begin"},
           NEW q \in ReqType, Become(r, q),
           \/ q.pc \notin Minting \cup {"idle", "begin", "wipe"} /\ q.op # "reset"
              /\ q.user = req[r].user /\ q.s = req[r].s /\ q.old = {}
           \/ q = Idle
    PROVE  Quietly(r)
<1>1. Held(req[r]) /\ Sound(req[r]) BY DEF PInv, IInv
<1>2. CASE q = Idle
  <2>1. Idle.op # "reset" /\ Idle.pc = "idle" /\ Idle.old = {} BY DEF Idle
  <2>2. Alike(Idle, req[r]) BY <1>1, <2>1 DEF Alike, Minting, Sound
  <2> QED BY <1>2, <2>2, IdleHeld DEF Quietly
<1>3. CASE q # Idle
  <2>1. Held(q) BY <1>1, <1>3 DEF Held, Minting
  <2>2. Alike(q, req[r]) BY <1>1, <1>3 DEF Alike, Minting, Sound
  <2> QED BY <2>1, <2>2 DEF Quietly
<1> QED BY <1>2, <1>3

LEMMA ValidatesQuietly == ASSUME PInv, NEW r \in Reqs, Validates(r) PROVE Quietly(r)
<1> DEFINE o == req[r]
<1>0. /\ o \in ReqType /\ Sound(o) /\ o.pc \in {"get", "read", "touch", "fill", "accepted"}
  BY DEF PInv, IInv, TypeOK, Validates, CacheGet, ReadRow, Touch, Fill, Accept
<1>1. o.op # "reset" /\ o.old = {} /\ o.pc \notin Minting \cup {"idle", "begin"} /\ o.s \in Ids
  BY <1>0 DEF Sound, Minting
<1>2. /\ Afresh(o) \in ReqType /\ Afresh(o).op = o.op /\ Afresh(o).user = o.user
      /\ Afresh(o).s = o.s /\ Afresh(o).old = {}
  BY <1>0, AfreshTyped
<1> DEFINE accepted == [Afresh(o) EXCEPT !.pc = "accepted"]
           stale    == [Afresh(o) EXCEPT !.op = "validate", !.pc = "evict", !.ids = {o.s}]
<1>3. /\ accepted \in ReqType /\ accepted.pc = "accepted" /\ accepted.op = o.op
      /\ accepted.user = o.user /\ accepted.s = o.s /\ accepted.old = {}
  BY <1>2 DEF ReqType, PCs
<1>4. /\ stale \in ReqType /\ stale.pc = "evict" /\ stale.op = "validate"
      /\ stale.user = o.user /\ stale.s = o.s /\ stale.old = {}
  BY <1>1, <1>2 DEF ReqType, PCs, Ops
<1>5. ASSUME NEW pc \in {"read", "fill", "revoke"}, Become(r, [o EXCEPT !.pc = pc])
      PROVE  Quietly(r)
  <2> DEFINE q == [o EXCEPT !.pc = pc]
  <2>1. /\ q \in ReqType /\ q.pc = pc /\ q.op = o.op /\ q.user = o.user /\ q.s = o.s
        /\ q.old = o.old
    BY <1>0 DEF ReqType, PCs
  <2> HIDE DEF q
  <2> QED BY <1>1, <1>5, <2>1, PlainQuietly DEF q, Minting
<1>6. ASSUME NEW row \in Statuses, Become(r, [o EXCEPT !.pc = "touch", !.row = row])
      PROVE  Quietly(r)
  <2> DEFINE q == [o EXCEPT !.pc = "touch", !.row = row]
  <2>1. /\ q \in ReqType /\ q.pc = "touch" /\ q.op = o.op /\ q.user = o.user /\ q.s = o.s
        /\ q.old = o.old
    BY <1>0 DEF ReqType, PCs
  <2> HIDE DEF q
  <2> QED BY <1>1, <1>6, <2>1, PlainQuietly DEF q, Minting
<1> HIDE DEF accepted, stale
<1>7. ASSUME Become(r, accepted) PROVE Quietly(r) BY <1>1, <1>3, <1>7, PlainQuietly DEF Minting
<1>8. ASSUME Become(r, stale) PROVE Quietly(r) BY <1>1, <1>4, <1>8, PlainQuietly DEF Minting
<1>9. ASSUME Become(r, Idle) PROVE Quietly(r) BY <1>1, <1>9, IdleTyped, PlainQuietly
<1>10. CASE CacheGet(r)
  BY <1>5, <1>7, <1>8, <1>10 DEF CacheGet, accepted, stale
<1>11. CASE ReadRow(r)
  <2>1. rows[o.s] \in Statuses BY <1>1 DEF PInv, IInv, TypeOK
  <2> QED BY <1>6, <1>9, <1>11, <2>1 DEF ReadRow
<1>12. CASE Touch(r) BY <1>5, <1>12 DEF Touch
<1>13. CASE Fill(r) BY <1>7, <1>13 DEF Fill, accepted
<1>14. CASE Accept(r) BY <1>5, <1>9, <1>14 DEF Accept
<1> QED BY <1>10, <1>11, <1>12, <1>13, <1>14 DEF Validates

LEMMA SelectsQuietly == ASSUME PInv, NEW r \in Reqs, Selects(r) PROVE Quietly(r)
<1> DEFINE o == req[r]
<1>0. /\ o \in ReqType /\ Held(o) /\ Sound(o) /\ o.pc \in {"snap", "grab"}
      /\ expired \subseteq Ids
  BY DEF PInv, IInv, TypeOK, Selects, Snap, Grab
<1>1. o.op = "reset" /\ o.user \in Users BY <1>0 DEF Sound, Held
<1>2. CASE Snap(r)
  <2> DEFINE q == [o EXCEPT !.pc = "grab", !.exp = expired, !.ids = Live(o.user, expired)]
  <2>1. q \in ReqType
    <3>1. Live(o.user, expired) \subseteq Ids BY DEF Live
    <3> QED BY <1>0, <3>1 DEF ReqType, PCs
  <2>2. q.pc = "grab" /\ q.op = o.op /\ q.user = o.user /\ q.old = o.old BY <1>0 DEF ReqType
  <2>3. Become(r, q) BY <1>2 DEF Snap
  <2> HIDE DEF q
  <2>4. Held(q) BY <1>1, <2>2 DEF Held, Minting
  <2>5. Alike(q, o) BY <1>0, <2>2 DEF Alike, Minting
  <2> QED BY <2>1, <2>3, <2>4, <2>5 DEF Quietly
<1>3. CASE Grab(r)
  <2> DEFINE live == Live(o.user, o.exp)
             q == [o EXCEPT !.pc = "wipe", !.ids = @ \cap live, !.upd = live]
  <2>1. q \in ReqType
    <3>1. live \subseteq Ids BY DEF Live
    <3> QED BY <1>0, <3>1 DEF ReqType, PCs
  <2>2. /\ q.pc = "wipe" /\ q.op = o.op /\ q.user = o.user /\ q.old = o.old
        /\ q.upd = live
    BY <1>0 DEF ReqType
  <2>3. Become(r, q) BY <1>3 DEF Grab
  <2>4. \A s \in live : s < next /\ user[s] = o.user
    <3>1. \A s \in Ids : rows[s] = "live" => s < next
      BY SessionsAssumption DEF PInv, IInv, Fresh, TypeOK, Ids, SessionsAssumption
    <3> QED BY <3>1 DEF Live
  <2> HIDE DEF q, live
  <2>5. Held(q) BY <1>1, <2>2, <2>4 DEF Held, Minting
  <2>6. Alike(q, o) BY <1>0, <2>2 DEF Alike, Minting
  <2> QED BY <2>1, <2>3, <2>5, <2>6 DEF Quietly
<1> QED BY <1>2, <1>3 DEF Selects
------------------------------------------------------------------------------
(* The promise: one step of it, or none, for every step *)

LEMMA AliveNotComing == ASSUME IInv, NEW s \in Ids, Alive(s) PROVE ~Coming(s) /\ s < next
<1>1. rows[s] # "none" BY DEF Alive, IsLive
<1>2. ~(s >= next) /\ s < next BY <1>1 DEF IInv, Fresh, TypeOK, Ids
<1>3. \A r \in Reqs : ~(req[r].pc \in Minting /\ req[r].s = s) BY <1>1 DEF IInv, Sound
<1> QED BY <1>2, <1>3 DEF Coming

\* The live sessions D are over, and nothing else.
LEMMA Ends ==
    ASSUME IInv, user' = user, NEW D \in SUBSET Ids, \A s \in D : Alive(s),
           \A s \in Ids : Alive(s)' <=> Alive(s) /\ s \notin D,
           \A s \in Ids : Coming(s)' <=> Coming(s),
           \A r \in Reqs : req'[r].old = req[r].old
    PROVE  /\ LiveNow' = [u \in Users |-> LiveNow[u] \ D]
           /\ Spent' = Spent \cup D
           /\ Owed' = [r \in Reqs |-> Owed[r] \ D]
<1>1. \A u : Live(u, expired) = {s \in Ids : user[s] = u /\ Alive(s)}
  BY DEF Live, Alive, IsLive
<1>2. \A u : Live(u, expired)' = {s \in Ids : user'[s] = u /\ Alive(s)'}
  BY DEF Live, Alive, IsLive
<1>3. \A s \in D : ~Coming(s) BY AliveNotComing
<1>4. \A r \in Reqs : req[r].old \subseteq Ids BY DEF IInv, TypeOK, ReqType
<1> HIDE DEF Alive, Coming
<1>5. LiveNow' = [u \in Users |-> LiveNow[u] \ D] BY <1>1, <1>2 DEF LiveNow
<1>6. Spent' = Spent \cup D BY <1>3 DEF Spent
<1>7. Owed' = [r \in Reqs |-> Owed[r] \ D] BY <1>4 DEF Owed
<1> QED BY <1>5, <1>6, <1>7

\* What the promise tells of a request that becomes one like it.
LEMMA Likewise ==
    ASSUME TypeOK, next' = next, NEW r \in Reqs, NEW q \in ReqType,
           req' = [req EXCEPT ![r] = q], Alike(q, req[r])
    PROVE  /\ \A s \in Ids : Coming(s)' <=> Coming(s)
           /\ Resets' = Resets
           /\ \A p \in Reqs : req'[p].old = req[p].old
<1>1. \A p \in Reqs : req'[p] = IF p = r THEN q ELSE req[p] BY DEF TypeOK
<1>2. \A s \in Ids : Coming(s)' <=> Coming(s) BY <1>1 DEF Coming, Alike
<1>3. Resets' = Resets BY <1>1 DEF Resets, Alike
<1>4. \A p \in Reqs : req'[p].old = req[p].old BY <1>1 DEF Alike
<1> QED BY <1>2, <1>3, <1>4

\* Nothing ends.
LEMMA NothingEnds ==
    ASSUME IInv, user' = user,
           \A s \in Ids : Alive(s)' <=> Alive(s),
           \A s \in Ids : Coming(s)' <=> Coming(s),
           \A r \in Reqs : req'[r].old = req[r].old
    PROVE  LiveNow' = LiveNow /\ Spent' = Spent /\ Owed' = Owed
<1>1. /\ LiveNow' = [u \in Users |-> LiveNow[u] \ {}]
      /\ Spent' = Spent \cup {}
      /\ Owed' = [r \in Reqs |-> Owed[r] \ {}]
  BY Ends
<1> QED BY <1>1 DEF LiveNow, Owed

\* One session is over, if it was live.
LEMMA OneEnds ==
    ASSUME PInv, user' = user, NEW t \in Ids, Resets' = Resets,
           \A s \in Ids : Alive(s)' <=> Alive(s) /\ s # t,
           \A s \in Ids : Coming(s)' <=> Coming(s),
           \A r \in Reqs : req'[r].old = req[r].old
    PROVE  [Promise!Next]_(Promise!vars)
<1>1. CASE Alive(t)
  <2>1. /\ LiveNow' = [u \in Users |-> LiveNow[u] \ {t}]
        /\ Spent' = Spent \cup {t}
        /\ Owed' = [r \in Reqs |-> Owed[r] \ {t}]
    <3>1. \A s \in {t} : Alive(s) BY <1>1
    <3>2. \A s \in Ids : Alive(s)' <=> Alive(s) /\ s \notin {t} OBVIOUS
    <3> QED BY <3>1, <3>2, Ends DEF PInv
  <2>2. user[t] \in Users BY <1>1, AliveNotComing DEF PInv, Known
  <2>3. t \in LiveNow[user[t]] /\ \A u \in Users : t \in LiveNow[u] => u = user[t]
    BY <1>1, <2>2 DEF LiveNow, Live, Alive, IsLive
  <2>4. LiveNow' = [LiveNow EXCEPT ![user[t]] = @ \ {t}]
    <3>1. \A u \in Users : u # user[t] => LiveNow[u] \ {t} = LiveNow[u] BY <2>3
    <3>2. LiveNow = [u \in Users |-> LiveNow[u]] BY DEF LiveNow
    <3> QED BY <2>1, <3>1, <3>2
  <2>5. Promise!Close(user[t], t) BY <2>1, <2>3, <2>4 DEF Promise!Close, Promise!Over
  <2> QED BY <2>2, <2>5 DEF Promise!Next
<1>2. CASE ~Alive(t)
  <2>1. LiveNow' = LiveNow /\ Spent' = Spent /\ Owed' = Owed
    BY <1>2, NothingEnds DEF PInv
  <2> QED BY <2>1 DEF Promise!vars
<1> QED BY <1>1, <1>2

\* The steps that change no table and nothing the promise sees of the request.
LEMMA QuietPromise ==
    ASSUME PInv, IInv', NEW r \in Reqs,
           Begins(r) \/ Mints(r) \/ Answers(r) \/ Validates(r) \/ Selects(r)
    PROVE  PInv' /\ [Promise!Next]_(Promise!vars)
<1>1. UNCHANGED <<rows, user, expired, next>>
  BY DEF Begins, Mints, Answers, Validates, Selects, Login, Validate, Logout, MintLock,
     MintCount, MintPick, MintPut, Evict, Answer, CacheGet, ReadRow, Touch, Fill, Accept,
     Snap, Grab
<1>2. PICK q \in ReqType : Become(r, q) /\ Held(q) /\ Alike(q, req[r])
  BY BeginsQuietly, MintsQuietly, AnswersQuietly, ValidatesQuietly, SelectsQuietly DEF Quietly
<1>3. tokens' \subseteq tokens \cup {s \in Ids : s < next}
  <2>1. CASE Answers(r) /\ Answer(r)
    <3>1. req[r].op = "mint" => req[r].s \in Ids /\ req[r].s < next
      BY <2>1 DEF Answer, PInv, Held
    <3> QED BY <2>1, <3>1 DEF Answer
  <2>2. CASE ~(Answers(r) /\ Answer(r))
    BY <2>2
    DEF Begins, Mints, Answers, Validates, Selects, Login, Validate, Logout, MintLock,
        MintCount, MintPick, MintPut, Evict, CacheGet, ReadRow, Touch, Fill, Accept, Snap, Grab
  <2> QED BY <2>1, <2>2
<1>4. PInv' BY <1>1, <1>2, <1>3, HeldStep DEF Become
<1>5. /\ \A s \in Ids : Coming(s)' <=> Coming(s)
      /\ Resets' = Resets
      /\ \A p \in Reqs : req'[p].old = req[p].old
  BY <1>1, <1>2, Likewise DEF Become, PInv, IInv
<1>6. \A s \in Ids : Alive(s)' <=> Alive(s) BY <1>1 DEF Alive, IsLive
<1>7. LiveNow' = LiveNow /\ Spent' = Spent /\ Owed' = Owed
  BY <1>1, <1>5, <1>6, NothingEnds DEF PInv
<1> QED BY <1>4, <1>5, <1>7 DEF Promise!vars

\* A request ends: a session that was being minted is given up, a reset is ended.
LEMMA EndPromise ==
    ASSUME PInv, IInv', NEW r \in Reqs, Become(r, Idle),
           UNCHANGED <<rows, user, expired, next, tokens>>
    PROVE  PInv' /\ [Promise!Next]_(Promise!vars)
<1> DEFINE o == req[r]
<1>0. TypeOK /\ o \in ReqType /\ Sound(o) /\ Held(o) BY DEF PInv, IInv, TypeOK
<1>1. PInv' BY IdleTyped, IdleHeld, HeldStep DEF Become
<1>2. \A p \in Reqs : req'[p] = IF p = r THEN Idle ELSE req[p] BY <1>0 DEF Become, TypeOK
<1>3. Idle.op = "none" /\ Idle.pc = "idle" /\ Idle.old = {} BY DEF Idle
<1>4. \A s \in Ids : Alive(s)' <=> Alive(s) BY DEF Alive, IsLive
<1>5. LiveNow' = LiveNow BY DEF LiveNow, Live
<1>6. CASE o.pc \in Minting
  <2>t. PICK t \in Ids : t = o.s BY <1>0, <1>6 DEF Sound
  <2>1. o.op = "mint" /\ o.old = {} /\ t < next /\ rows[t] = "none"
    BY <1>0, <1>6, <2>t DEF Sound
  <2>2. \A p \in Reqs \ {r} : req[p].pc \in Minting => req[p].s # t
    BY <1>6, <2>t DEF PInv, IInv, Apart
  <2>3. \A s \in Ids : Coming(s)' <=> Coming(s) /\ s # t
    <3>1. ASSUME NEW s \in Ids, s # t PROVE Coming(s)' <=> Coming(s)
      BY <1>2, <1>3, <2>t, <3>1 DEF Coming, Minting
    <3>2. ~Coming(t)'
      <4>1. ~(t >= next') BY <1>0, <2>1 DEF TypeOK, Ids
      <4>2. \A p \in Reqs : ~(req'[p].pc \in Minting /\ req'[p].s = t)
        BY <1>2, <1>3, <2>2 DEF Minting
      <4> QED BY <4>1, <4>2 DEF Coming
    <3> QED BY <3>1, <3>2
  <2>4. ~Alive(t) BY <2>1 DEF Alive, IsLive
  <2>5. Spent' = Spent \cup {t} BY <1>4, <2>3, <2>4 DEF Spent
  <2>6. Owed' = Owed
    <3>1. \A p \in Reqs : req'[p].old = req[p].old BY <1>2, <1>3, <2>1
    <3>2. \A p \in Reqs : req[p].old \subseteq Ids BY <1>0 DEF TypeOK, ReqType
    <3> HIDE DEF Alive
    <3> QED BY <1>4, <3>1, <3>2 DEF Owed
  <2>7. Resets' = Resets BY <1>2, <1>3, <2>1 DEF Resets
  <2>8. \A v \in Users : t \notin LiveNow[v] BY <2>4 DEF LiveNow, Live, Alive, IsLive
  <2>9. Promise!GiveUp(t) BY <1>5, <2>5, <2>6, <2>7, <2>8 DEF Promise!GiveUp
  <2> QED BY <1>1, <2>1, <2>9 DEF Promise!Next
<1>7. CASE o.op = "reset"
  <2>1. o.pc \notin Minting BY <1>0, <1>7 DEF Sound, Minting
  <2>2. \A s \in Ids : Coming(s)' <=> Coming(s)
    BY <1>2, <1>3, <2>1 DEF Coming, Minting
  <2>3. Spent' = Spent BY <1>4, <2>2 DEF Spent
  <2>4. Resets[r] # "none" BY <1>7 DEF Resets
  <2>5. Resets' = [Resets EXCEPT ![r] = "none"] BY <1>2, <1>3 DEF Resets
  <2>6. Owed' = [Owed EXCEPT ![r] = {}]
    <3>1. \A p \in Reqs : {s \in req'[p].old : Alive(s)'}
                            = IF p = r THEN {} ELSE {s \in req[p].old : Alive(s)}
      <4>1. \A p \in Reqs : req[p].old \subseteq Ids BY <1>0 DEF TypeOK, ReqType
      <4> HIDE DEF Alive
      <4> QED BY <1>2, <1>3, <1>4, <4>1
    <3> QED BY <3>1 DEF Owed
  <2>7. Promise!EndReset(r) BY <1>5, <2>3, <2>4, <2>5, <2>6 DEF Promise!EndReset
  <2> QED BY <1>1, <2>7 DEF Promise!Next
<1>8. CASE o.pc \notin Minting /\ o.op # "reset"
  <2>1. Alike(Idle, o) BY <1>0, <1>3, <1>8 DEF Alike, Minting, Sound
  <2>2. /\ \A s \in Ids : Coming(s)' <=> Coming(s)
        /\ Resets' = Resets
        /\ \A p \in Reqs : req'[p].old = req[p].old
    BY <1>0, <2>1, IdleTyped, Likewise DEF Become
  <2>3. LiveNow' = LiveNow /\ Spent' = Spent /\ Owed' = Owed
    BY <1>4, <2>2, NothingEnds DEF PInv
  <2> QED BY <1>1, <2>2, <2>3 DEF Promise!vars
<1> QED BY <1>6, <1>7, <1>8

\* A reset is asked for when its token is redeemed.
LEMMA RedeemPromise ==
    ASSUME PInv, IInv', NEW r \in Reqs, Redeem(r)
    PROVE  PInv' /\ [Promise!Next]_(Promise!vars)
<1> DEFINE o == req[r]
<1>0. TypeOK /\ o \in ReqType /\ Sound(o) /\ o.pc = "idle" BY DEF PInv, IInv, TypeOK, Redeem
<1>1. PICK u \in Users, c \in Caches :
        Become(r, [Idle EXCEPT !.op = "reset", !.pc = "snap", !.cache = c, !.user = u,
                               !.old = Live(u, {})])
  BY DEF Redeem
<1> DEFINE q == [Idle EXCEPT !.op = "reset", !.pc = "snap", !.cache = c, !.user = u,
                             !.old = Live(u, {})]
<1>2. q \in ReqType
  <2>1. Live(u, {}) \subseteq Ids BY DEF Live
  <2> QED BY <2>1, IdleTyped DEF ReqType, Ops, PCs
<1>3. q.op = "reset" /\ q.pc = "snap" /\ q.user = u /\ q.old = Live(u, {}) BY DEF Idle
<1>4. req' = [req EXCEPT ![r] = q] BY <1>1 DEF Become
<1> HIDE DEF q
<1>5. Held(q) BY <1>3 DEF Held, Minting
<1>6. UNCHANGED <<rows, user, expired, next, tokens>> BY DEF Redeem
<1>7. PInv' BY <1>2, <1>4, <1>5, <1>6, HeldStep
<1>8. \A p \in Reqs : req'[p] = IF p = r THEN q ELSE req[p] BY <1>0, <1>4 DEF TypeOK
<1>9. \A s \in Ids : Alive(s)' <=> Alive(s) BY <1>6 DEF Alive, IsLive
<1>10. \A s \in Ids : Coming(s)' <=> Coming(s)
  BY <1>0, <1>3, <1>6, <1>8 DEF Coming, Minting
<1>11. LiveNow' = LiveNow /\ Spent' = Spent
  BY <1>6, <1>9, <1>10 DEF LiveNow, Live, Spent
<1>12. Resets[r] = "none" /\ Resets' = [Resets EXCEPT ![r] = "asked"]
  BY <1>0, <1>3, <1>8 DEF Resets, Sound
<1>13. Owed' = [Owed EXCEPT ![r] = LiveNow[u]]
  <2>1. {s \in q.old : Alive(s)} = LiveNow[u] BY <1>3 DEF LiveNow, Live, Alive, IsLive
  <2>2. \A p \in Reqs : {s \in req'[p].old : Alive(s)'}
                          = IF p = r THEN LiveNow[u] ELSE {s \in req[p].old : Alive(s)}
    <3>1. \A p \in Reqs : req[p].old \subseteq Ids BY <1>0 DEF TypeOK, ReqType
    <3>2. q.old \subseteq Ids BY <1>2 DEF ReqType
    <3> HIDE DEF Alive
    <3> QED BY <1>8, <1>9, <2>1, <3>1, <3>2
  <2> QED BY <2>2 DEF Owed
<1>14. Promise!AskReset(r, u) BY <1>11, <1>12, <1>13 DEF Promise!AskReset
<1> QED BY <1>7, <1>14 DEF Promise!Next

\* A revocation ends its session.
LEMMA RevokeRowPromise ==
    ASSUME PInv, IInv', NEW r \in Reqs, RevokeRow(r)
    PROVE  PInv' /\ [Promise!Next]_(Promise!vars)
<1> DEFINE o == req[r]
           q == [o EXCEPT !.pc = "evict", !.ids = {o.s}]
<1>0. TypeOK /\ o \in ReqType /\ Sound(o) /\ Held(o) /\ o.pc = "revoke"
  BY DEF PInv, IInv, TypeOK, RevokeRow
<1>1. o.op # "reset" /\ o.old = {} /\ o.s \in Ids /\ o.s < next /\ o.user \in Users
  BY <1>0 DEF Sound, Held
<1>2. /\ q \in ReqType /\ q.pc = "evict" /\ q.op = o.op /\ q.s = o.s /\ q.user = o.user
      /\ q.old = o.old
  BY <1>0, <1>1 DEF ReqType, PCs
<1>3. req' = [req EXCEPT ![r] = q] BY DEF RevokeRow, Become
<1> HIDE DEF q
<1>4. Held(q) BY <1>1, <1>2 DEF Held, Minting
<1>5. UNCHANGED <<user, expired, next, tokens>> BY DEF RevokeRow
<1>6. \A s \in Ids : Alive(s)' <=> Alive(s) /\ s # o.s
  BY <1>0, <1>5 DEF RevokeRow, Revoked, Alive, IsLive, TypeOK
<1>7. PInv'
  <2>1. \A s \in Ids : rows'[s] = "live" => rows[s] = "live" BY <1>0, RevokedRows DEF RevokeRow
  <2> QED BY <1>2, <1>3, <1>4, <1>5, <2>1, HeldStep
<1>8. Alike(q, o) BY <1>0, <1>1, <1>2 DEF Alike, Minting
<1>9. /\ \A s \in Ids : Coming(s)' <=> Coming(s)
      /\ Resets' = Resets
      /\ \A p \in Reqs : req'[p].old = req[p].old
  BY <1>0, <1>2, <1>3, <1>5, <1>8, Likewise
<1>10. [Promise!Next]_(Promise!vars) BY <1>1, <1>5, <1>6, <1>9, OneEnds
<1> QED BY <1>7, <1>10

\* The UPDATE of a reset ends what it owes.
LEMMA WipePromise ==
    ASSUME PInv, IInv', NEW r \in Reqs, Wipe(r)
    PROVE  PInv' /\ [Promise!Next]_(Promise!vars)
<1> DEFINE o == req[r]
           q == [o EXCEPT !.pc = "evict", !.upd = {}, !.exp = {}]
           u == o.user
<1>0. TypeOK /\ o \in ReqType /\ Sound(o) /\ Held(o) /\ o.pc = "wipe" /\ o.op = "reset"
  BY DEF PInv, IInv, TypeOK, Wipe, Sound
<1>1. u \in Users /\ \A s \in o.upd : s \in Ids /\ s < next /\ user[s] = u
  BY <1>0 DEF Held, ReqType
<1>2. /\ q \in ReqType /\ q.pc = "evict" /\ q.op = o.op /\ q.s = o.s /\ q.user = o.user
      /\ q.old = o.old
  BY <1>0 DEF ReqType, PCs
<1>3. req' = [req EXCEPT ![r] = q] BY DEF Wipe, Become
<1> HIDE DEF q
<1>4. Held(q) BY <1>0, <1>1, <1>2 DEF Held, Minting
<1>5. UNCHANGED <<user, expired, next, tokens>> BY DEF Wipe
<1>6. PInv'
  <2>1. \A s \in Ids : rows'[s] = "live" => rows[s] = "live" BY <1>0, RevokedRows DEF Wipe
  <2> QED BY <1>2, <1>3, <1>4, <1>5, <2>1, HeldStep
<1> DEFINE S == {s \in o.upd : Alive(s)}
<1>7. \A s \in Ids : Alive(s)' <=> Alive(s) /\ s \notin S
  BY <1>0, <1>5 DEF Wipe, Revoked, Alive, IsLive, TypeOK
<1>8. \A p \in Reqs : req'[p] = IF p = r THEN q ELSE req[p] BY <1>0, <1>3 DEF TypeOK
<1>9. \A s \in Ids : Coming(s)' <=> Coming(s)
  BY <1>0, <1>2, <1>5, <1>8 DEF Coming, Minting
<1>10. S \subseteq LiveNow[u] /\ \A v \in Users : v # u => LiveNow[v] \ S = LiveNow[v]
  BY <1>1 DEF LiveNow, Live, Alive, IsLive
<1>11. Owed[r] \subseteq S BY <1>0 DEF Owed, Sound, Alive
<1>12. S \in SUBSET Ids /\ \A s \in S : Alive(s) BY <1>1
<1> HIDE DEF S
<1>13. /\ LiveNow' = [v \in Users |-> LiveNow[v] \ S]
       /\ Spent' = Spent \cup S
       /\ Owed' = [p \in Reqs |-> Owed[p] \ S]
  <2>1. \A p \in Reqs : req'[p].old = req[p].old BY <1>2, <1>8
  <2> QED BY <1>5, <1>7, <1>9, <1>12, <2>1, Ends DEF PInv
<1>14. LiveNow' = [LiveNow EXCEPT ![u] = @ \ S]
  <2>1. LiveNow = [v \in Users |-> LiveNow[v]] BY DEF LiveNow
  <2> QED BY <1>10, <1>13, <2>1
<1>15. Resets[r] = "asked" /\ Resets' = [Resets EXCEPT ![r] = "done"]
  BY <1>0, <1>2, <1>8 DEF Resets
<1>16. S \in SUBSET LiveNow[u] BY <1>10
<1>17. Promise!DoReset(r, u)
  BY <1>11, <1>13, <1>14, <1>15, <1>16 DEF Promise!DoReset, Promise!Over
<1> QED BY <1>1, <1>6, <1>17 DEF Promise!Next

\* An expiry ends a session; the sweep and the caches end none.
LEMMA EnvironmentPromise ==
    ASSUME PInv, IInv',
           \/ \E s \in Ids : Expire(s) \/ Sweep(s)
           \/ \E c \in Caches, s \in Ids : CacheExpire(c, s)
    PROVE  PInv' /\ [Promise!Next]_(Promise!vars)
<1>0. /\ TypeOK /\ next' = next /\ user' = user /\ req' = req /\ tokens' = tokens
      /\ next \in Nat
  BY SessionsAssumption
  DEF PInv, IInv, TypeOK, SessionsAssumption, Expire, Sweep, CacheExpire
<1>1. (\A s \in Ids : Coming(s)' <=> Coming(s)) /\ Resets' = Resets
  BY <1>0 DEF Coming, Resets
<1>2. ASSUME \A s \in Ids : s \in expired' => s \in expired \/ rows[s] # "none",
             \A s \in Ids : rows'[s] = "live" => rows[s] = "live",
             expired \subseteq expired'
      PROVE  PInv'
  <2>1. \A s \in Ids : rows[s] # "none" => s < next
    BY <1>0 DEF PInv, IInv, Fresh, Ids
  <2>2. Known' BY <1>0, <1>2, <2>1 DEF PInv, Known, Ids
  <2>3. ASSUME NEW p \in Reqs PROVE Held(req[p])'
    <3>1. PICK q \in ReqType : q = req[p] BY <1>0 DEF TypeOK
    <3>2. Held(q) /\ Sound(q) BY <3>1 DEF PInv, IInv
    <3>3. q.pc \in Minting => q.s \notin expired' BY <1>2, <3>2 DEF Held, Sound
    <3>4. Live(q.user, expired)' \subseteq Live(q.user, expired)
      BY <1>0, <1>2 DEF Live
    <3>5. Held(q)' BY <1>0, <3>2, <3>3, <3>4, HeldOn
    <3> QED BY <1>0, <3>1, <3>5, Zenon
  <2> QED BY <2>2, <2>3 DEF PInv
<1>3. ASSUME NEW t \in Ids, Expire(t) PROVE PInv' /\ [Promise!Next]_(Promise!vars)
  <2>1. PInv' BY <1>2, <1>3 DEF Expire
  <2>2. \A s \in Ids : Alive(s)' <=> Alive(s) /\ s # t BY <1>3 DEF Expire, Alive, IsLive
  <2> QED BY <1>0, <1>1, <2>1, <2>2, OneEnds
<1>4. ASSUME \A s \in Ids : Alive(s)' <=> Alive(s) PROVE [Promise!Next]_(Promise!vars)
  <2>1. LiveNow' = LiveNow /\ Spent' = Spent /\ Owed' = Owed
    BY <1>0, <1>1, <1>4, NothingEnds DEF PInv
  <2> QED BY <1>1, <2>1 DEF Promise!vars
<1>5. ASSUME NEW t \in Ids, Sweep(t) PROVE PInv' /\ [Promise!Next]_(Promise!vars)
  <2>1. PInv' BY <1>0, <1>2, <1>5 DEF Sweep, TypeOK
  <2>2. \A s \in Ids : Alive(s)' <=> Alive(s) BY <1>0, <1>5 DEF Sweep, Alive, IsLive, TypeOK
  <2> QED BY <1>4, <2>1, <2>2
<1>6. ASSUME NEW c \in Caches, NEW t \in Ids, CacheExpire(c, t)
      PROVE  PInv' /\ [Promise!Next]_(Promise!vars)
  <2>1. PInv' BY <1>2, <1>6 DEF CacheExpire
  <2>2. \A s \in Ids : Alive(s)' <=> Alive(s) BY <1>6 DEF CacheExpire, Alive, IsLive
  <2> QED BY <1>4, <2>1, <2>2
<1> QED BY <1>3, <1>5, <1>6

\* A session that begins was coming, and still is.
LEMMA MintBeginPromise ==
    ASSUME PInv, IInv', NEW r \in Reqs, MintBegin(r)
    PROVE  PInv' /\ [Promise!Next]_(Promise!vars)
<1> DEFINE o == req[r]
<1>0. /\ TypeOK /\ o \in ReqType /\ Sound(o) /\ Held(o) /\ o.pc = "begin"
      /\ next \in 1 .. MaxSessions + 1 /\ next <= MaxSessions
      /\ MaxSessions \in Nat /\ expired \subseteq Ids
  BY SessionsAssumption DEF PInv, IInv, TypeOK, MintBegin, SessionsAssumption
<1>1. o.op = "mint" /\ o.old = {} /\ o.user \in Users BY <1>0 DEF Sound, Held
<1>2. next \in Ids /\ next \in Nat /\ next' = next + 1 BY <1>0 DEF Ids, MintBegin
<1>3. PICK q \in ReqType : /\ q.pc = "lock" /\ q.op = o.op /\ q.s = next /\ q.user = o.user
                           /\ q.old = {} /\ q.ids = {} /\ req' = [req EXCEPT ![r] = q]
  <2> DEFINE w == [Afresh(o) EXCEPT !.pc = "lock", !.s = next, !.exp = expired]
  <2>1. /\ Afresh(o) \in ReqType /\ Afresh(o).op = o.op /\ Afresh(o).user = o.user
        /\ Afresh(o).old = {} /\ Afresh(o).ids = {}
    BY <1>0, AfreshTyped
  <2>2. /\ w \in ReqType /\ w.pc = "lock" /\ w.op = o.op /\ w.s = next /\ w.user = o.user
        /\ w.old = {} /\ w.ids = {}
    BY <1>0, <1>2, <2>1 DEF ReqType, PCs
  <2>3. req' = [req EXCEPT ![r] = w] BY DEF MintBegin, Become
  <2> HIDE DEF w
  <2> QED BY <2>2, <2>3
<1>4. UNCHANGED <<rows, expired, tokens>> BY DEF MintBegin
<1>5. \A p \in Reqs : req'[p] = IF p = r THEN q ELSE req[p] BY <1>0, <1>3 DEF TypeOK
<1>6. \A s \in Ids : user'[s] = IF s = next THEN o.user ELSE user[s]
  BY <1>0 DEF MintBegin, TypeOK
<1>7. \A s \in Ids : s >= next => rows[s] = "none" /\ s \notin expired
  BY <1>2 DEF PInv, IInv, Fresh, Known, Ids
<1>8. ASSUME NEW u PROVE Live(u, expired)' = Live(u, expired)
  <2>1. rows[next] = "none" BY <1>2, <1>7
  <2> QED BY <1>4, <1>6, <2>1 DEF Live
<1>9. PInv'
  <2>1. Known'
    <3>1. \A s \in tokens' : s < next' BY <1>0, <1>2, <1>4 DEF PInv, Known, TypeOK, Ids
    <3>2. ASSUME NEW s \in Ids
          PROVE  IF s < next' THEN user'[s] \in Users ELSE s \notin expired'
      BY <1>1, <1>2, <1>4, <1>6 DEF PInv, Known, Ids
    <3> QED BY <3>1, <3>2 DEF Known
  <2>2. Held(q)'
    <3>1. q.s \in Ids /\ q.s < next' /\ q.s \notin expired' BY <1>2, <1>3, <1>4, <1>7 DEF Ids
    <3> QED BY <1>1, <1>3, <3>1 DEF Held, Minting
  <2>3. ASSUME NEW p \in Reqs PROVE Held(req[p])'
    <3>1. CASE p = r
      <4>1. req'[p] = q BY <1>5, <3>1
      <4> QED BY <2>2, <4>1, Zenon
    <3>2. CASE p # r
      <4>1. PICK v \in ReqType : v = req[p] BY <1>0 DEF TypeOK
      <4>2. Held(v) BY <4>1 DEF PInv
      <4>3. \A s \in Ids : s < next => user'[s] = user[s] BY <1>2, <1>6 DEF Ids
      <4>4. v.pc \in Minting => v.s \notin expired' BY <1>4, <4>2 DEF Held
      <4>5. Live(v.user, expired)' \subseteq Live(v.user, expired) BY <1>8
      <4>6. next' \in Nat /\ next <= next' BY <1>2
      <4>7. Held(v)' BY <1>0, <4>2, <4>3, <4>4, <4>5, <4>6, HeldOn
      <4>8. req'[p] = v BY <1>5, <3>2, <4>1
      <4> QED BY <4>7, <4>8, Zenon
    <3> QED BY <3>1, <3>2
  <2> QED BY <2>1, <2>3 DEF PInv
<1>10. \A s \in Ids : Coming(s)' <=> Coming(s)
  <2>1. \A s \in Ids : s >= next <=> s >= next' \/ s = next BY <1>2 DEF Ids
  <2> QED BY <1>0, <1>3, <1>5, <2>1 DEF Coming, Minting
<1>11. \A s \in Ids : Alive(s)' <=> Alive(s) BY <1>4 DEF Alive, IsLive
<1>12. LiveNow' = LiveNow BY <1>8 DEF LiveNow
<1>13. Spent' = Spent BY <1>10, <1>11 DEF Spent
<1>14. \A p \in Reqs : req'[p].old = req[p].old /\ req[p].old \subseteq Ids
  BY <1>0, <1>1, <1>3, <1>5 DEF TypeOK, ReqType
<1>15. Owed' = Owed BY <1>4, <1>14 DEF Owed, Alive, IsLive
<1>16. Resets' = Resets BY <1>1, <1>3, <1>5 DEF Resets
<1> QED BY <1>9, <1>12, <1>13, <1>15, <1>16 DEF Promise!vars

\* A commit opens its session, and ends those it has picked that were still live.
LEMMA MintCommitPromise ==
    ASSUME PInv, IInv', NEW r \in Reqs, MintCommit(r)
    PROVE  PInv' /\ [Promise!Next]_(Promise!vars)
<1>0. /\ TypeOK /\ req[r] \in ReqType /\ Sound(req[r]) /\ Held(req[r]) /\ req[r].pc = "commit"
      /\ next \in Nat
  BY SessionsAssumption DEF PInv, IInv, TypeOK, MintCommit, SessionsAssumption
<1>o. PICK o \in ReqType : o = req[r] /\ Sound(o) /\ Held(o) /\ o.pc = "commit"
  BY <1>0
<1>t. PICK t \in Ids : t = o.s BY <1>o DEF Sound, Minting
<1>u. PICK u \in Users : u = o.user BY <1>o DEF Held
<1>1. /\ o.op = "mint" /\ o.old = {} /\ t < next /\ user[t] = u /\ rows[t] = "none"
      /\ t \notin expired
  BY <1>o, <1>t, <1>u DEF Sound, Held, Minting
<1>2. /\ \A s \in o.ids : s \in Ids /\ user[s] = u
      /\ \A a \in o.ids, s \in Live(u, expired) \ o.ids : a < s
      /\ Cap = 0 => o.ids = {}
  BY <1>o, <1>u DEF Held, ReqType
<1> DEFINE q == [Afresh(o) EXCEPT !.pc = "put", !.ids = o.ids]
<1>3. q \in ReqType /\ q.pc = "put" /\ q.op = o.op /\ q.s = t /\ q.user = u /\ q.old = {}
  <2>1. /\ Afresh(o) \in ReqType /\ Afresh(o).op = o.op /\ Afresh(o).user = o.user
        /\ Afresh(o).s = o.s /\ Afresh(o).old = {}
    BY AfreshTyped
  <2> QED BY <1>t, <1>u, <2>1 DEF ReqType, PCs
<1>4. req' = [req EXCEPT ![r] = q] BY <1>o DEF MintCommit, Become
<1> HIDE DEF q
<1>5. \A p \in Reqs : req'[p] = IF p = r THEN q ELSE req[p] BY <1>0, <1>4 DEF TypeOK
<1>6. UNCHANGED <<user, expired, next, tokens>> BY DEF MintCommit
<1>7. \A s \in Ids : rows'[s] = IF s = t THEN "live"
                                ELSE IF s \in o.ids /\ rows[s] = "live" THEN "revoked" ELSE rows[s]
  BY <1>o, <1>t DEF MintCommit, Revoked
<1>8. \A s \in Ids : Alive(s)' <=> s = t \/ (Alive(s) /\ s \notin o.ids)
  BY <1>1, <1>6, <1>7 DEF Alive, IsLive
<1>9. PInv'
  <2>1. Known' BY <1>6 DEF PInv, Known
  <2>2. Held(q)' BY <1>1, <1>3, <1>6 DEF Held, Minting
  <2>3. ASSUME NEW p \in Reqs PROVE Held(req[p])'
    <3>1. CASE p = r
      <4>1. req'[p] = q BY <1>5, <3>1
      <4> QED BY <2>2, <4>1, Zenon
    <3>2. CASE p # r
      <4>1. PICK v \in ReqType : v = req[p] BY <1>0 DEF TypeOK
      <4>2. Held(v) /\ Sound(v) /\ Apart(v, o) BY <1>o, <3>2, <4>1 DEF PInv, IInv
      <4>3. v.pc \in Minting => v.s \notin expired' BY <1>6, <4>2 DEF Held
      <4>4. v.pc = "commit" => v.user # u
        BY <1>o, <1>u, <1>1, <4>2 DEF Apart, HasMintLock, Sound, Minting
      <4>5. v.pc = "commit" => Live(v.user, expired)' \subseteq Live(v.user, expired)
        BY <1>1, <1>6, <1>7, <4>4 DEF Live
      <4>6. Held(v)' BY <1>0, <1>6, <4>2, <4>3, <4>5, HeldOn
      <4>7. req'[p] = v BY <1>5, <3>2, <4>1
      <4> QED BY <4>6, <4>7, Zenon
    <3> QED BY <3>1, <3>2
  <2> QED BY <2>1, <2>3 DEF PInv
<1>10. ~Alive(t) /\ Coming(t) /\ t \notin Spent
  BY <1>o, <1>t, <1>1 DEF Alive, IsLive, Coming, Spent, Minting
<1>11. \A v \in Users : t \notin LiveNow[v] BY <1>1 DEF LiveNow, Live
<1>12. \A s \in Ids : Coming(s)' <=> Coming(s) /\ s # t
  <2>1. \A p \in Reqs \ {r} : req[p].pc \in Minting => req[p].s # t
    BY <1>o, <1>t DEF PInv, IInv, Apart, Minting
  <2>2. ~Coming(t)'
    <3>1. ~(t >= next') BY <1>0, <1>1, <1>6 DEF Ids
    <3>2. \A p \in Reqs : ~(req'[p].pc \in Minting /\ req'[p].s = t)
      BY <1>3, <1>5, <2>1 DEF Minting
    <3> QED BY <3>1, <3>2 DEF Coming
  <2>3. ASSUME NEW s \in Ids, s # t PROVE Coming(s)' <=> Coming(s)
    BY <1>o, <1>t, <1>3, <1>5, <1>6, <2>3 DEF Coming, Minting
  <2> QED BY <2>2, <2>3
<1> DEFINE S == {s \in o.ids : Alive(s)}
<1>13. /\ S \subseteq LiveNow[u] /\ LiveNow[u] \ S = LiveNow[u] \ o.ids
       /\ \A v \in Users \ {u} : LiveNow[v] \cap o.ids = {}
  BY <1>2 DEF LiveNow, Live, Alive, IsLive
<1>14. \A a \in S, s \in LiveNow[u] \ S : a < s BY <1>2, <1>13 DEF LiveNow
<1>15. Cap = 0 => S = {} BY <1>2
<1>16. \A s \in Ids : Alive(s)' <=> s = t \/ (Alive(s) /\ s \notin S) BY <1>8
<1>17. S \subseteq Ids /\ (\A s \in S : Alive(s) /\ ~Coming(s)) BY <1>2, AliveNotComing DEF PInv
<1> HIDE DEF S
<1>18. LiveNow' = [LiveNow EXCEPT ![u] = (@ \ S) \cup {t}]
  <2>1. \A v : Live(v, expired) = {s \in Ids : user[s] = v /\ Alive(s)}
    BY DEF Live, Alive, IsLive
  <2>2. \A v : Live(v, expired)' = {s \in Ids : user'[s] = v /\ Alive(s)'}
    BY DEF Live, Alive, IsLive
  <2>3. \A s \in S : user[s] = u BY <1>2 DEF S
  <2> HIDE DEF Alive
  <2>4. ASSUME NEW v \in Users
        PROVE  Live(v, expired)' = IF v = u THEN (Live(v, expired) \ S) \cup {t} ELSE Live(v, expired)
    BY <1>1, <1>6, <1>16, <2>1, <2>2, <2>3
  <2> QED BY <2>4 DEF LiveNow
<1>19. Spent' = Spent \cup S
  <2> HIDE DEF Alive, Coming
  <2> QED BY <1>10, <1>12, <1>16, <1>17 DEF Spent
<1>20. Owed' = [p \in Reqs |-> Owed[p] \ S]
  <2>1. \A p \in Reqs : req'[p].old = req[p].old BY <1>o, <1>1, <1>3, <1>5
  <2>2. \A p \in Reqs : req[p].old \subseteq Ids /\ t \notin req[p].old
    <3>1. \A p \in Reqs \ {r} : t \notin req[p].old BY <1>o, <1>t DEF PInv, IInv, Apart, Minting
    <3> QED BY <1>0, <1>o, <1>1, <3>1 DEF TypeOK, ReqType
  <2> HIDE DEF Alive
  <2> QED BY <1>16, <2>1, <2>2 DEF Owed
<1>21. Resets' = Resets BY <1>o, <1>1, <1>3, <1>5 DEF Resets
<1>22. Cap > 0 => Cardinality(LiveNow'[u]) <= Cap
  BY DEF IInv, AtMostCap, LiveNow
<1>23. S \in SUBSET LiveNow[u] BY <1>13
<1>24. Promise!Open(u, t)
  <2>1. Promise!Over(S) BY <1>19, <1>20 DEF Promise!Over
  <2>2. \E old \in SUBSET LiveNow[u] :
           /\ \A a \in old, s \in LiveNow[u] \ old : a < s
           /\ Cap = 0 => old = {}
           /\ LiveNow' = [LiveNow EXCEPT ![u] = (@ \ old) \cup {t}]
           /\ Promise!Over(old)
    BY <1>14, <1>15, <1>18, <1>23, <2>1
  <2>3. Promise!Cardinality(LiveNow'[u]) = Cardinality(LiveNow'[u])
    BY DEF Promise!Cardinality, Cardinality
  <2> QED BY <1>10, <1>11, <1>21, <1>22, <2>2, <2>3 DEF Promise!Open
<1> QED BY <1>9, <1>24 DEF Promise!Next
------------------------------------------------------------------------------
\* A revocation that fails ends nothing.
LEMMA RevokeFailsPromise ==
    ASSUME PInv, IInv', NEW r \in Reqs, RevokeFails(r)
    PROVE  PInv' /\ [Promise!Next]_(Promise!vars)
<1> DEFINE o == req[r]
           q == [o EXCEPT !.pc = "unrevoked", !.ids = {}, !.upd = {}, !.exp = {}]
<1>0. /\ TypeOK /\ o \in ReqType /\ Sound(o) /\ Held(o)
      /\ o.pc \in {"snap", "grab", "wipe"} /\ o.op = "reset"
  BY DEF PInv, IInv, TypeOK, RevokeFails, Sound
<1>1. /\ UNCHANGED <<rows, user, expired, next, tokens>> /\ req' = [req EXCEPT ![r] = q]
  BY DEF RevokeFails, Become
<1>2. /\ q \in ReqType /\ q.pc = "unrevoked" /\ q.op = o.op /\ q.s = o.s /\ q.user = o.user
      /\ q.old = o.old
  BY <1>0 DEF ReqType, PCs
<1> HIDE DEF q
<1>3. Held(q) BY <1>0, <1>2 DEF Held, Minting
<1>4. PInv' BY <1>1, <1>2, <1>3, HeldStep
<1>5. \A p \in Reqs : req'[p] = IF p = r THEN q ELSE req[p] BY <1>0, <1>1 DEF TypeOK
<1>6. \A s \in Ids : Coming(s)' <=> Coming(s)
  BY <1>0, <1>1, <1>2, <1>5 DEF Coming, Minting
<1>7. \A p \in Reqs : req'[p].old = req[p].old BY <1>2, <1>5
<1>8. \A s \in Ids : Alive(s)' <=> Alive(s) BY <1>1 DEF Alive, IsLive
<1>9. LiveNow' = LiveNow /\ Spent' = Spent /\ Owed' = Owed
  BY <1>1, <1>6, <1>7, <1>8, NothingEnds DEF PInv
<1>10. Resets[r] = "asked" /\ Resets' = [Resets EXCEPT ![r] = "kept"]
  BY <1>0, <1>2, <1>5 DEF Resets
<1>11. Promise!KeepAll(r) BY <1>9, <1>10 DEF Promise!KeepAll
<1> QED BY <1>4, <1>11 DEF Promise!Next

LEMMA InitPromise == Init => PInv /\ Promise!Init
<1> SUFFICES ASSUME Init PROVE PInv /\ Promise!Init OBVIOUS
<1>1. IInv BY InitInv
<1>2. Known BY SessionsAssumption DEF Init, Known, Ids, SessionsAssumption
<1>3. \A r \in Reqs : Held(req[r]) BY IdleHeld DEF Init
<1>4. LiveNow = [u \in Users |-> {}] BY DEF Init, LiveNow, Live
<1>5. Spent = {}
  <2>1. \A s \in Ids : s >= next BY SessionsAssumption DEF Init, Ids, SessionsAssumption
  <2> QED BY <2>1 DEF Spent, Coming
<1>6. Resets = [r \in Reqs |-> "none"] /\ Owed = [r \in Reqs |-> {}]
  BY DEF Init, Resets, Owed, Idle
<1> QED BY <1>1, <1>2, <1>3, <1>4, <1>5, <1>6 DEF PInv, Promise!Init

LEMMA NextPromise == PInv /\ [Next]_vars => PInv' /\ [Promise!Next]_(Promise!vars)
<1> SUFFICES ASSUME PInv, [Next]_vars PROVE PInv' /\ [Promise!Next]_(Promise!vars) OBVIOUS
<1>0. IInv' BY NextInv DEF PInv
<1>1. CASE UNCHANGED vars
  <2>1. Known' /\ \A r \in Reqs : Held(req[r])' BY <1>1 DEF vars, PInv, Known, Held, Live
  <2>2. LiveNow' = LiveNow /\ Spent' = Spent /\ Resets' = Resets /\ Owed' = Owed
    BY <1>1 DEF vars, LiveNow, Live, Spent, Coming, Alive, IsLive, Resets, Owed
  <2> QED BY <1>0, <2>1, <2>2 DEF PInv, Promise!vars
<1>2. ASSUME NEW r \in Reqs, Start(r) PROVE PInv' /\ [Promise!Next]_(Promise!vars)
  BY <1>0, <1>2, QuietPromise, RedeemPromise DEF Start, Begins
<1>3. ASSUME NEW r \in Reqs, Step(r) PROVE PInv' /\ [Promise!Next]_(Promise!vars)
  <2>1. CASE Answer(r) /\ req[r].op = "reset"
    <3>1. Become(r, Idle) /\ UNCHANGED <<rows, user, expired, next, tokens>> BY <2>1 DEF Answer
    <3> QED BY <1>0, <3>1, EndPromise
  <2>2. CASE ~(Answer(r) /\ req[r].op = "reset")
    BY <1>0, <1>3, <2>2, QuietPromise, MintBeginPromise, MintCommitPromise, RevokeRowPromise,
       WipePromise
    DEF Step, Mints, Answers, Validates, Selects
  <2> QED BY <2>1, <2>2
<1>4. ASSUME NEW r \in Reqs, Abort(r) PROVE PInv' /\ [Promise!Next]_(Promise!vars)
  BY <1>0, <1>4, EndPromise DEF Abort
<1>5. ASSUME NEW r \in Reqs, RevokeFails(r) PROVE PInv' /\ [Promise!Next]_(Promise!vars)
  BY <1>0, <1>5, RevokeFailsPromise
<1> QED BY <1>0, <1>1, <1>2, <1>3, <1>4, <1>5, EnvironmentPromise DEF Next

\* The sessions implement SessionPromise: whatever logins, switches, logouts, resets,
\* expiries, sweeps and failures overlap, a session is live once and for one user, a new
\* one ends only the oldest, and a reset ends all it had to or, if its revocation fails, none,
\* with the same answer.
THEOREM Refinement == Spec => PromiseKept
BY InitPromise, NextPromise, PTL DEF Spec, PromiseKept, Promise!Spec
=============================================================================
