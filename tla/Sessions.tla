------------------------------- MODULE Sessions -------------------------------
(***************************************************************************)
(* The sessions of a user and their cached copies: minting under a cap     *)
(* (login, switch-org), validation through the cache, revocation (logout,  *)
(* switch-org) and the revocation of all sessions by a password reset.     *)
(*                                                                         *)
(* A request runs on a replica of the API, takes its statements and cache  *)
(* calls one at a time and may end between any two: an error, a cancelled  *)
(* context or a crash, after which an open transaction is rolled back.  A  *)
(* failed commit that took effect is the commit followed by such an end.   *)
(*                                                                         *)
(* PostgreSQL runs the transactions at READ COMMITTED; NOW() is the start  *)
(* of the transaction.  Row locks last until its end.  A transaction's     *)
(* last UPDATE and its commit are one action.  Only Expire lets time pass. *)
(*                                                                         *)
(* Left out: how a caller proves who he is (password, invitation, identity *)
(* provider), the organization a session is bound to, last_seen_at.        *)
(***************************************************************************)
EXTENDS Naturals, FiniteSets

CONSTANTS
    Users,
    Reqs,        \* slots for requests in flight
    Caches,      \* one with Redis, one for each replica without
    Cap,         \* SESSIONS_PER_USER_CAP; 0: no cap
    Nobody,      \* not a user
    NoCache,     \* not a cache
    MaxSessions, \* bound: sessions begun
    Expiring     \* bound: the sessions that may expire

ASSUME SessionsAssumption ==
    /\ Cap \in Nat /\ MaxSessions \in Nat
    /\ Expiring \subseteq 1 .. MaxSessions
    /\ Nobody \notin Users /\ NoCache \notin Caches

\* A session stands for its id, its token and the hash of the token.  The numbers follow
\* created_at.
Ids == 1 .. MaxSessions

VARIABLES
    rows,     \* the sessions table, as committed
    user,     \* the user of a session
    expired,  \* the sessions past their expires_at
    next,     \* the number of the next session to begin
    cache,    \* the copies in each cache, with their revoked_at
    tokens,   \* the sessions whose cookie has been sent
    redeemed, \* password_resets.redeemed_at: the users whose reset is used (bound: each
              \* user has one, issued before the start)
    req       \* the requests in flight

vars == <<rows, user, expired, next, cache, tokens, redeemed, req>>
------------------------------------------------------------------------------
\* "none": there is no row, or no copy.
Statuses == {"none", "live", "revoked"}

Ops == {"none", "mint", "validate", "switch", "logout", "reset"}
PCs == {"idle", "begin", "lock", "count", "pick", "commit", "put", "evict",
        "get", "read", "touch", "fill", "accepted", "revoke", "snap", "grab", "wipe", "unrevoked"}

\* cache: its replica's cache; s: its session; row: that session as read; ids: the rows
\* it has locked, then the hashes to evict; upd: the rows its last UPDATE found; exp: what
\* had expired by its NOW(); excess: how many sessions are too many; old: the sessions
\* that were live when the reset was redeemed.
ReqType == [op : Ops, pc : PCs, cache : Caches \cup {NoCache}, user : Users \cup {Nobody},
            s : Ids \cup {0}, row : Statuses, ids : SUBSET Ids, upd : SUBSET Ids,
            exp : SUBSET Ids, excess : Nat, old : SUBSET Ids]

Idle == [op |-> "none", pc |-> "idle", cache |-> NoCache, user |-> Nobody, s |-> 0,
         row |-> "none", ids |-> {}, upd |-> {}, exp |-> {}, excess |-> 0, old |-> {}]

\* The same request with nothing left from what it did so far.
Afresh(q) == [Idle EXCEPT !.op = q.op, !.cache = q.cache, !.user = q.user, !.s = q.s]

TypeOK ==
    /\ rows \in [Ids -> Statuses]
    /\ user \in [Ids -> Users \cup {Nobody}]
    /\ expired \subseteq Ids
    /\ next \in 1 .. MaxSessions + 1
    /\ cache \in [Caches -> [Ids -> Statuses]]
    /\ tokens \subseteq Ids
    /\ redeemed \subseteq Users
    /\ req \in [Reqs -> ReqType]

\* revoked_at IS NULL AND expires_at > NOW(), where exp had expired by NOW().
Live(u, exp) == {s \in Ids : user[s] = u /\ rows[s] = "live" /\ s \notin exp}

\* model.Session.Live.
IsLive(status, s, exp) == status = "live" /\ s \notin exp

LockedBy(q) == IF q.pc \in {"commit", "wipe"} THEN q.ids ELSE {}
Free(S, r)  == \A q \in Reqs \ {r} : S \cap LockedBy(req[q]) = {}

\* The n sessions of S created first, or all if there are fewer.
AreOldest(T, n, S) ==
    /\ T \subseteq S
    /\ Cardinality(T) = n \/ (Cardinality(T) < n /\ T = S)
    /\ \A t \in T, s \in S \ T : t < s

Become(r, q) == req' = [req EXCEPT ![r] = q]

Init ==
    /\ rows = [s \in Ids |-> "none"]
    /\ user = [s \in Ids |-> Nobody]
    /\ expired = {}
    /\ next = 1
    /\ cache = [c \in Caches |-> [s \in Ids |-> "none"]]
    /\ tokens = {}
    /\ redeemed = {}
    /\ req = [r \in Reqs |-> Idle]
------------------------------------------------------------------------------
\* MintSession, CreateSessionEnforcingCap.

\* A login (password, picked organization, invitation or identity provider) that has
\* proved who it is.
Login(r) ==
    /\ req[r].pc = "idle"
    /\ \E u \in Users, c \in Caches :
         Become(r, [Idle EXCEPT !.op = "mint", !.pc = "begin", !.cache = c, !.user = u])
    /\ UNCHANGED <<rows, user, expired, next, cache, tokens, redeemed>>

\* BEGIN fixes NOW(), with which the row will be created.
MintBegin(r) ==
    /\ req[r].pc = "begin" /\ next <= MaxSessions
    /\ next' = next + 1
    /\ user' = [user EXCEPT ![next] = req[r].user]
    /\ Become(r, [Afresh(req[r]) EXCEPT !.pc = "lock", !.s = next, !.exp = expired])
    /\ UNCHANGED <<rows, expired, cache, tokens, redeemed>>

HasMintLock(q) == q.op = "mint" /\ q.pc \in {"count", "pick", "commit"}

\* Mutant: without the advisory lock.
MintLockNot(r) ==
    /\ req[r].pc = "lock"
    /\ Become(r, [req[r] EXCEPT !.pc = "count"])
    /\ UNCHANGED <<rows, user, expired, next, cache, tokens, redeemed>>

\* The advisory lock of the user.  The INSERT is visible to nobody before the commit.
MintLock(r) ==
    /\ req[r].pc = "lock"
    /\ \A q \in Reqs : HasMintLock(req[q]) => req[q].user # req[r].user
    /\ Become(r, [req[r] EXCEPT !.pc = "count"])
    /\ UNCHANGED <<rows, user, expired, next, cache, tokens, redeemed>>

\* Mutant: the row just inserted is forgotten, and the excess not clamped.
MintCountOff(r) ==
    LET others == Cardinality(Live(req[r].user, req[r].exp))
    IN  /\ req[r].pc = "count"
        /\ Become(r, [req[r] EXCEPT !.pc = "pick", !.excess = others - Cap])
        /\ UNCHANGED <<rows, user, expired, next, cache, tokens, redeemed>>

MintCount(r) ==
    LET others == Cardinality(Live(req[r].user, req[r].exp))
    IN  /\ req[r].pc = "count"
        /\ \/ /\ Cap > 0 /\ others + 1 > Cap
              /\ Become(r, [req[r] EXCEPT !.pc = "pick", !.excess = others + 1 - Cap])
           \/ /\ ~(Cap > 0 /\ others + 1 > Cap)
              /\ Become(r, [req[r] EXCEPT !.pc = "commit"])
        /\ UNCHANGED <<rows, user, expired, next, cache, tokens, redeemed>>

\* SELECT the oldest FOR UPDATE: it waits for those that others have locked.
MintPick(r) ==
    /\ req[r].pc = "pick"
    /\ \E T \in SUBSET Live(req[r].user, req[r].exp) :
         /\ AreOldest(T, req[r].excess, Live(req[r].user, req[r].exp))
         /\ Free(T, r)
         /\ Become(r, [req[r] EXCEPT !.pc = "commit", !.ids = T, !.excess = 0])
    /\ UNCHANGED <<rows, user, expired, next, cache, tokens, redeemed>>

Revoked(S) == [s \in Ids |-> IF s \in S /\ rows[s] = "live" THEN "revoked" ELSE rows[s]]

MintCommit(r) ==
    /\ req[r].pc = "commit"
    /\ rows' = [Revoked(req[r].ids) EXCEPT ![req[r].s] = "live"]
    /\ Become(r, [Afresh(req[r]) EXCEPT !.pc = "put", !.ids = req[r].ids])
    /\ UNCHANGED <<user, expired, next, cache, tokens, redeemed>>

\* SessionCache.Put and Delete: a failure is logged and nothing else.
Put(c, s, status) == cache' \in {cache, [cache EXCEPT ![c][s] = status]}

\* Put skips a session about to expire, which counts as a failure here.
MintPut(r) ==
    /\ req[r].pc = "put"
    /\ Put(req[r].cache, req[r].s, "live")
    /\ Become(r, [req[r] EXCEPT !.pc = "evict"])
    /\ UNCHANGED <<rows, user, expired, next, tokens, redeemed>>

\* DeleteMany, one hash at a time.
Evict(r) ==
    /\ req[r].pc = "evict"
    /\ \E s \in req[r].ids :
         /\ Put(req[r].cache, s, "none")
         /\ Become(r, [req[r] EXCEPT !.ids = @ \ {s}])
    /\ UNCHANGED <<rows, user, expired, next, tokens, redeemed>>

\* The answer: a login's carries the cookie; a switch-org that has revoked its session
\* goes on to mint; a reset's is the same whether it has revoked the sessions or not.
Answer(r) ==
    /\ req[r].pc \in {"evict", "unrevoked"} /\ req[r].ids = {}
    /\ tokens' = IF req[r].op = "mint" THEN tokens \cup {req[r].s} ELSE tokens
    /\ Become(r, IF req[r].op = "switch"
                 THEN [Afresh(req[r]) EXCEPT !.op = "mint", !.pc = "begin", !.s = 0]
                 ELSE Idle)
    /\ UNCHANGED <<rows, user, expired, next, cache, redeemed>>
------------------------------------------------------------------------------
\* ValidateSession, alone or for switch-org.
Validate(r) ==
    /\ req[r].pc = "idle"
    /\ \E s \in tokens, c \in Caches, op \in {"validate", "switch"} :
         Become(r, [Idle EXCEPT !.op = op, !.pc = "get", !.cache = c, !.user = user[s],
                                !.s = s, !.exp = expired])
    /\ UNCHANGED <<rows, user, expired, next, cache, tokens, redeemed>>

\* A hit is checked again, and deleted if it is not live; a failure counts as a miss.
CacheGet(r) ==
    LET copy == cache[req[r].cache][req[r].s]
    IN  /\ req[r].pc = "get"
        /\ \/ /\ IsLive(copy, req[r].s, req[r].exp)
              /\ Become(r, [Afresh(req[r]) EXCEPT !.pc = "accepted"])
           \/ /\ copy # "none" /\ ~IsLive(copy, req[r].s, req[r].exp)
              /\ Become(r, [Afresh(req[r]) EXCEPT !.op = "validate", !.pc = "evict",
                                                  !.ids = {req[r].s}])
           \/ Become(r, [req[r] EXCEPT !.pc = "read"])
        /\ UNCHANGED <<rows, user, expired, next, cache, tokens, redeemed>>

\* Mutant: without the check.
ReadRowAnyway(r) ==
    /\ req[r].pc = "read"
    /\ Become(r, [req[r] EXCEPT !.pc = "touch", !.row = rows[req[r].s]])
    /\ UNCHANGED <<rows, user, expired, next, cache, tokens, redeemed>>

\* GetSessionByTokenHash and the check of what it returned.
ReadRow(r) ==
    LET row == rows[req[r].s]
    IN  /\ req[r].pc = "read"
        /\ \/ /\ IsLive(row, req[r].s, req[r].exp)
              /\ Become(r, [req[r] EXCEPT !.pc = "touch", !.row = row])
           \/ /\ ~IsLive(row, req[r].s, req[r].exp)
              /\ Become(r, Idle)
        /\ UNCHANGED <<rows, user, expired, next, cache, tokens, redeemed>>

\* Mutant: the whole row is written back as it was read.
TouchWhole(r) ==
    /\ req[r].pc = "touch" /\ Free({req[r].s}, r)
    /\ rows' = [rows EXCEPT ![req[r].s] = req[r].row]
    /\ Become(r, [req[r] EXCEPT !.pc = "fill"])
    /\ UNCHANGED <<user, expired, next, cache, tokens, redeemed>>

\* TouchSessionLastSeen waits for whoever has the row; its error is only logged.
Touch(r) ==
    /\ req[r].pc = "touch" /\ Free({req[r].s}, r)
    /\ Become(r, [req[r] EXCEPT !.pc = "fill"])
    /\ UNCHANGED <<rows, user, expired, next, cache, tokens, redeemed>>

Fill(r) ==
    /\ req[r].pc = "fill"
    /\ Put(req[r].cache, req[r].s, req[r].row)
    /\ Become(r, [Afresh(req[r]) EXCEPT !.pc = "accepted"])
    /\ UNCHANGED <<rows, user, expired, next, tokens, redeemed>>

\* The caller has an identity.  switch-org ends here too, if the target is the current
\* organization or not one of the user's.
Accept(r) ==
    /\ req[r].pc = "accepted"
    /\ \/ Become(r, Idle)
       \/ req[r].op = "switch" /\ Become(r, [req[r] EXCEPT !.pc = "revoke"])
    /\ UNCHANGED <<rows, user, expired, next, cache, tokens, redeemed>>
------------------------------------------------------------------------------
\* logout finds the row, live or not, by the hash of the cookie's token.
Logout(r) ==
    /\ req[r].pc = "idle"
    /\ \E s \in tokens, c \in Caches :
         /\ rows[s] # "none"
         /\ Become(r, [Idle EXCEPT !.op = "logout", !.pc = "revoke", !.cache = c,
                                   !.user = user[s], !.s = s])
    /\ UNCHANGED <<rows, user, expired, next, cache, tokens, redeemed>>

\* RevokeSession: the row first, then the copy in this replica's cache.
RevokeRow(r) ==
    /\ req[r].pc = "revoke" /\ Free({req[r].s}, r)
    /\ rows' = Revoked({req[r].s})
    /\ Become(r, [req[r] EXCEPT !.pc = "evict", !.ids = {req[r].s}])
    /\ UNCHANGED <<user, expired, next, cache, tokens, redeemed>>
------------------------------------------------------------------------------
\* redeemPasswordReset: the token is used up and the password set in one transaction,
\* the sessions are revoked in a second.
Redeem(r) ==
    /\ req[r].pc = "idle"
    /\ \E u \in Users \ redeemed, c \in Caches :
         /\ redeemed' = redeemed \cup {u}
         /\ Become(r, [Idle EXCEPT !.op = "reset", !.pc = "snap", !.cache = c, !.user = u,
                                   !.old = Live(u, {})])
    /\ UNCHANGED <<rows, user, expired, next, cache, tokens>>

\* RevokeUserSessions: its SELECT FOR UPDATE finds the live sessions ...
Snap(r) ==
    /\ req[r].pc = "snap"
    /\ Become(r, [req[r] EXCEPT !.pc = "grab", !.exp = expired,
                                !.ids = Live(req[r].user, expired)])
    /\ UNCHANGED <<rows, user, expired, next, cache, tokens, redeemed>>

\* Mutant: FOR UPDATE SKIP LOCKED, and the UPDATE only of what the SELECT returned.
GrabSkipLocked(r) ==
    LET free == {s \in req[r].ids \cap Live(req[r].user, req[r].exp) : Free({s}, r)}
    IN  /\ req[r].pc = "grab"
        /\ Become(r, [req[r] EXCEPT !.pc = "wipe", !.ids = free, !.upd = free])
        /\ UNCHANGED <<rows, user, expired, next, cache, tokens, redeemed>>

\* ... waits until it has locked them, and returns those that are still live; the UPDATE
\* that follows finds the sessions committed since as well ...
Grab(r) ==
    LET live == Live(req[r].user, req[r].exp)
    IN  /\ req[r].pc = "grab" /\ Free(req[r].ids, r)
        /\ Become(r, [req[r] EXCEPT !.pc = "wipe", !.ids = @ \cap live, !.upd = live])
        /\ UNCHANGED <<rows, user, expired, next, cache, tokens, redeemed>>

\* ... and revokes them when nobody else has them locked.
Wipe(r) ==
    /\ req[r].pc = "wipe" /\ Free(req[r].upd, r)
    /\ rows' = Revoked(req[r].upd)
    /\ Become(r, [req[r] EXCEPT !.pc = "evict", !.upd = {}, !.exp = {}])
    /\ UNCHANGED <<user, expired, next, cache, tokens, redeemed>>

\* An error in any of these rolls them back.  redeemPasswordReset only logs it.  (An error
\* of a commit that took effect is a Wipe after which no copy is evicted.)
RevokeFails(r) ==
    /\ req[r].pc \in {"snap", "grab", "wipe"}
    /\ Become(r, [req[r] EXCEPT !.pc = "unrevoked", !.ids = {}, !.upd = {}, !.exp = {}])
    /\ UNCHANGED <<rows, user, expired, next, cache, tokens, redeemed>>
------------------------------------------------------------------------------
\* The request fails, or its replica dies; a reset whose revocation fails goes on, see above.
Abort(r) ==
    /\ req[r].pc # "idle"
    /\ Become(r, Idle)
    /\ UNCHANGED <<rows, user, expired, next, cache, tokens, redeemed>>

Expire(s) ==
    /\ s \in Expiring \ expired /\ rows[s] # "none"
    /\ expired' = expired \cup {s}
    /\ UNCHANGED <<rows, user, next, cache, tokens, redeemed, req>>

\* The time to live of a copy, at most a day, is over; or the cache dropped it.
CacheExpire(c, s) ==
    /\ cache[c][s] # "none"
    /\ cache' = [cache EXCEPT ![c][s] = "none"]
    /\ UNCHANGED <<rows, user, expired, next, tokens, redeemed, req>>

\* runSessionSweepTicker deletes what has been dead for a week: no copy and no request is
\* as old.
Sweep(s) ==
    /\ rows[s] = "revoked" \/ (rows[s] = "live" /\ s \in expired)
    /\ \A c \in Caches : cache[c][s] = "none"
    /\ \A r \in Reqs : s # req[r].s
                       /\ s \notin req[r].ids \cup req[r].upd \cup req[r].old
    /\ rows' = [rows EXCEPT ![s] = "none"]
    /\ UNCHANGED <<user, expired, next, cache, tokens, redeemed, req>>

\* What a request does once it has started.
Step(r) ==
    \/ MintBegin(r) \/ MintLock(r) \/ MintCount(r) \/ MintPick(r) \/ MintCommit(r) \/ MintPut(r)
    \/ Evict(r) \/ Answer(r)
    \/ CacheGet(r) \/ ReadRow(r) \/ Touch(r) \/ Fill(r) \/ Accept(r)
    \/ RevokeRow(r) \/ Snap(r) \/ Grab(r) \/ Wipe(r)

Start(r) == Login(r) \/ Validate(r) \/ Logout(r) \/ Redeem(r)

Next ==
    \/ \E r \in Reqs : Start(r) \/ Step(r) \/ RevokeFails(r) \/ Abort(r)
    \/ \E s \in Ids : Expire(s) \/ Sweep(s)
    \/ \E c \in Caches, s \in Ids : CacheExpire(c, s)

\* Every request is served or ends, and no copy outlives its time to live.
Fairness ==
    /\ \A r \in Reqs : WF_vars(Step(r) \/ Abort(r))
    /\ \A c \in Caches, s \in Ids : WF_vars(CacheExpire(c, s))

Spec == Init /\ [][Next]_vars /\ Fairness
------------------------------------------------------------------------------
\* A session that is being minted: begun and not committed.
Minting == {"lock", "count", "pick", "commit"}
Coming(s) == s >= next \/ \E r \in Reqs : req[r].pc \in Minting /\ req[r].s = s
Alive(s) == IsLive(rows[s], s, expired)

\* What the promise sees of them.
LiveNow == [u \in Users |-> Live(u, expired)]
Spent   == {s \in Ids : ~Alive(s) /\ ~Coming(s)}
Resets  == [r \in Reqs |-> IF req[r].op # "reset" THEN "none"
                           ELSE CASE req[r].pc = "evict"     -> "done"
                                  [] req[r].pc = "unrevoked" -> "kept"
                                  [] OTHER                   -> "asked"]
Owed    == [r \in Reqs |-> {s \in req[r].old : Alive(s)}]

\* The sessions keep their promise (SessionPromise): one is live from the commit of its
\* mint until it is revoked or has expired, whatever the sweep deletes later; a reset
\* revokes all it owes or, with the same answer, none.
Promise == INSTANCE SessionPromise WITH
    live <- LiveNow, spent <- Spent, reset <- Resets, owed <- Owed

PromiseKept == Promise!Spec

\* Cap bounds the live sessions of a user, whatever logins, switches, logouts and resets
\* overlap, fail or expire in between.
\* (CreateSessionEnforcingCap: the advisory lock, the count and the revocations.)
AtMostCap ==
    Cap > 0 => \A u \in Users : Cardinality(Live(u, expired)) <= Cap

\* When the revocation of a password reset has committed, no session that was live when
\* the reset was redeemed is live, although mints and switches change and lock the same
\* rows and may abort meanwhile.
\* (redeemPasswordReset, RevokeUserSessions: SELECT FOR UPDATE, then UPDATE.)
ResetRevokesAll ==
    \A r \in Reqs : req[r].op = "reset" /\ req[r].pc = "evict" =>
        \A s \in req[r].old : ~IsLive(rows[s], s, expired)

\* A revoked session is refused for good at some point, although copies of it may have
\* been left in caches: they run out, and nobody makes new ones.
\* (ValidateSession: Live after both reads; Put: the bounded time to live.)
RevokedEndsRefused ==
    \A s \in Ids :
        rows[s] = "revoked" ~> [](\A r \in Reqs : ~(req[r].pc = "accepted" /\ req[r].s = s))

\* "If the cache delete fails, the next ValidateSession call falls through to PG and Live()
\* rejects the already-revoked row": a cached copy that passes Live has a row that is not
\* revoked, or the revocation is about to delete the copy.
\* (RevokeSession; it does not hold: the copy's revoked_at is that of the time of the Put.)
StaleCopyEvicted ==
    \A c \in Caches, s \in Ids :
        rows[s] = "revoked" /\ IsLive(cache[c][s], s, expired) =>
            \E r \in Reqs : req[r].cache = c /\ req[r].pc = "evict" /\ s \in req[r].ids
=============================================================================
