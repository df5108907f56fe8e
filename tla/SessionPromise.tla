----------------------------- MODULE SessionPromise -----------------------------
(***************************************************************************)
(* What the sessions promise, without tables, locks, caches or statements: *)
(* a session is live once, from one moment to another, for one user, and   *)
(* never again; a user has no more live ones than the cap; a new one ends  *)
(* none but the oldest of that user, and only if there is a cap; any other *)
(* request ends at most one; and a password reset ends at once all that    *)
(* were live when it was asked for, or it fails to and ends none of them,  *)
(* which its answer does not tell.                                         *)
(***************************************************************************)
EXTENDS Naturals, FiniteSets

CONSTANTS Users, Reqs, Ids, Cap

VARIABLES
    live,   \* the live sessions of each user
    spent,  \* the sessions that are over, or were given up before they were live
    reset,  \* of a request: "none", or a password reset: "asked" for, "done", or answered
            \* though the sessions are "kept"
    owed    \* the sessions that such a reset has still to end

vars == <<live, spent, reset, owed>>

Init ==
    /\ live = [u \in Users |-> {}]
    /\ spent = {}
    /\ reset = [r \in Reqs |-> "none"]
    /\ owed = [r \in Reqs |-> {}]

\* S, live sessions of u, are over, in whatever reset's debt they are.
Over(S) ==
    /\ spent' = spent \cup S
    /\ owed' = [r \in Reqs |-> owed[r] \ S]

Open(u, s) ==
    /\ s \notin spent /\ \A v \in Users : s \notin live[v]
    /\ \E old \in SUBSET live[u] :
         /\ \A t \in old, q \in live[u] \ old : t < q
         /\ Cap = 0 => old = {}
         /\ live' = [live EXCEPT ![u] = (@ \ old) \cup {s}]
         /\ Over(old)
    /\ Cap > 0 => Cardinality(live'[u]) <= Cap
    /\ UNCHANGED reset

GiveUp(s) ==
    /\ \A v \in Users : s \notin live[v]
    /\ spent' = spent \cup {s}
    /\ UNCHANGED <<live, reset, owed>>

Close(u, s) ==
    /\ s \in live[u]
    /\ live' = [live EXCEPT ![u] = @ \ {s}]
    /\ Over({s})
    /\ UNCHANGED reset

AskReset(r, u) ==
    /\ reset[r] = "none"
    /\ reset' = [reset EXCEPT ![r] = "asked"]
    /\ owed' = [owed EXCEPT ![r] = live[u]]
    /\ UNCHANGED <<live, spent>>

\* It may end some that were opened since, too.
DoReset(r, u) ==
    /\ reset[r] = "asked"
    /\ reset' = [reset EXCEPT ![r] = "done"]
    /\ \E S \in SUBSET live[u] :
         /\ owed[r] \subseteq S
         /\ live' = [live EXCEPT ![u] = @ \ S]
         /\ Over(S)

\* What it owes stays owed: those sessions go on.
KeepAll(r) ==
    /\ reset[r] = "asked"
    /\ reset' = [reset EXCEPT ![r] = "kept"]
    /\ UNCHANGED <<live, spent, owed>>

\* It has been answered, or its request has ended without an answer.
EndReset(r) ==
    /\ reset[r] # "none"
    /\ reset' = [reset EXCEPT ![r] = "none"]
    /\ owed' = [owed EXCEPT ![r] = {}]
    /\ UNCHANGED <<live, spent>>

Next ==
    \/ \E u \in Users, s \in Ids : Open(u, s) \/ Close(u, s)
    \/ \E s \in Ids : GiveUp(s)
    \/ \E r \in Reqs :
         \/ \E u \in Users : AskReset(r, u) \/ DoReset(r, u)
         \/ KeepAll(r) \/ EndReset(r)

Spec == Init /\ [][Next]_vars
=============================================================================
