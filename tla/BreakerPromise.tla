--------------------------- MODULE BreakerPromise ---------------------------
(***************************************************************************)
(* What a circuit breaker promises its callers, without the locks: it      *)
(* opens only after MaxFailures failures with no success in between (or    *)
(* one while half-open), it half-opens only when no call has failed for    *)
(* ResetTimeout, it closes only after SuccessThreshold successes with no   *)
(* failure in between, and no call is let in while it is open.             *)
(***************************************************************************)
EXTENDS Naturals

CONSTANTS Callers, MaxFailures, SuccessThreshold

VARIABLES
    mode,      \* "closed", "open" or "halfopen"
    fails,     \* failures since the last success, up to MaxFailures
    good,      \* successes since it half-opened
    rested,    \* ResetTimeout has passed since the last failure
    inside     \* the callers whose call was let in and has not returned

vars == <<mode, fails, good, rested, inside>>

Init == mode = "closed" /\ fails = 0 /\ good = 0 /\ rested = FALSE /\ inside = {}

LetIn(g) ==
    /\ mode # "open" /\ g \notin inside
    /\ inside' = inside \cup {g}
    /\ UNCHANGED <<mode, fails, good, rested>>

HalfOpen ==
    /\ mode = "open" /\ rested
    /\ mode' = "halfopen" /\ good' = 0
    /\ UNCHANGED <<fails, rested, inside>>

Success(g) ==
    /\ g \in inside /\ inside' = inside \ {g}
    /\ fails' = 0
    /\ \/ mode # "halfopen" /\ UNCHANGED <<mode, good>>
       \/ mode = "halfopen" /\ good + 1 < SuccessThreshold /\ good' = good + 1 /\ UNCHANGED mode
       \/ mode = "halfopen" /\ good + 1 = SuccessThreshold /\ good' = 0 /\ mode' = "closed"
    /\ UNCHANGED rested

Failure(g) ==
    /\ g \in inside /\ inside' = inside \ {g}
    /\ rested' = FALSE /\ good' = 0
    /\ \/ fails < MaxFailures /\ fails' = fails + 1
       \/ fails = MaxFailures /\ UNCHANGED fails
    /\ \/ mode = "closed" /\ fails' < MaxFailures /\ UNCHANGED mode
       \/ mode = "closed" /\ fails' = MaxFailures /\ mode' = "open"
       \/ mode # "closed" /\ mode' = "open"

Rest == ~rested /\ rested' = TRUE /\ UNCHANGED <<mode, fails, good, inside>>

Next == HalfOpen \/ Rest \/ \E g \in Callers : LetIn(g) \/ Success(g) \/ Failure(g)

Spec == Init /\ [][Next]_vars
=============================================================================
