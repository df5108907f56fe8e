------------------------------- MODULE Breaker -------------------------------
(***************************************************************************)
(* The state of one circuit breaker (shared/circuitbreaker) and what its   *)
(* two critical sections do to it, as functions on states.  The lock-level *)
(* behaviour is in CircuitBreaker, the use by the scan worker in           *)
(* ScanLifecycle.                                                          *)
(*                                                                         *)
(* Time is reduced to one bit: "cooled" says that more than ResetTimeout   *)
(* has passed since lastFailTime.                                          *)
(***************************************************************************)
EXTENDS Naturals

CONSTANTS MaxFailures,       \* failures in Closed that open the breaker
          SuccessThreshold   \* successes in HalfOpen that close it again

ASSUME BreakerAssumption ==
    /\ MaxFailures \in Nat \ {0}
    /\ SuccessThreshold \in Nat \ {0}

BreakerStates == {"closed", "open", "halfopen"}

\* "failures" is only ever compared with MaxFailures, so it saturates there.
BreakerType == [state     : BreakerStates,
                failures  : 0..MaxFailures,
                successes : 0..SuccessThreshold,
                cooled    : BOOLEAN]

NewBreaker == [state |-> "closed", failures |-> 0, successes |-> 0, cooled |-> FALSE]

\* Mutant: the cooling period is not checked.
ProbedAtOnce(b) ==
    IF b.state = "open" THEN [b EXCEPT !.state = "halfopen", !.successes = 0] ELSE b

\* canExecute under the write lock: an open breaker that has cooled half-opens.
Probed(b) == IF b.state = "open" /\ b.cooled
             THEN [b EXCEPT !.state = "halfopen", !.successes = 0]
             ELSE b

\* Whether the breaker, probed, lets the call through.
Admits(b) == Probed(b).state # "open"

\* Mutant: no success ever closes the breaker.
SucceededInVain(b) ==
    [b EXCEPT !.failures = 0, !.successes = IF b.state = "halfopen" THEN @ + 1 ELSE @]

\* recordResult(nil).
Succeeded(b) ==
    LET n      == b.successes + 1
        closes == b.state = "halfopen" /\ n >= SuccessThreshold
    IN  [b EXCEPT !.failures  = 0,
                  !.state     = IF closes THEN "closed" ELSE @,
                  !.successes = IF closes THEN 0
                                ELSE IF b.state = "halfopen" THEN n ELSE @]

\* recordResult(err).
Failed(b) ==
    LET n     == IF b.failures < MaxFailures THEN b.failures + 1 ELSE MaxFailures
        trips == b.state = "halfopen" \/ (b.state = "closed" /\ n >= MaxFailures)
    IN  [b EXCEPT !.failures  = n,
                  !.successes = 0,
                  !.cooled    = FALSE,
                  !.state     = IF trips THEN "open" ELSE @]

\* ResetTimeout elapses.
Cooled(b) == [b EXCEPT !.cooled = TRUE]
=============================================================================
