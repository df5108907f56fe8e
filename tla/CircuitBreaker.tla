--------------------------- MODULE CircuitBreaker ---------------------------
(***************************************************************************)
(* shared/circuitbreaker: goroutines calling Execute on one CircuitBreaker *)
(* whose state a sync.RWMutex protects.  canExecute cannot upgrade its     *)
(* read lock, so it releases it, takes the write lock, checks again,       *)
(* releases that, takes the read lock again and reads the state a third    *)
(* time; other goroutines run in between.                                  *)
(***************************************************************************)
EXTENDS Breaker

CONSTANTS Callers,   \* goroutines
          Nobody     \* holds the write lock when no goroutine does

ASSUME NobodyAssumption == Nobody \notin Callers

VARIABLES
    b,        \* the fields state, failures, successes and lastFailTime
    pc,       \* where each goroutine is in Execute
    readers,  \* goroutines holding the read lock (Go keeps their number)
    writer    \* the goroutine holding the write lock

vars == <<b, pc, readers, writer>>

PCs == {"idle",
        "check", "upgrade", "wait", "probe", "probed", "return", "recheck",
        "allowed", "denied",
        "running", "record", "recorded"}

Init == /\ b = NewBreaker
        /\ pc = [g \in Callers |-> "idle"]
        /\ readers = {}
        /\ writer = Nobody
------------------------------------------------------------------------------
(* sync.RWMutex *)

Goto(g, from, to) == pc[g] = from /\ pc' = [pc EXCEPT ![g] = to]

RLock(g)   == writer = Nobody /\ readers' = readers \cup {g} /\ UNCHANGED writer
RUnlock(g) == g \in readers /\ readers' = readers \ {g} /\ UNCHANGED writer
Lock(g)    == writer = Nobody /\ readers = {} /\ writer' = g /\ UNCHANGED readers
Unlock(g)  == writer = g /\ writer' = Nobody /\ UNCHANGED readers
------------------------------------------------------------------------------
(* canExecute *)

Call(g) == Goto(g, "idle", "check") /\ RLock(g) /\ UNCHANGED b

Check(g) ==
    /\ \/ b.state # "open" /\ Goto(g, "check", "allowed")
       \/ b.state = "open" /\ ~b.cooled /\ Goto(g, "check", "denied")
       \/ b.state = "open" /\ b.cooled /\ Goto(g, "check", "upgrade")
    /\ UNCHANGED <<b, readers, writer>>

\* Mutant: the write lock is not taken.
UpgradeInPlace(g) == Goto(g, "upgrade", "probe") /\ RUnlock(g) /\ UNCHANGED b

Upgrade(g) == Goto(g, "upgrade", "wait") /\ RUnlock(g) /\ UNCHANGED b

LockToProbe(g) == Goto(g, "wait", "probe") /\ Lock(g) /\ UNCHANGED b

\* Mutant: the double check compares with the wrong state.
ProbeHalfOpen(g) ==
    /\ Goto(g, "probe", "probed")
    /\ b' = IF b.state = "halfopen" THEN Probed(b) ELSE b
    /\ UNCHANGED <<readers, writer>>

\* The double check and the step to half-open.
Probe(g) == Goto(g, "probe", "probed") /\ b' = Probed(b) /\ UNCHANGED <<readers, writer>>

UnlockProbed(g) == Goto(g, "probed", "return") /\ Unlock(g) /\ UNCHANGED b

LockAgain(g) == Goto(g, "return", "recheck") /\ RLock(g) /\ UNCHANGED b

\* Only a half-open breaker lets the call in here: one that another goroutine has
\* closed in the meantime does not.
Recheck(g) ==
    /\ \/ b.state = "halfopen" /\ Goto(g, "recheck", "allowed")
       \/ b.state # "halfopen" /\ Goto(g, "recheck", "denied")
    /\ UNCHANGED <<b, readers, writer>>

\* The deferred RUnlock.
Decide(g) ==
    /\ Goto(g, "allowed", "running") \/ Goto(g, "denied", "idle")
    /\ RUnlock(g) /\ UNCHANGED b
------------------------------------------------------------------------------
(* fn and recordResult *)

FnReturns(g) == Goto(g, "running", "record") /\ Lock(g) /\ UNCHANGED b

Record(g) ==
    /\ Goto(g, "record", "recorded")
    /\ b' = Succeeded(b) \/ b' = Failed(b)
    /\ UNCHANGED <<readers, writer>>

Finish(g) == Goto(g, "recorded", "idle") /\ Unlock(g) /\ UNCHANGED b

\* ResetTimeout passes without a failure.
TimePasses == ~b.cooled /\ b' = Cooled(b) /\ UNCHANGED <<pc, readers, writer>>

Step(g) == \/ Call(g) \/ Check(g) \/ Upgrade(g) \/ LockToProbe(g) \/ Probe(g)
           \/ UnlockProbed(g) \/ LockAgain(g) \/ Recheck(g) \/ Decide(g)
           \/ FnReturns(g) \/ Record(g) \/ Finish(g)

Next == TimePasses \/ \E g \in Callers : Step(g)

Spec == Init /\ [][Next]_vars

\* The worker keeps calling Execute and every scan ends; sync.RWMutex lets nobody wait
\* for a lock forever (a waiting writer holds off new readers).
Fairness ==
    /\ WF_vars(TimePasses)
    /\ \A g \in Callers :
          /\ WF_vars(Step(g))
          /\ SF_vars(Call(g) \/ LockToProbe(g) \/ LockAgain(g) \/ FnReturns(g))

FairSpec == Spec /\ Fairness
------------------------------------------------------------------------------
(* Properties *)

TypeOK == /\ b \in BreakerType
          /\ pc \in [Callers -> PCs]
          /\ readers \subseteq Callers
          /\ writer \in Callers \cup {Nobody}

Reading(g) == pc[g] \in {"check", "recheck"}
Writing(g) == pc[g] \in {"probe", "record"}

\* No goroutine writes the fields while another one reads or writes them.
RaceFree == \A g, h \in Callers : (g # h /\ Writing(g)) => ~(Reading(h) \/ Writing(h))

\* A closed breaker has counted fewer than MaxFailures failures, and successes are
\* counted in half-open only: what a late result leaves behind never lets the breaker
\* open early or close early later on.
CountersFit ==
    /\ b.state = "closed" => b.failures < MaxFailures
    /\ b.state # "halfopen" => b.successes = 0
    /\ b.successes < SuccessThreshold

\* The breaker keeps its promise (BreakerPromise): a call is inside from the check that
\* let it in until its result is recorded.
Promise == INSTANCE BreakerPromise WITH
    mode   <- b.state,
    fails  <- b.failures,
    good   <- b.successes,
    rested <- b.cooled,
    inside <- {g \in Callers : pc[g] \in {"allowed", "running", "record"}}

PromiseKept == Promise!Spec

\* As long as calls come in, an open breaker gives the scans another try.
OpenIsTriedAgain == b.state = "open" ~> b.state # "open"
=============================================================================
