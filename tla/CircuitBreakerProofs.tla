------------------------ MODULE CircuitBreakerProofs ------------------------
(***************************************************************************)
(* The circuit breaker is race free, its counters fit its state, and it    *)
(* keeps the promise of BreakerPromise, for any number of goroutines and   *)
(* any thresholds.                                                         *)
(***************************************************************************)
EXTENDS CircuitBreaker, TLAPS

\* A breaker that a sequence of calls can have produced: a closed one has counted fewer
\* than MaxFailures failures, and successes are counted in half-open only.
Fits(c) == /\ c \in BreakerType
           /\ c.state = "closed" => c.failures < MaxFailures
           /\ c.state # "halfopen" => c.successes = 0
           /\ c.successes < SuccessThreshold

\* Probing a breaker keeps its counters fit.
LEMMA ProbedFits == ASSUME NEW c, Fits(c) PROVE Fits(Probed(c))
BY BreakerAssumption DEF BreakerAssumption, Fits, Probed, BreakerType, BreakerStates

\* Recording a success keeps its counters fit.
LEMMA SucceededFits == ASSUME NEW c, Fits(c) PROVE Fits(Succeeded(c))
<1> DEFINE n      == c.successes + 1
           closes == c.state = "halfopen" /\ n >= SuccessThreshold
           s      == Succeeded(c)
<1> USE BreakerAssumption DEF BreakerAssumption
<1>1. /\ c.state \in BreakerStates /\ c.failures \in 0..MaxFailures
      /\ c.successes \in 0..SuccessThreshold /\ c.successes < SuccessThreshold
      /\ c.cooled \in BOOLEAN
  BY DEF Fits, BreakerType
<1>2. s = [c EXCEPT !.failures  = 0,
                    !.state     = IF closes THEN "closed" ELSE c.state,
                    !.successes = IF closes THEN 0
                                  ELSE IF c.state = "halfopen" THEN n ELSE c.successes]
  BY DEF Succeeded
<1>3. /\ s = [state |-> s.state, failures |-> s.failures, successes |-> s.successes,
              cooled |-> s.cooled]
      /\ s.failures = 0 /\ s.cooled = c.cooled
      /\ s.state = IF closes THEN "closed" ELSE c.state
      /\ s.successes = IF closes THEN 0
                       ELSE IF c.state = "halfopen" THEN n ELSE c.successes
  BY <1>2 DEF Fits, BreakerType
<1>4. /\ s.state \in BreakerStates /\ s.failures \in 0..MaxFailures
      /\ s.successes \in 0..SuccessThreshold /\ s.successes < SuccessThreshold
      /\ s.cooled \in BOOLEAN
  BY <1>1, <1>3 DEF BreakerStates
<1>5. s \in BreakerType BY <1>3, <1>4 DEF BreakerType
<1>6. s.state # "halfopen" => s.successes = 0 BY <1>3 DEF Fits
<1> QED BY <1>3, <1>4, <1>5, <1>6 DEF Fits

\* Recording a failure keeps its counters fit.
LEMMA FailedFits == ASSUME NEW c, Fits(c) PROVE Fits(Failed(c))
<1> DEFINE n     == IF c.failures < MaxFailures THEN c.failures + 1 ELSE MaxFailures
           trips == c.state = "halfopen" \/ (c.state = "closed" /\ n >= MaxFailures)
           f     == Failed(c)
<1> USE BreakerAssumption DEF BreakerAssumption
<1>1. c.state \in BreakerStates /\ c.failures \in 0..MaxFailures
  BY DEF Fits, BreakerType
<1>2. f = [c EXCEPT !.failures  = n,
                    !.successes = 0,
                    !.cooled    = FALSE,
                    !.state     = IF trips THEN "open" ELSE c.state]
  BY DEF Failed
<1>3. /\ f = [state |-> f.state, failures |-> f.failures, successes |-> f.successes,
              cooled |-> f.cooled]
      /\ f.failures = n /\ f.successes = 0 /\ f.cooled = FALSE
      /\ f.state = IF trips THEN "open" ELSE c.state
  BY <1>2 DEF Fits, BreakerType
<1>4. /\ f.state \in BreakerStates /\ f.failures \in 0..MaxFailures
      /\ f.successes \in 0..SuccessThreshold /\ f.successes < SuccessThreshold
      /\ f.cooled \in BOOLEAN
  <2>1. n \in 0..MaxFailures BY <1>1
  <2>2. f.state \in BreakerStates BY <1>1, <1>3 DEF BreakerStates
  <2>3. f.cooled \in BOOLEAN BY <1>3
  <2> HIDE DEF n
  <2> QED BY <1>3, <2>1, <2>2, <2>3
<1>5. f \in BreakerType BY <1>3, <1>4 DEF BreakerType
<1>6. f.state = "closed" => f.failures < MaxFailures BY <1>1, <1>3 DEF BreakerStates
<1> QED BY <1>3, <1>4, <1>5, <1>6 DEF Fits

\* The passing of time keeps its counters fit.
LEMMA CooledFits == ASSUME NEW c, Fits(c) PROVE Fits(Cooled(c))
BY BreakerAssumption DEF BreakerAssumption, Fits, Cooled, BreakerType, BreakerStates

\* A breaker is created fit.
LEMMA NewFits == Fits(NewBreaker)
BY BreakerAssumption DEF BreakerAssumption, Fits, NewBreaker, BreakerType, BreakerStates

------------------------------------------------------------------------------

Readers == {"check", "upgrade", "recheck", "allowed", "denied"}
Writers == {"probe", "probed", "record", "recorded"}

\* Who holds which lock can be told from where the goroutines are.
Locks == /\ readers = {g \in Callers : pc[g] \in Readers}
         /\ \A g \in Callers : pc[g] \in Writers <=> writer = g
         /\ writer # Nobody => readers = {}

IInv == TypeOK /\ Locks /\ CountersFit

\* The typing and the counters of the state variable b are Fits(b).
LEMMA FitsIsInv == (b \in BreakerType /\ CountersFit) <=> Fits(b)
BY DEF Fits, CountersFit

\* A breaker just made, with no call in progress, satisfies the inductive invariant.
LEMMA InitInv == Init => IInv
<1> SUFFICES ASSUME Init PROVE IInv OBVIOUS
<1>1. b \in BreakerType /\ CountersFit BY NewFits DEF Init, Fits, CountersFit
<1>2. TypeOK BY <1>1 DEF Init, TypeOK, PCs
<1>3. Locks BY NobodyAssumption DEF NobodyAssumption, Init, Locks, Readers, Writers
<1> QED BY <1>1, <1>2, <1>3 DEF IInv

\* Every step keeps the lock bookkeeping.
LEMMA StepLocks ==
    ASSUME TypeOK, Locks, NEW g \in Callers, Step(g)
    PROVE  /\ pc' \in [Callers -> PCs] /\ readers' \subseteq Callers
           /\ writer' \in Callers \cup {Nobody}
           /\ Locks'
<1> USE NobodyAssumption DEF NobodyAssumption, TypeOK, Locks, Readers, Writers, PCs, Goto
<1>1. CASE Call(g) BY <1>1 DEF Call, RLock
<1>2. CASE Check(g) BY <1>2 DEF Check
<1>3. CASE Upgrade(g) BY <1>3 DEF Upgrade, RUnlock
<1>4. CASE LockToProbe(g) BY <1>4 DEF LockToProbe, Lock
<1>5. CASE Probe(g) BY <1>5 DEF Probe
<1>6. CASE UnlockProbed(g) BY <1>6 DEF UnlockProbed, Unlock
<1>7. CASE LockAgain(g) BY <1>7 DEF LockAgain, RLock
<1>8. CASE Recheck(g) BY <1>8 DEF Recheck
<1>9. CASE Decide(g) BY <1>9 DEF Decide, RUnlock
<1>10. CASE FnReturns(g) BY <1>10 DEF FnReturns, Lock
<1>11. CASE Record(g) BY <1>11 DEF Record
<1>12. CASE Finish(g) BY <1>12 DEF Finish, Unlock
<1> QED BY <1>1, <1>2, <1>3, <1>4, <1>5, <1>6, <1>7, <1>8, <1>9, <1>10, <1>11, <1>12
        DEF Step

\* Every step keeps the breaker fit.
LEMMA NextFits == ASSUME Fits(b), [Next]_vars PROVE Fits(b)'
<1>1. CASE TimePasses BY <1>1, CooledFits DEF TimePasses, Fits
<1>2. ASSUME NEW g \in Callers, Step(g) PROVE Fits(b)'
  <2>1. CASE Probe(g) BY <2>1, ProbedFits DEF Probe, Fits
  <2>2. CASE Record(g)
    <3>1. CASE b' = Succeeded(b) BY <3>1, SucceededFits DEF Fits
    <3>2. CASE b' = Failed(b) BY <3>2, FailedFits DEF Fits
    <3> QED BY <2>2, <3>1, <3>2 DEF Record
  <2>3. CASE UNCHANGED b BY <2>3 DEF Fits
  <2> QED BY <1>2, <2>1, <2>2, <2>3
          DEF Step, Call, Check, Upgrade, LockToProbe, UnlockProbed, LockAgain, Recheck,
              Decide, FnReturns, Finish
<1>3. CASE UNCHANGED vars BY <1>3 DEF vars, Fits
<1> QED BY <1>1, <1>2, <1>3 DEF Next

\* Every step of a goroutine, and the passing of time, keeps it.
LEMMA NextInv == IInv /\ [Next]_vars => IInv'
<1> SUFFICES ASSUME IInv, [Next]_vars PROVE IInv' OBVIOUS
<1>1. Fits(b)' BY NextFits, FitsIsInv DEF IInv, TypeOK
<1>2. (b \in BreakerType /\ CountersFit)' BY <1>1 DEF Fits, CountersFit
<1>3. /\ (pc \in [Callers -> PCs] /\ readers \subseteq Callers
            /\ writer \in Callers \cup {Nobody})'
      /\ Locks'
  <2>1. CASE TimePasses BY <2>1 DEF IInv, TypeOK, Locks, TimePasses
  <2>2. CASE UNCHANGED vars BY <2>2 DEF IInv, TypeOK, Locks, vars
  <2>3. ASSUME NEW g \in Callers, Step(g)
        PROVE  /\ (pc \in [Callers -> PCs] /\ readers \subseteq Callers
                     /\ writer \in Callers \cup {Nobody})'
               /\ Locks'
    BY <2>3, StepLocks DEF IInv
  <2> QED BY <2>1, <2>2, <2>3 DEF Next
<1> QED BY <1>2, <1>3 DEF IInv, TypeOK

\* So it always holds.
LEMMA Invariance == Spec => []IInv
BY InitInv, NextInv, PTL DEF Spec

\* Type correctness.
THEOREM TypeCorrect == Spec => []TypeOK
BY Invariance, PTL DEF IInv

\* Two goroutines are never in the fields at once unless both only read: whoever writes
\* holds the write lock, which excludes the readers.
THEOREM RaceFreedom == Spec => []RaceFree
<1>1. IInv => RaceFree
  BY NobodyAssumption DEF NobodyAssumption, IInv, TypeOK, Locks, Readers, Writers, RaceFree, Reading, Writing
<1> QED BY <1>1, Invariance, PTL

\* A closed breaker has counted fewer than MaxFailures failures; successes are counted
\* only while half-open, and never up to the threshold.
THEOREM CountersAlwaysFit == Spec => []CountersFit
BY Invariance, PTL DEF IInv

\* A breaker just made is one the abstract specification starts from.
LEMMA InitPromise == Init => Promise!Init
BY DEF Init, Promise!Init, NewBreaker

\* Recording a result is a Success or a Failure of the promise.
LEMMA RecordPromise ==
    ASSUME IInv, NEW g \in Callers, Record(g)
    PROVE  Promise!Success(g) \/ Promise!Failure(g)
<1> DEFINE in == {h \in Callers : pc[h] \in {"allowed", "running", "record"}}
<1>1. g \in in /\ in' = in \ {g} BY DEF Record, Goto, IInv, TypeOK
<1>2. Fits(b) BY FitsIsInv DEF IInv, TypeOK
<1>3. CASE b' = Succeeded(b)
  BY <1>1, <1>2, <1>3, BreakerAssumption
  DEF BreakerAssumption, Promise!Success, Succeeded, Fits, BreakerType, BreakerStates
<1>4. CASE b' = Failed(b)
  BY <1>1, <1>2, <1>4, BreakerAssumption
  DEF BreakerAssumption, Promise!Failure, Failed, Fits, BreakerType, BreakerStates
<1> QED BY <1>3, <1>4 DEF Record

\* The step to half-open, or nothing.
LEMMA ProbePromise ==
    ASSUME IInv, NEW g \in Callers, Probe(g) PROVE [Promise!Next]_(Promise!vars)
<1> DEFINE in == {h \in Callers : pc[h] \in {"allowed", "running", "record"}}
<1>1. in' = in BY DEF Probe, Goto, IInv, TypeOK
<1>2. b \in BreakerType BY DEF IInv, TypeOK
<1>3. CASE b.state = "open" /\ b.cooled
  <2>1. Promise!HalfOpen
    BY <1>1, <1>2, <1>3 DEF Probe, Probed, Promise!HalfOpen, BreakerType
  <2> QED BY <2>1 DEF Promise!Next
<1>4. CASE ~(b.state = "open" /\ b.cooled)
  BY <1>1, <1>4 DEF Probe, Probed, Promise!vars
<1> QED BY <1>3, <1>4

\* A call that is let in finds the breaker not open; any other step changes nothing the
\* promise speaks of.
LEMMA OtherPromise ==
    ASSUME IInv, NEW g \in Callers, Step(g), ~Record(g), ~Probe(g)
    PROVE  [Promise!Next]_(Promise!vars)
<1> DEFINE in == {h \in Callers : pc[h] \in {"allowed", "running", "record"}}
<1> USE DEF IInv, TypeOK
<1>1. UNCHANGED b
  BY DEF Step, Call, Check, Upgrade, LockToProbe, UnlockProbed, LockAgain, Recheck,
         Decide, FnReturns, Finish
<1>2. CASE in' = in BY <1>1, <1>2 DEF Promise!vars
<1>3. CASE (Check(g) \/ Recheck(g)) /\ pc'[g] = "allowed"
  <2>1. b.state # "open" /\ g \notin in /\ in' = in \cup {g}
    BY <1>3 DEF Check, Recheck, Goto
  <2>2. Promise!LetIn(g) BY <1>1, <2>1 DEF Promise!LetIn
  <2> QED BY <2>2 DEF Promise!Next
<1>4. CASE ~((Check(g) \/ Recheck(g)) /\ pc'[g] = "allowed")
  <2>1. in' = in
    BY <1>4 DEF Step, Call, Check, Upgrade, LockToProbe, UnlockProbed, LockAgain, Recheck,
                Decide, FnReturns, Finish, Goto
  <2> QED BY <1>2, <2>1
<1> QED BY <1>3, <1>4

\* Every lock-level step is a step of the abstract breaker or leaves it as it is.
LEMMA NextPromise == IInv /\ [Next]_vars => [Promise!Next]_(Promise!vars)
<1> SUFFICES ASSUME IInv, [Next]_vars PROVE [Promise!Next]_(Promise!vars) OBVIOUS
<1>1. CASE TimePasses
  <2>1. Promise!Rest
    BY <1>1 DEF TimePasses, Cooled, Promise!Rest, IInv, TypeOK, BreakerType
  <2> QED BY <2>1 DEF Promise!Next
<1>2. CASE UNCHANGED vars BY <1>2 DEF vars, Promise!vars
<1>3. ASSUME NEW g \in Callers, Step(g) PROVE [Promise!Next]_(Promise!vars)
  <2>1. CASE Record(g) BY <2>1, RecordPromise DEF Promise!Next
  <2>2. CASE Probe(g) BY <2>2, ProbePromise
  <2> QED BY <1>3, <2>1, <2>2, OtherPromise
<1> QED BY <1>1, <1>2, <1>3 DEF Next

\* The breaker keeps its promise: with the locks taken and released as in the code, every
\* step is one of BreakerPromise or invisible to it.
THEOREM Refinement == Spec => PromiseKept
<1>1. Init => Promise!Init BY InitPromise
<1>2. IInv /\ [Next]_vars => [Promise!Next]_(Promise!vars) BY NextPromise
<1> QED BY <1>1, <1>2, Invariance, PTL DEF Spec, PromiseKept, Promise!Spec
=============================================================================
