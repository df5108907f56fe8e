------------------------ MODULE ScanLifecycleProofs ------------------------
(***************************************************************************)
(* Proofs about ScanLifecycle for any number of accounts, requests and     *)
(* workers and any timeouts that satisfy its assumptions.                  *)
(***************************************************************************)
EXTENDS ScanLifecycle, TLAPS

\* The assumptions on the constants, in the form the proofs use them.
LEMMA Constants ==
    /\ MaxSkew \in Nat /\ ScanTimeout \in Nat /\ ClientTimeout \in Nat
    /\ StuckTimeout \in Nat /\ Interval \in Nat /\ MaxQueue \in Nat /\ MaxFaults \in Nat
    /\ ScanTimeout < StuckTimeout /\ StuckTimeout <= Interval /\ ClientTimeout <= Interval
    /\ MaxAge \in Nat /\ Interval < MaxAge /\ 0 \in Ages
    /\ AnAccount \in Accounts
BY TimeoutAssumption, SlotAssumption
DEF TimeoutAssumption, SlotAssumption, MaxAge, AnAccount, Ages

------------------------------------------------------------------------------
(* Rows *)

\* Growing older stays within the ages and never makes younger.
LEMMA OlderType ==
    ASSUME NEW age \in Ages PROVE Older(age) \in Ages /\ age <= Older(age)
BY Constants DEF Ages, Older

\* A row that is not there is a row.
LEMMA NoRowType ==
    ASSUME NEW st \in Statuses \cup {"absent", "deleted"} PROVE NoRow(st) \in Row
BY Constants DEF NoRow, Row, Ages

\* A row keeps its type under a change of status (ResetStuckScans).
LEMMA StatusType ==
    ASSUME NEW row \in Row, NEW st \in Statuses
    PROVE  [row EXCEPT !.status = st] \in Row
BY DEF Row

\* UpdateAccountStatus and SetAccountError leave a row.
LEMMA WithStatusType ==
    ASSUME NEW row \in Row, NEW st \in Statuses PROVE WithStatus(row, st) \in Row
<1>1. CASE Exists(row) BY <1>1, Constants DEF WithStatus, Row
<1>2. CASE ~Exists(row) BY <1>2 DEF WithStatus
<1> QED BY <1>1, <1>2

\* TryMarkAccountScanning leaves a row.
LEMMA MarkedType == ASSUME NEW row \in Row PROVE Marked(row) \in Row
BY WithStatusType DEF Marked, Statuses

\* What GetAccount returned is a row.
LEMMA SnapshotType == ASSUME NEW row \in Row PROVE Snapshot(row) \in Row
BY Constants DEF Snapshot, Row

\* SaveAccount leaves a row, whether it updates or inserts.
LEMMA SavedType ==
    ASSUME NEW row \in Row, NEW read \in Row, NEW created \in CreatedAges
    PROVE  Saved(row, read, created) \in Row
BY Constants DEF Saved, Row, CreatedAges

\* Every row a PATCH decides to save is a row.
LEMMA PatchedType == ASSUME NEW row \in Row PROVE Patched(row) \subseteq Row
<1> SUFFICES ASSUME NEW new \in Patched(row) PROVE new \in Row OBVIOUS
<1>1. CASE new = row BY <1>1
<1>2. CASE new = [row EXCEPT !.status = "pending_cur_delivery"] BY <1>2 DEF Row, Statuses
<1> QED BY <1>1, <1>2 DEF Patched

\* So is every row the role verification of a PATCH decides to save.
LEMMA VerifiedType == ASSUME NEW row \in Row PROVE Verified(row) \subseteq Row
BY DEF Verified, Row, Statuses

\* A row that grew older is a row.
LEMMA AgedRowType ==
    ASSUME NEW row \in Row PROVE [row EXCEPT !.age = Older(row.age)] \in Row
BY OlderType DEF Row

------------------------------------------------------------------------------
(* Scans and jobs *)

\* A free slot is typed.
LEMMA IdleScanType == IdleScan \in ScanType
BY Constants, NoRowType DEF IdleScan, ScanType, Ages, Statuses, Callers

\* So is a scan just started ...
LEMMA NewScanType ==
    ASSUME NEW a \in Accounts, NEW pc \in ScanPCs, NEW caller \in Callers
    PROVE  NewScan(a, pc, caller) \in ScanType
BY IdleScanType DEF NewScan, ScanType

\* ... a scan nobody waits for any more ...
LEMMA DetachedType == ASSUME NEW sc \in ScanType PROVE Detached(sc) \in ScanType
BY Constants DEF Detached, ScanType, Callers

\* ... a scan that moved on ...
LEMMA ScanPCType ==
    ASSUME NEW sc \in ScanType, NEW pc \in ScanPCs PROVE [sc EXCEPT !.pc = pc] \in ScanType
BY DEF ScanType

\* ... a scan whose runScan returned an error ...
LEMMA BrokenType ==
    ASSUME NEW sc \in ScanType
    PROVE  /\ Broken(sc) \in ScanType
           /\ Broken(sc).pc = "failed" /\ Broken(sc).acct = sc.acct
           /\ Broken(sc).caller = sc.caller /\ Broken(sc).age = sc.age
           /\ Broken(sc).stamped = sc.stamped
BY NoRowType DEF Broken, ScanType, ScanPCs, Statuses

\* ... and a scan that took more time.
LEMMA AgedScanType ==
    ASSUME NEW sc \in ScanType PROVE [sc EXCEPT !.age = Older(sc.age)] \in ScanType
BY OlderType DEF ScanType

\* finalizeAccountStatus writes one of two statuses, whatever status it was given.
LEMMA FinalStatusType ==
    ASSUME NEW st, NEW g PROVE FinalStatus(st, g) \in {"connected", "pending_cur_delivery"}
BY DEF FinalStatus

\* What the steps of runScan before its end do to the slots.
LEMMA RunSlot ==
    ASSUME TypeOK, NEW s \in Slots, ReadAccount(s) \/ PopulateAccountID(s) \/ IngestionCore(s)
    PROVE  /\ \A o \in Slots \ {s} : scan'[o] = scan[o]
           /\ scan[s].pc # "idle" /\ scan'[s].pc # "idle"
           /\ scan'[s].acct = scan[s].acct /\ scan'[s].caller = scan[s].caller
           /\ scan'[s].age = scan[s].age /\ scan'[s].stamped = scan[s].stamped
           /\ scan'[s].pc = "finalize" => scan'[s].status \in {"connected", "pending_cur_delivery"}
           /\ scan'[s].pc = "populate" => ReadAccount(s)
<1>1. PICK sc \in ScanType : sc = scan[s] BY DEF TypeOK
<1>2. scan \in [Slots -> ScanType] BY DEF TypeOK
<1>3. CASE ReadAccount(s)
  <2>1. CASE Exists(db[sc.acct])
    <3> DEFINE p  == IF db[sc.acct].known THEN "core" ELSE "populate"
               n  == IF db[sc.acct].known THEN sc.snap ELSE Snapshot(db[sc.acct])
               st == IF db[sc.acct].status = "pending_cur_delivery"
                     THEN db[sc.acct].status ELSE "connected"
    <3>1. scan' = [scan EXCEPT ![s] = [sc EXCEPT !.pc = p, !.snap = n, !.status = st]]
      BY <1>1, <1>3, <2>1 DEF ReadAccount
    <3>2. p \in {"core", "populate"} OBVIOUS
    <3> HIDE DEF p, n, st
    <3> QED BY <1>1, <1>2, <1>3, <3>1, <3>2 DEF ScanType, ReadAccount
  <2>2. CASE scan' = [scan EXCEPT ![s].pc = "failed"]
    BY <1>1, <1>2, <1>3, <2>2 DEF ScanType, ReadAccount
  <2> QED BY <1>1, <1>3, <2>1, <2>2 DEF ReadAccount
<1>4. CASE scan' = [scan EXCEPT ![s] = Broken(scan[s])]
  BY <1>1, <1>2, <1>4, BrokenType DEF PopulateAccountID, IngestionCore, ReadAccount
<1>5. CASE PopulateAccountID(s) /\ scan' # [scan EXCEPT ![s] = Broken(scan[s])]
  <2>1. scan' = [scan EXCEPT ![s] = [sc EXCEPT !.pc = "core", !.snap = NoRow("absent")]]
    BY <1>1, <1>5 DEF PopulateAccountID
  <2> QED BY <1>1, <1>2, <1>5, <2>1 DEF ScanType, PopulateAccountID
<1>6. CASE IngestionCore(s) /\ scan' # [scan EXCEPT ![s] = Broken(scan[s])]
  <2>1. PICK g \in BOOLEAN :
           scan' = [scan EXCEPT ![s].pc = "finalize", ![s].status = FinalStatus(@, g)]
    BY <1>6 DEF IngestionCore
  <2>2. FinalStatus(sc.status, g) \in {"connected", "pending_cur_delivery"} BY FinalStatusType
  <2>3. scan' = [scan EXCEPT ![s] = [sc EXCEPT !.pc = "finalize", !.status = FinalStatus(sc.status, g)]]
    BY <1>1, <2>1
  <2> QED BY <1>1, <1>2, <1>6, <2>2, <2>3 DEF ScanType, IngestionCore
<1> QED BY <1>3, <1>4, <1>5, <1>6

\* A job just enqueued is a job.
LEMMA JobIsJob == ASSUME NEW a \in Accounts PROVE Job(a) \in JobType
BY Constants DEF Job, JobType

\* A job that waited longer is a job.
LEMMA AgedJobType ==
    ASSUME NEW job \in JobType
    PROVE  [job EXCEPT !.age = IF job.age <= MaxSkew THEN job.age + 1 ELSE job.age] \in JobType
BY Constants DEF JobType

\* The free slots of scan requests and of PATCH requests are typed.
LEMMA IdleTypes == IdleTrig \in TrigType /\ IdleEdit \in EditType
BY Constants, NoRowType DEF IdleTrig, TrigType, IdleEdit, EditType

------------------------------------------------------------------------------
(* Typing *)

\* The critical sections of a breaker, and its cooling, keep its type.
LEMMA BreakerKept ==
    /\ NewBreaker \in BreakerType
    /\ \A c \in BreakerType : /\ Probed(c) \in BreakerType /\ Succeeded(c) \in BreakerType
                             /\ Failed(c) \in BreakerType /\ Cooled(c) \in BreakerType
<1>1. NewBreaker \in BreakerType
  BY BreakerAssumption DEF BreakerAssumption, NewBreaker, BreakerType, BreakerStates
<1>2. ASSUME NEW c \in BreakerType
      PROVE  /\ Probed(c) \in BreakerType /\ Succeeded(c) \in BreakerType
             /\ Failed(c) \in BreakerType /\ Cooled(c) \in BreakerType
  <2>1. MaxFailures \in Nat /\ SuccessThreshold \in Nat \ {0}
    BY BreakerAssumption DEF BreakerAssumption
  <2>2. c \in BreakerType BY <1>2
  <2>3. c.state \in BreakerStates /\ c.failures \in 0..MaxFailures
        /\ c.successes \in 0..SuccessThreshold
    BY <2>2 DEF BreakerType
  <2>4. Probed(c) \in BreakerType
    <3>1. "halfopen" \in BreakerStates /\ 0 \in 0..SuccessThreshold
      BY <2>1 DEF BreakerStates
    <3>2. [c EXCEPT !.state = "halfopen", !.successes = 0] \in BreakerType
      BY <2>2, <3>1 DEF BreakerType
    <3> QED BY <2>2, <3>2 DEF Probed
  <2>5. Succeeded(c) \in BreakerType
    <3> DEFINE n      == c.successes + 1
               closes == c.state = "halfopen" /\ n >= SuccessThreshold
               st     == IF closes THEN "closed" ELSE c.state
               su     == IF closes THEN 0 ELSE IF c.state = "halfopen" THEN n ELSE c.successes
    <3>1. Succeeded(c) = [c EXCEPT !.failures = 0, !.state = st, !.successes = su]
      BY DEF Succeeded
    <3>2. st \in BreakerStates /\ su \in 0..SuccessThreshold /\ 0 \in 0..MaxFailures
      BY <2>1, <2>3 DEF BreakerStates
    <3> HIDE DEF st, su
    <3>3. [c EXCEPT !.failures = 0, !.state = st, !.successes = su] \in BreakerType
      BY <2>2, <3>2 DEF BreakerType
    <3> QED BY <3>1, <3>3
  <2>6. Failed(c) \in BreakerType
    <3> DEFINE n     == IF c.failures < MaxFailures THEN c.failures + 1 ELSE MaxFailures
               trips == c.state = "halfopen" \/ (c.state = "closed" /\ n >= MaxFailures)
               st    == IF trips THEN "open" ELSE c.state
    <3>1. Failed(c) = [c EXCEPT !.failures = n, !.successes = 0, !.cooled = FALSE, !.state = st]
      BY DEF Failed
    <3>2. st \in BreakerStates /\ n \in 0..MaxFailures /\ 0 \in 0..SuccessThreshold
      BY <2>1, <2>3 DEF BreakerStates
    <3> HIDE DEF st, n
    <3>3. [c EXCEPT !.failures = n, !.successes = 0, !.cooled = FALSE, !.state = st]
             \in BreakerType
      BY <2>2, <3>2 DEF BreakerType
    <3> QED BY <3>1, <3>3
  <2>7. Cooled(c) \in BreakerType BY <2>2 DEF Cooled, BreakerType
  <2> QED BY <2>4, <2>5, <2>6, <2>7
<1> QED BY <1>1, <1>2

\* The initial state is typed.
LEMMA InitTyped == Init => TypeOK
BY Constants, NoRowType, IdleScanType, IdleTypes, BreakerKept
DEF Init, TypeOK, Statuses

\* Account creation, deletion and the reads of a request keep the types.
LEMMA AccountStepTyped == ASSUME TypeOK, AccountStep PROVE TypeOK'
<1> SUFFICES ASSUME NEW a \in Accounts,
                    \/ CreateAccount(a) \/ CreateDraftAccount(a) \/ DeleteAccount(a)
                    \/ \E e \in Editors : ReadForUpdate(e, a)
                    \/ \E t \in Triggers : ScanAccount(t, a)
             PROVE  TypeOK'
  BY DEF AccountStep
<1> USE DEF TypeOK
<1>0. /\ NoRow("connected") \in Row /\ NoRow("pending_cur_delivery") \in Row
      /\ [NoRow("pending_role_setup") EXCEPT !.role = TRUE] \in Row
  <2>1. NoRow("pending_role_setup") \in Row BY NoRowType DEF Statuses
  <2> QED BY <2>1, NoRowType DEF Row, Statuses
<1>1. CASE CreateAccount(a) BY <1>0, <1>1 DEF CreateAccount
<1>2. CASE CreateDraftAccount(a) BY <1>0, <1>2 DEF CreateDraftAccount
<1>3. CASE DeleteAccount(a) BY <1>3, NoRowType DEF DeleteAccount
<1>4. ASSUME NEW e \in Editors, ReadForUpdate(e, a) PROVE TypeOK'
  BY <1>4, SnapshotType DEF ReadForUpdate, EditType
<1>5. ASSUME NEW t \in Triggers, ScanAccount(t, a) PROVE TypeOK'
  BY <1>5 DEF ScanAccount, TrigType
<1> QED BY <1>1, <1>2, <1>3, <1>4, <1>5

\* So does the save of a PATCH, of whatever row it had read.
LEMMA EditStepTyped == ASSUME TypeOK, NEW e \in Editors, UpdateAccount(e) PROVE TypeOK'
<1> USE DEF TypeOK
<1>1. edit[e] \in EditType OBVIOUS
<1>2. edit[e].acct \in Accounts /\ edit[e].snap \in Row BY <1>1 DEF EditType
<1>3. Patched(edit[e].snap) \cup Verified(edit[e].snap) \subseteq Row
  BY <1>2, PatchedType, VerifiedType
<1>4. db' \in [Accounts -> Row]
  <2>1. CASE UNCHANGED db BY <2>1
  <2>2. ASSUME NEW new \in Patched(edit[e].snap) \cup Verified(edit[e].snap),
               NEW created \in CreatedAges,
               db' = [db EXCEPT ![edit[e].acct] = Saved(db[edit[e].acct], new, created)]
        PROVE  db' \in [Accounts -> Row]
    <3>1. Saved(db[edit[e].acct], new, created) \in Row BY <1>2, <1>3, SavedType
    <3> QED BY <2>2, <3>1
  <2> QED BY <2>1, <2>2 DEF UpdateAccount
<1> QED BY <1>4, IdleTypes DEF UpdateAccount

\* So do the steps of a scan request and of its goroutine.
LEMMA TriggerStepTyped == ASSUME TypeOK, NEW t \in Triggers, TriggerStep(t) PROVE TypeOK'
<1> USE DEF TypeOK
<1>1. trig[t] \in TrigType OBVIOUS
<1>2. trig[t].acct \in Accounts BY <1>1 DEF TrigType
<1>3. \A pc \in {"idle", "checked", "enqueue", "waiting", "failed"} :
         [trig[t] EXCEPT !.pc = pc] \in TrigType
  BY <1>1 DEF TrigType
<1>4. CASE MarkScanning(t) BY <1>2, <1>3, <1>4, MarkedType, IdleTypes DEF MarkScanning
<1>5. CASE MarkScanningLost(t)
  BY <1>2, <1>5, MarkedType, IdleTypes, Constants DEF MarkScanningLost, Fault
<1>6. CASE EnqueueJob(t) BY <1>2, <1>6, JobIsJob, IdleTypes DEF EnqueueJob
<1>7. CASE EnqueueFails(t)
  <2>1. queue' \in Seq(JobType)
    <3>1. Job(trig[t].acct) \in JobType BY <1>2, JobIsJob
    <3>2. CASE UNCHANGED queue BY <3>2
    <3>3. CASE queue' = Append(queue, Job(trig[t].acct)) BY <3>1, <3>3
    <3> QED BY <1>7, <3>2, <3>3 DEF EnqueueFails
  <2>2. trig' \in [Triggers -> TrigType] BY <1>3, <1>7 DEF EnqueueFails
  <2>3. faults' \in 0..MaxFaults BY <1>7, Constants DEF EnqueueFails, Fault
  <2> QED BY <1>7, <2>1, <2>2, <2>3 DEF EnqueueFails
<1>8. CASE MarkTriggerError(t)
  BY <1>2, <1>8, WithStatusType, IdleTypes, Constants DEF MarkTriggerError, Fault, Statuses
<1>9. ASSUME NEW r \in Requests, PostScan(t, r) PROVE TypeOK'
  BY <1>2, <1>3, <1>9, NewScanType DEF PostScan, ScanPCs, Callers, Slots
<1> QED BY <1>4, <1>5, <1>6, <1>7, <1>8, <1>9 DEF TriggerStep

\* So does the stuck-scan sweep.
LEMMA ResetTyped == ASSUME TypeOK, ResetStuckScans PROVE TypeOK'
BY StatusType DEF TypeOK, ResetStuckScans, Statuses

\* So does a crash of the API.
LEMMA ApiCrashTyped == ASSUME TypeOK, ApiCrash PROVE TypeOK'
BY DetachedType, IdleTypes, Constants DEF TypeOK, ApiCrash, Fault

\* So do the steps of the scheduler.
LEMMA SchedulerStepTyped == ASSUME TypeOK, SchedulerStep PROVE TypeOK'
<1> USE DEF TypeOK
<1>1. CASE ListScheduled BY <1>1 DEF ListScheduled
<1>2. ASSUME NEW a \in Accounts, ScheduleJob(a) PROVE TypeOK'
  BY <1>2, JobIsJob DEF ScheduleJob
<1>3. ASSUME NEW a \in Accounts, ScheduleFails(a) PROVE TypeOK'
  BY <1>3, Constants DEF ScheduleFails, Fault
<1>4. ASSUME NEW a \in Accounts, NEW r \in Requests, ScheduleRequest(a, r) PROVE TypeOK'
  BY <1>4, NewScanType DEF ScheduleRequest, ScanPCs, Callers, Slots
<1> QED BY <1>1, <1>2, <1>3, <1>4 DEF SchedulerStep

\* So does an HTTP client that gives up.
LEMMA ClientTimeoutsTyped == ASSUME TypeOK, ClientTimeouts PROVE TypeOK'
<1> SUFFICES ASSUME NEW r \in Requests, TriggerTimeout(r) \/ ScheduleTimeout(r) PROVE TypeOK'
  BY DEF ClientTimeouts
<1> USE DEF TypeOK
<1>1. r \in Slots BY DEF Slots
<1>2. \A t \in Triggers : [trig[t] EXCEPT !.pc = "failed"] \in TrigType BY DEF TrigType
<1>3. CASE TriggerTimeout(r) BY <1>1, <1>2, <1>3, DetachedType DEF TriggerTimeout
<1>4. CASE ScheduleTimeout(r) BY <1>1, <1>4, DetachedType DEF ScheduleTimeout
<1> QED BY <1>3, <1>4

\* So do the steps of a queue worker outside runScan.
LEMMA WorkerStepTyped ==
    ASSUME TypeOK, NEW w \in Workers,
           \/ Dequeue(w) \/ WorkerMark(w) \/ Gate(w) \/ WorkerFails(w)
           \/ BreakerCools(w) \/ WorkerTimeout(w)
    PROVE  TypeOK'
<1> USE DEF TypeOK
<1>1. w \in Slots /\ scan[w] \in ScanType BY DEF Slots
<1>2. scan[w].acct \in Accounts /\ scan[w].stamped \in BOOLEAN BY <1>1 DEF ScanType
<1>3. CASE Dequeue(w)
  <2>1. Head(queue) \in JobType /\ queue' \in Seq(JobType) BY <1>3 DEF Dequeue
  <2>2. Head(queue).acct \in Accounts BY <2>1 DEF JobType
  <2>3. NewScan(Head(queue).acct, "picked", NoCaller) \in ScanType
    BY <2>2, NewScanType DEF ScanPCs, Callers
  <2> QED BY <1>1, <1>3, <2>1, <2>3 DEF Dequeue
<1>4. CASE WorkerMark(w)
  <2>1. Markable(db[scan[w].acct]) \in BOOLEAN BY DEF Markable, Exists
  <2>2. \A m \in BOOLEAN : [scan[w] EXCEPT !.pc = "gate", !.stamped = m] \in ScanType
    BY <1>1 DEF ScanType, ScanPCs
  <2>3. [scan[w] EXCEPT !.pc = "gate"] \in ScanType BY <1>1 DEF ScanType, ScanPCs
  <2>4. scan' \in [Slots -> ScanType] BY <1>1, <1>4, <2>1, <2>2, <2>3 DEF WorkerMark
  <2>5. db' \in [Accounts -> Row] BY <1>2, <1>4, MarkedType DEF WorkerMark
  <2>6. faults' \in 0..MaxFaults BY <1>4, Constants DEF WorkerMark, Fault
  <2> QED BY <1>4, <2>4, <2>5, <2>6 DEF WorkerMark
<1>5. CASE Gate(w)
  <2>1. Probed(cb[w]) \in BreakerType BY BreakerKept
  <2>2. Admits(cb[w]) \in BOOLEAN BY DEF Admits
  <2>3. \A p \in {"read", "failed"}, r \in BOOLEAN :
           [scan[w] EXCEPT !.pc = p, !.ran = r] \in ScanType
    BY <1>1 DEF ScanType, ScanPCs
  <2>4. scan' \in [Slots -> ScanType] BY <1>1, <1>5, <2>2, <2>3 DEF Gate
  <2> QED BY <1>5, <2>1, <2>4 DEF Gate
<1>6. CASE WorkerFails(w)
  <2> DEFINE after == IF scan[w].ran THEN Failed(cb[w]) ELSE cb[w]
             st    == IF after.state = "open" THEN "circuit_breaker_open"
                      ELSE IF scan[w].age >= ScanTimeout THEN "scan_timeout" ELSE "error"
  <2>2. after \in BreakerType BY BreakerKept
  <2>3. st \in Statuses BY DEF Statuses
  <2>4. WithStatus(db[scan[w].acct], st) \in Row BY <1>2, <2>3, WithStatusType
  <2>5. \/ db' = [db EXCEPT ![scan[w].acct] = WithStatus(db[scan[w].acct], st)]
              /\ UNCHANGED faults
        \/ UNCHANGED db /\ Fault
    BY <1>6 DEF WorkerFails
  <2>6. cb' = [cb EXCEPT ![w] = after] /\ scan' = [scan EXCEPT ![w] = IdleScan]
    BY <1>6 DEF WorkerFails
  <2> HIDE DEF after, st
  <2>7. db' \in [Accounts -> Row] BY <1>2, <2>4, <2>5
  <2>8. faults' \in 0..MaxFaults BY <2>5, Constants DEF Fault
  <2>9. cb' \in [Workers -> BreakerType] BY <2>2, <2>6
  <2>10. scan' \in [Slots -> ScanType] BY <1>1, <2>6, IdleScanType
  <2> QED BY <1>6, <2>7, <2>8, <2>9, <2>10 DEF WorkerFails
<1>7. CASE BreakerCools(w)
  <2>1. Cooled(cb[w]) \in BreakerType BY BreakerKept
  <2> QED BY <1>7, <2>1 DEF BreakerCools
<1>8. CASE WorkerTimeout(w) BY <1>1, <1>8, BrokenType DEF WorkerTimeout
<1> QED BY <1>3, <1>4, <1>5, <1>6, <1>7, <1>8

\* What an answer does to the triggers.
LEMMA AnsweredType ==
    ASSUME TypeOK, NEW s \in Slots, NEW pc \in {"idle", "failed"}, Answered(s, pc)
    PROVE  trig' \in [Triggers -> TrigType]
<1>1. \A t \in Triggers : [trig[t] EXCEPT !.pc = pc] \in TrigType
  BY DEF TypeOK, TrigType
<1> QED BY <1>1, IdleTypes DEF Answered, TypeOK

\* So do the steps of runScan.
LEMMA RunStepTyped == ASSUME TypeOK, NEW s \in Slots, RunStep(s) PROVE TypeOK'
<1> USE DEF TypeOK
<1>1. scan[s] \in ScanType OBVIOUS
<1>2. /\ scan[s].acct \in Accounts /\ scan[s].snap \in Row /\ scan[s].status \in Statuses
      /\ db[scan[s].acct] \in Row
  BY <1>1 DEF ScanType
<1>3. NoRow("absent") \in Row BY NoRowType
<1>4. CASE ReadAccount(s)
  <2> DEFINE row == db[scan[s].acct]
  <2>1. Snapshot(row) \in Row BY <1>2, SnapshotType
  <2>2. Exists(row) => row.status \in Statuses BY DEF Exists
  <2>3. \A p \in {"core", "populate"}, n \in Row, st \in Statuses :
           [scan[s] EXCEPT !.pc = p, !.snap = n, !.status = st] \in ScanType
    BY <1>1 DEF ScanType, ScanPCs
  <2>4. CASE Exists(row)
    <3>1. scan' = [scan EXCEPT ![s] = [scan[s] EXCEPT
                     !.pc     = IF row.known THEN "core" ELSE "populate",
                     !.snap   = IF row.known THEN scan[s].snap ELSE Snapshot(row),
                     !.status = IF row.status = "pending_cur_delivery"
                                THEN row.status ELSE "connected"]]
      BY <1>4, <2>4 DEF ReadAccount
    <3>2. scan' \in [Slots -> ScanType] BY <1>2, <2>1, <2>2, <2>3, <2>4, <3>1 DEF Statuses
    <3> QED BY <1>4, <3>2 DEF ReadAccount
  <2>5. CASE ~Exists(row)
    <3>1. [scan[s] EXCEPT !.pc = "failed"] \in ScanType BY <1>1, ScanPCType DEF ScanPCs
    <3> QED BY <1>4, <2>5, <3>1 DEF ReadAccount
  <2> QED BY <2>4, <2>5
<1>5. CASE PopulateAccountID(s)
  <2>1. [scan[s].snap EXCEPT !.known = TRUE] \in Row BY <1>2 DEF Row
  <2>2. \A created \in CreatedAges :
           Saved(db[scan[s].acct], [scan[s].snap EXCEPT !.known = TRUE], created) \in Row
    BY <1>2, <2>1, SavedType
  <2>3. db' \in [Accounts -> Row]
    <3>1. CASE UNCHANGED db BY <3>1
    <3>2. ASSUME NEW created \in CreatedAges,
                 db' = [db EXCEPT ![scan[s].acct] =
                          Saved(db[scan[s].acct], [scan[s].snap EXCEPT !.known = TRUE], created)]
          PROVE  db' \in [Accounts -> Row]
      BY <2>2, <3>2
    <3> QED BY <1>5, <3>1, <3>2 DEF PopulateAccountID
  <2>4. [scan[s] EXCEPT !.pc = "core", !.snap = NoRow("absent")] \in ScanType
    BY <1>1, <1>3 DEF ScanType, ScanPCs
  <2>5. scan' \in [Slots -> ScanType] BY <1>1, <1>5, <2>4, BrokenType DEF PopulateAccountID
  <2> QED BY <1>5, <2>3, <2>5 DEF PopulateAccountID
<1>6. CASE IngestionCore(s)
  <2>1. \A st \in Statuses : [scan[s] EXCEPT !.pc = "finalize", !.status = st] \in ScanType
    BY <1>1 DEF ScanType, ScanPCs
  <2>2. scan' \in [Slots -> ScanType]
    <3>1. CASE scan' = [scan EXCEPT ![s] = Broken(scan[s])] BY <1>1, <3>1, BrokenType
    <3>2. ASSUME NEW g \in BOOLEAN,
                 scan' = [scan EXCEPT ![s] = [scan[s] EXCEPT
                            !.pc = "finalize", !.status = FinalStatus(scan[s].status, g)]]
          PROVE  scan' \in [Slots -> ScanType]
      <4>1. FinalStatus(scan[s].status, g) \in Statuses BY FinalStatusType DEF Statuses
      <4> QED BY <2>1, <3>2, <4>1
    <3> QED BY <1>6, <3>1, <3>2 DEF IngestionCore
  <2> QED BY <1>6, <2>2 DEF IngestionCore
<1>7. CASE Finalize(s)
  <2>1. WithStatus(db[scan[s].acct], scan[s].status) \in Row BY <1>2, WithStatusType
  <2>2. db' \in [Accounts -> Row] BY <1>2, <1>7, <2>1 DEF Finalize
  <2>3. \A w \in Workers : Succeeded(cb[w]) \in BreakerType BY BreakerKept
  <2>4. cb' \in [Workers -> BreakerType] BY <1>7, <2>3 DEF Finalize
  <2>5. trig' \in [Triggers -> TrigType] BY <1>7, AnsweredType DEF Finalize
  <2>6. faults' \in 0..MaxFaults BY <1>7, Constants DEF Finalize, Fault
  <2>7. scan' \in [Slots -> ScanType] BY <1>7, IdleScanType DEF Finalize
  <2> QED BY <1>7, <2>2, <2>4, <2>5, <2>6, <2>7 DEF Finalize
<1> QED BY <1>4, <1>5, <1>6, <1>7 DEF RunStep

\* So does the failure path of the POST /scan handler.
LEMMA RequestFailsTyped == ASSUME TypeOK, NEW r \in Requests, RequestFails(r) PROVE TypeOK'
<1> USE DEF TypeOK
<1>1. r \in Slots /\ scan[r] \in ScanType BY DEF Slots
<1>2. scan[r].acct \in Accounts BY <1>1 DEF ScanType
<1>3. WithStatus(db[scan[r].acct], "error") \in Row BY <1>2, WithStatusType DEF Statuses
<1>4. db' \in [Accounts -> Row] BY <1>2, <1>3 DEF RequestFails
<1>5. trig' \in [Triggers -> TrigType] BY <1>1, AnsweredType DEF RequestFails
<1>6. faults' \in 0..MaxFaults BY Constants DEF RequestFails, Fault
<1>7. scan' \in [Slots -> ScanType] BY IdleScanType DEF RequestFails
<1> QED BY <1>4, <1>5, <1>6, <1>7 DEF RequestFails

\* So does a crash of ingestion.
LEMMA IngestionCrashTyped == ASSUME TypeOK, IngestionCrash PROVE TypeOK'
<1> USE DEF TypeOK
<1>1. \A t \in Triggers : [trig[t] EXCEPT !.pc = "failed"] \in TrigType BY DEF TrigType
<1> QED BY <1>1, BreakerKept, IdleScanType, Constants DEF IngestionCrash, Fault

\* So does the passing of time.
LEMMA TickTyped == ASSUME TypeOK, Tick PROVE TypeOK'
<1> USE DEF TypeOK
<1>1. db' \in [Accounts -> Row] BY AgedRowType DEF Tick
<1>2. scan' \in [Slots -> ScanType] BY AgedScanType DEF Tick
<1>3. queue' \in Seq(JobType)
  <2> DEFINE aged(job) == [job EXCEPT !.age = IF job.age <= MaxSkew THEN job.age + 1 ELSE job.age]
  <2>1. queue' = [i \in 1..Len(queue) |-> aged(queue[i])] BY DEF Tick
  <2>2. \A i \in 1..Len(queue) : queue[i] \in JobType OBVIOUS
  <2>3. \A i \in 1..Len(queue) : aged(queue[i]) \in JobType BY <2>2, AgedJobType
  <2> HIDE DEF aged
  <2>4. queue' \in [1..Len(queue) -> JobType] BY <2>1, <2>3
  <2>5. Len(queue) \in Nat OBVIOUS
  <2> QED BY <2>4, <2>5
<1> QED BY <1>1, <1>2, <1>3 DEF Tick

\* So does every step.
LEMMA NextTyped == ASSUME TypeOK, [Next]_vars PROVE TypeOK'
<1>1. CASE UNCHANGED vars BY <1>1 DEF vars, TypeOK
<1>2. CASE EditStep BY <1>2, EditStepTyped DEF EditStep
<1>3. ASSUME NEW w \in Workers, WorkerStep(w) \/ BreakerCools(w) \/ WorkerTimeout(w)
      PROVE  TypeOK'
  BY <1>3, WorkerStepTyped, RunStepTyped DEF WorkerStep, Slots
<1>4. ASSUME NEW r \in Requests, RequestStep(r) PROVE TypeOK'
  BY <1>4, RequestFailsTyped, RunStepTyped DEF RequestStep, Slots
<1> QED BY <1>1, <1>2, <1>3, <1>4, AccountStepTyped, TriggerStepTyped, ResetTyped,
           ApiCrashTyped, SchedulerStepTyped, ClientTimeoutsTyped, IngestionCrashTyped,
           TickTyped
        DEF Next

\* So the types hold in every reachable state.
LEMMA TypedInvariant == Spec => []TypeOK
BY InitTyped, NextTyped, PTL DEF Spec

\* Type correctness.
THEOREM TypeCorrect == Spec => []TypeOK
BY TypedInvariant
------------------------------------------------------------------------------
(* The stuck-scan sweep and the scans of the workers *)

\* A write to a row either restamps it or keeps its last_scanned_at.
Keeps(old, new) == new.scanned => (new.age = 0 \/ (old.scanned /\ new.age = old.age))

\* A status write restamps the row ...
LEMMA WithStatusKeeps ==
    ASSUME NEW row \in Row, NEW st PROVE Keeps(row, WithStatus(row, st))
BY DEF Keeps, WithStatus, Row

\* ... as does the mark of TryMarkAccountScanning where it applies ...
LEMMA MarkedKeeps == ASSUME NEW row \in Row PROVE Keeps(row, Marked(row))
BY WithStatusKeeps DEF Marked, Keeps, Row

\* ... SaveAccount keeps the stamp, and inserts a row without one ...
LEMMA SavedKeeps ==
    ASSUME NEW row \in Row, NEW read \in Row, NEW created
    PROVE  Keeps(row, Saved(row, read, created))
BY DEF Keeps, Saved, Row

\* ... and a row deleted has none.
LEMMA NoRowKeeps == ASSUME NEW row, NEW st PROVE Keeps(row, NoRow(st))
BY DEF Keeps, NoRow

\* A row left alone keeps its stamp.
LEMMA SameKeeps == ASSUME NEW row \in Row PROVE Keeps(row, row)
BY DEF Keeps, Row

\* Only Tick lets a row grow older.
LEMMA RowsKept == ASSUME TypeOK, Next, ~Tick PROVE \A a \in Accounts : Keeps(db[a], db'[a])
<1> TAKE a \in Accounts
<1> USE DEF TypeOK
<1>1. db[a] \in Row OBVIOUS
<1>2. CASE UNCHANGED db BY <1>1, <1>2, SameKeeps
<1>3. CASE AccountStep
  <2> PICK b \in Accounts :
         \/ CreateAccount(b) \/ CreateDraftAccount(b) \/ DeleteAccount(b)
         \/ \E e \in Editors : ReadForUpdate(e, b)
         \/ \E t \in Triggers : ScanAccount(t, b)
    BY <1>3 DEF AccountStep
  <2>1. CASE CreateAccount(b) \/ CreateDraftAccount(b)
    <3>1. PICK new : ~new.scanned /\ db' = [db EXCEPT ![b] = new]
      BY <2>1 DEF CreateAccount, CreateDraftAccount, NoRow
    <3>2. CASE a = b BY <3>1, <3>2 DEF Keeps
    <3>3. CASE a # b BY <1>1, <3>1, <3>3, SameKeeps
    <3> QED BY <3>2, <3>3
  <2>2. CASE DeleteAccount(b) BY <1>1, <2>2, SameKeeps, NoRowKeeps DEF DeleteAccount
  <2>3. CASE UNCHANGED db BY <1>2, <2>3
  <2> QED BY <2>1, <2>2, <2>3 DEF ReadForUpdate, ScanAccount
<1>4. ASSUME NEW e \in Editors, UpdateAccount(e) PROVE Keeps(db[a], db'[a])
  <2>1. edit[e].snap \in Row BY DEF EditType
  <2>2. Patched(edit[e].snap) \cup Verified(edit[e].snap) \subseteq Row
    BY <2>1, PatchedType, VerifiedType
  <2> QED BY <1>1, <1>2, <1>4, <2>2, SavedKeeps, SameKeeps DEF UpdateAccount
<1>5. ASSUME NEW t \in Triggers, TriggerStep(t) PROVE Keeps(db[a], db'[a])
  BY <1>1, <1>5, SameKeeps, MarkedKeeps, WithStatusKeeps
  DEF TriggerStep, MarkScanning, MarkScanningLost, EnqueueJob, EnqueueFails,
      MarkTriggerError, PostScan
<1>6. CASE ResetStuckScans
  <2>1. Keeps(db[a], [db[a] EXCEPT !.status = "error"]) BY <1>1 DEF Keeps, Row
  <2> QED BY <1>1, <1>6, <2>1, SameKeeps DEF ResetStuckScans
<1>7. ASSUME NEW w \in Workers, WorkerMark(w) \/ WorkerFails(w) PROVE Keeps(db[a], db'[a])
  BY <1>1, <1>7, SameKeeps, MarkedKeeps, WithStatusKeeps DEF WorkerMark, WorkerFails
<1>8. ASSUME NEW s \in Slots, RunStep(s) PROVE Keeps(db[a], db'[a])
  <2>1. scan[s].snap \in Row BY DEF ScanType
  <2>2. [scan[s].snap EXCEPT !.known = TRUE] \in Row BY <2>1 DEF Row
  <2>3. CASE PopulateAccountID(s)
    <3>1. ASSUME NEW created \in CreatedAges,
                 db' = [db EXCEPT ![scan[s].acct] =
                          Saved(db[scan[s].acct], [scan[s].snap EXCEPT !.known = TRUE], created)]
          PROVE  Keeps(db[a], db'[a])
      <4>1. CASE a = scan[s].acct BY <1>1, <2>2, <3>1, <4>1, SavedKeeps
      <4>2. CASE a # scan[s].acct BY <1>1, <3>1, <4>2, SameKeeps
      <4> QED BY <4>1, <4>2
    <3> QED BY <1>2, <2>3, <3>1 DEF PopulateAccountID
  <2>4. CASE Finalize(s) BY <1>1, <2>4, SameKeeps, WithStatusKeeps DEF Finalize
  <2> QED BY <1>2, <1>8, <2>3, <2>4 DEF RunStep, ReadAccount, IngestionCore
<1>9. ASSUME NEW r \in Requests, RequestFails(r) PROVE Keeps(db[a], db'[a])
  BY <1>1, <1>9, SameKeeps, WithStatusKeeps DEF RequestFails
<1>10. CASE ApiCrash \/ IngestionCrash BY <1>2, <1>10 DEF ApiCrash, IngestionCrash
<1>11. CASE SchedulerStep \/ ClientTimeouts
  BY <1>2, <1>11 DEF SchedulerStep, ListScheduled, ScheduleJob, ScheduleFails,
                     ScheduleRequest, ClientTimeouts, TriggerTimeout, ScheduleTimeout
<1>12. ASSUME NEW w \in Workers,
              Dequeue(w) \/ Gate(w) \/ BreakerCools(w) \/ WorkerTimeout(w)
       PROVE  Keeps(db[a], db'[a])
  BY <1>2, <1>12 DEF Dequeue, Gate, BreakerCools, WorkerTimeout
<1> QED BY <1>3, <1>4, <1>5, <1>6, <1>7, <1>8, <1>9, <1>10, <1>11, <1>12
        DEF Next, EditStep, WorkerStep, RequestStep, Slots

\* Nobody waits for a worker, a worker's scan is within its deadline, and the row a scan
\* stamped has not grown older than the scan.
Fresh == \A w \in Workers :
    /\ scan[w].caller = NoCaller
    /\ Running(w) => scan[w].age <= ScanTimeout
    /\ (Running(w) /\ scan[w].stamped /\ db[scan[w].acct].scanned)
          => db[scan[w].acct].age <= scan[w].age

\* What a step other than Tick may do to the scan of a worker.
Continues(old, new) ==
    \/ new.pc = "idle" /\ new.caller = NoCaller
    \/ new.caller = NoCaller /\ new.age = 0 /\ ~new.stamped
    \/ /\ old.pc # "idle" /\ new.caller = old.caller /\ new.age = old.age
       /\ new.acct = old.acct
       /\ new.stamped => (old.stamped \/ db'[new.acct].age = 0)

\* A step other than Tick ends a worker's scan, starts an unstamped one, or lets it go
\* on with its age, its account and its stamp, which only a fresh mark can set.
LEMMA ScansContinue ==
    ASSUME TypeOK, Fresh, Next, ~Tick
    PROVE  \A w \in Workers : scan'[w] = scan[w] \/ Continues(scan[w], scan'[w])
<1> TAKE w \in Workers
<1> USE DEF TypeOK
<1>1. w \in Slots /\ scan[w] \in ScanType /\ w \notin Requests /\ scan[w].caller = NoCaller
      /\ NoCaller \notin Triggers
  BY SlotAssumption DEF Slots, SlotAssumption, Fresh
<1>2. CASE UNCHANGED scan BY <1>2
<1>3. CASE AccountStep
  BY <1>2, <1>3 DEF AccountStep, CreateAccount, CreateDraftAccount, DeleteAccount,
                    ReadForUpdate, ScanAccount
<1>4. CASE EditStep BY <1>2, <1>4 DEF EditStep, UpdateAccount
<1>5. ASSUME NEW t \in Triggers, TriggerStep(t) PROVE scan'[w] = scan[w]
  BY <1>1, <1>5
  DEF TriggerStep, MarkScanning, MarkScanningLost, EnqueueJob, EnqueueFails,
      MarkTriggerError, PostScan
<1>6. CASE ResetStuckScans BY <1>2, <1>6 DEF ResetStuckScans
<1>7. CASE ApiCrash BY <1>1, <1>7 DEF ApiCrash
<1>8. CASE SchedulerStep \/ ClientTimeouts
  BY <1>1, <1>8 DEF SchedulerStep, ListScheduled, ScheduleJob, ScheduleFails,
                    ScheduleRequest, ClientTimeouts, TriggerTimeout, ScheduleTimeout
<1>9. CASE IngestionCrash BY <1>9, <1>1 DEF IngestionCrash, Continues, IdleScan
<1>10. ASSUME NEW v \in Workers, Dequeue(v) \/ WorkerMark(v) \/ Gate(v) \/ WorkerFails(v)
                                 \/ BreakerCools(v) \/ WorkerTimeout(v)
       PROVE  scan'[w] = scan[w] \/ Continues(scan[w], scan'[w])
  <2>0. v \in Slots /\ scan[v] \in ScanType BY DEF Slots
  <2>1. CASE v # w
    BY <1>1, <1>10, <2>1 DEF Dequeue, WorkerMark, Gate, WorkerFails, BreakerCools, WorkerTimeout
  <2>2. CASE v = w /\ Dequeue(v)
    BY <1>1, <2>2 DEF Dequeue, NewScan, IdleScan, Continues
  <2>3. CASE v = w /\ WorkerMark(v)
    <3>1. CASE scan' = [scan EXCEPT ![w].pc = "gate", ![w].stamped = Markable(db[scan[w].acct])]
               /\ db' = [db EXCEPT ![scan[w].acct] = Marked(db[scan[w].acct])]
      <4>1. scan[w].acct \in Accounts BY <1>1 DEF ScanType
      <4>2. Markable(db[scan[w].acct]) => db'[scan[w].acct].age = 0
        BY <3>1, <4>1 DEF Marked, WithStatus, Markable, Row
      <4> QED BY <1>1, <2>3, <3>1, <4>2 DEF WorkerMark, Continues, ScanType
    <3>2. CASE scan' = [scan EXCEPT ![w].pc = "gate"]
      BY <1>1, <2>3, <3>2 DEF WorkerMark, Continues, ScanType
    <3> QED BY <2>3, <3>1, <3>2 DEF WorkerMark
  <2>4. CASE v = w /\ (Gate(v) \/ WorkerTimeout(v))
    <3>1. /\ scan'[w].caller = scan[w].caller /\ scan'[w].age = scan[w].age
          /\ scan'[w].acct = scan[w].acct /\ scan'[w].stamped = scan[w].stamped
          /\ scan[w].pc # "idle"
      BY <1>1, <2>4, BrokenType DEF Gate, WorkerTimeout, ScanType
    <3> QED BY <3>1 DEF Continues
  <2>5. CASE v = w /\ WorkerFails(v) BY <1>1, <2>5 DEF WorkerFails, Continues, IdleScan
  <2>6. CASE BreakerCools(v) BY <1>2, <2>6 DEF BreakerCools
  <2> QED BY <1>10, <2>1, <2>2, <2>3, <2>4, <2>5, <2>6
<1>11. ASSUME NEW s \in Slots, RunStep(s)
       PROVE  scan'[w] = scan[w] \/ Continues(scan[w], scan'[w])
  <2>1. CASE s # w
    BY <1>1, <1>11, <2>1 DEF RunStep, ReadAccount, PopulateAccountID, IngestionCore, Finalize
  <2>2. CASE s = w /\ (ReadAccount(s) \/ PopulateAccountID(s) \/ IngestionCore(s))
    BY <2>2, RunSlot DEF Continues
  <2>3. CASE s = w /\ Finalize(s) BY <1>1, <2>3 DEF Finalize, Continues, IdleScan
  <2> QED BY <1>11, <2>1, <2>2, <2>3 DEF RunStep
<1>12. ASSUME NEW r \in Requests, RequestFails(r) PROVE scan'[w] = scan[w]
  BY <1>1, <1>12 DEF RequestFails
<1> QED BY <1>3, <1>4, <1>5, <1>6, <1>7, <1>8, <1>9, <1>10, <1>11, <1>12
        DEF Next, WorkerStep, RequestStep, Slots

\* The passing of time keeps Fresh: the scan and the row it stamped age together, and no
\* time passes once the scan has reached its deadline.
LEMMA TickFresh == ASSUME TypeOK, Fresh, Tick PROVE Fresh'
<1> SUFFICES ASSUME NEW w \in Workers
             PROVE  (/\ scan[w].caller = NoCaller
                     /\ Running(w) => scan[w].age <= ScanTimeout
                     /\ (Running(w) /\ scan[w].stamped /\ db[scan[w].acct].scanned)
                           => db[scan[w].acct].age <= scan[w].age)'
  BY DEF Fresh
<1> USE DEF TypeOK
<1>1. w \in Slots /\ scan[w] \in ScanType /\ scan[w].acct \in Accounts /\ scan[w].age \in Ages
  BY DEF Slots, ScanType
<1>2. CASE ~Running(w)
  <2>1. scan'[w] = scan[w] BY <1>1, <1>2 DEF Tick
  <2> QED BY <1>2, <2>1 DEF Fresh, Running
<1>3. CASE Running(w)
  <2>1. scan[w].age < ScanTimeout BY <1>1, <1>3, Constants DEF Tick, Urgent, Ages
  <2>2. scan'[w] = [scan[w] EXCEPT !.age = Older(scan[w].age)] BY <1>1, <1>3 DEF Tick, Timed
  <2>3. /\ scan'[w].caller = NoCaller /\ scan'[w].acct = scan[w].acct
        /\ scan'[w].stamped = scan[w].stamped /\ scan'[w].age = Older(scan[w].age)
    BY <1>1, <2>2 DEF ScanType, Fresh
  <2>4. scan'[w].age <= ScanTimeout BY <1>1, <2>1, <2>3, Constants DEF Older, Ages
  <2>5. ASSUME scan[w].stamped, db'[scan[w].acct].scanned
        PROVE  db'[scan[w].acct].age <= scan'[w].age
    <3> DEFINE row == db[scan[w].acct]
    <3>1. row \in Row /\ row.age \in Ages BY <1>1 DEF Row
    <3>2. db'[scan[w].acct] = row \/ db'[scan[w].acct] = [row EXCEPT !.age = Older(row.age)]
      BY <1>1 DEF Tick
    <3>3. row.scanned /\ db'[scan[w].acct].age \in {row.age, Older(row.age)}
      BY <2>5, <3>1, <3>2 DEF Row
    <3>4. row.age <= scan[w].age BY <1>3, <2>5, <3>3 DEF Fresh
    <3> QED BY <1>1, <2>3, <3>1, <3>3, <3>4, Constants DEF Older, Ages
  <2> QED BY <2>3, <2>4, <2>5
<1> QED BY <1>2, <1>3

\* Every step keeps Fresh.
LEMMA NextFresh == ASSUME TypeOK, Fresh, [Next]_vars PROVE Fresh'
<1>1. CASE UNCHANGED vars BY <1>1 DEF vars, Fresh, Running
<1>2. CASE Tick BY <1>2, TickFresh
<1>3. CASE Next /\ ~Tick
  <2>1. \A a \in Accounts : Keeps(db[a], db'[a]) BY <1>3, RowsKept
  <2>2. \A w \in Workers : scan'[w] = scan[w] \/ Continues(scan[w], scan'[w])
    BY <1>3, ScansContinue
  <2>3. TypeOK' BY <1>3, NextTyped
  <2> SUFFICES ASSUME NEW w \in Workers
               PROVE  (/\ scan[w].caller = NoCaller
                       /\ Running(w) => scan[w].age <= ScanTimeout
                       /\ (Running(w) /\ scan[w].stamped /\ db[scan[w].acct].scanned)
                             => db[scan[w].acct].age <= scan[w].age)'
    BY DEF Fresh
  <2>4. /\ scan[w].acct \in Accounts /\ scan[w].age \in Ages
        /\ scan'[w].acct \in Accounts /\ scan'[w].age \in Ages
    BY <2>3 DEF TypeOK, Slots, ScanType
  <2>5. /\ scan[w].caller = NoCaller
        /\ Running(w) => scan[w].age <= ScanTimeout
        /\ (Running(w) /\ scan[w].stamped /\ db[scan[w].acct].scanned)
              => db[scan[w].acct].age <= scan[w].age
    BY DEF Fresh
  <2>6. Keeps(db[scan'[w].acct], db'[scan'[w].acct]) BY <2>1, <2>4
  <2>7. db'[scan'[w].acct].age \in Ages BY <2>3, <2>4 DEF TypeOK, Row
  <2>8. CASE scan'[w] = scan[w]
    BY <2>4, <2>5, <2>6, <2>7, <2>8, Constants DEF Keeps, Running, Ages
  <2>9. CASE Continues(scan[w], scan'[w])
    BY <2>4, <2>5, <2>6, <2>7, <2>9, Constants DEF Keeps, Continues, Running, Ages
  <2> QED BY <2>2, <2>8, <2>9
<1> QED BY <1>1, <1>2, <1>3

\* Fresh holds where nothing is running.
LEMMA InitFresh == Init => Fresh
BY DEF Init, Fresh, Running, IdleScan, Slots

\* So it always holds.
LEMMA FreshInvariant == Spec => []Fresh
<1>1. TypeOK /\ Fresh /\ [Next]_vars => Fresh' BY NextFresh
<1> QED BY <1>1, InitFresh, TypedInvariant, PTL DEF Spec

\* Because the worker's deadline is shorter than the sweep's cutoff, the sweep never fails
\* a scan that a worker is executing and that stamped its account itself.
THEOREM StampedScanSafe == Spec => []StampedScanNotStuck
<1>1. TypeOK /\ Fresh => StampedScanNotStuck
  <2> SUFFICES ASSUME TypeOK, Fresh, NEW w \in Workers, Running(w), scan[w].stamped,
                      Stuck(db[scan[w].acct])
               PROVE  FALSE
    BY DEF StampedScanNotStuck
  <2>1. scan[w].acct \in Accounts /\ scan[w].age \in Ages
    BY DEF TypeOK, Slots, ScanType
  <2>2. db[scan[w].acct].age \in Ages BY <2>1 DEF TypeOK, Row
  <2>3. db[scan[w].acct].age <= scan[w].age /\ scan[w].age <= ScanTimeout BY DEF Fresh, Stuck
  <2> QED BY <2>1, <2>2, <2>3, Constants DEF Stuck, Ages
<1> QED BY <1>1, TypedInvariant, FreshInvariant, PTL

------------------------------------------------------------------------------
(* An account shown as scanning has something on its way that will write a *)
(* final status, unless something was lost or dropped, or a PATCH wrote an *)
(* old status back.                                                        *)

\* A request waits for at most one scan, of its own account; a scan that ended well
\* has a final status to write.
Served ==
    /\ \A s \in Slots : scan[s].caller \in Triggers =>
           /\ trig[scan[s].caller].pc = "waiting"
           /\ trig[scan[s].caller].acct = scan[s].acct
    /\ \A s1, s2 \in Slots :
           (scan[s1].caller \in Triggers /\ scan[s1].caller = scan[s2].caller) => s1 = s2
    /\ \A s \in Slots :
           scan[s].pc = "finalize" => scan[s].status \in {"connected", "pending_cur_delivery"}

\* Nobody waits at the start.
LEMMA InitServed == Init => Served
BY SlotAssumption DEF Init, Served, IdleScan, SlotAssumption

\* Steps that keep the scans and the requests that wait.
LEMMA ServedKept ==
    ASSUME Served, UNCHANGED scan,
           \A t \in Triggers : trig[t].pc = "waiting" => trig'[t] = trig[t]
    PROVE  Served'
<1>1. \A s \in Slots : scan[s].caller \in Triggers =>
         trig'[scan[s].caller] = trig[scan[s].caller]
  BY DEF Served
<1> QED BY <1>1 DEF Served

\* Steps of one scan that change neither its account nor who waits for it.
LEMMA ServedOnward ==
    ASSUME TypeOK, Served, NEW s \in Slots, UNCHANGED trig,
           \A o \in Slots \ {s} : scan'[o] = scan[o],
           scan'[s].caller = scan[s].caller \/ scan'[s].caller \notin Triggers,
           scan'[s].acct = scan[s].acct \/ scan'[s].caller \notin Triggers,
           scan'[s].pc = "finalize" => scan'[s].status \in {"connected", "pending_cur_delivery"}
    PROVE  Served'
BY DEF Served

\* A scan of which the caller gets its answer.
LEMMA ServedAnswer ==
    ASSUME TypeOK, Served, NEW s \in Slots, NEW pc, Answered(s, pc),
           scan' = [scan EXCEPT ![s] = IdleScan]
    PROVE  Served'
<1>1. scan'[s] = IdleScan /\ \A o \in Slots \ {s} : scan'[o] = scan[o]
  BY DEF TypeOK
<1>2. IdleScan.caller \notin Triggers /\ IdleScan.pc # "finalize"
  BY SlotAssumption DEF IdleScan, SlotAssumption
<1>3. \A o \in Slots \ {s} : scan[o].caller \in Triggers =>
         trig'[scan[o].caller] = trig[scan[o].caller]
  BY DEF Served, Answered
<1> QED BY <1>1, <1>2, <1>3 DEF Served

\* The steps of runScan keep Served.
LEMMA RunStepServed == ASSUME TypeOK, Served, NEW s \in Slots, RunStep(s) PROVE Served'
<1>1. scan[s] \in ScanType /\ scan \in [Slots -> ScanType] BY DEF TypeOK
<1>2. CASE ReadAccount(s) \/ PopulateAccountID(s) \/ IngestionCore(s)
  <2>1. UNCHANGED trig BY <1>2 DEF ReadAccount, PopulateAccountID, IngestionCore
  <2> QED BY <1>2, <2>1, RunSlot, ServedOnward
<1>4. CASE Finalize(s) BY <1>4, ServedAnswer DEF Finalize
<1> QED BY <1>2, <1>4 DEF RunStep

\* So do the steps of a queue worker outside it.
LEMMA WorkerServed ==
    ASSUME TypeOK, Served, NEW w \in Workers,
           \/ Dequeue(w) \/ WorkerMark(w) \/ Gate(w) \/ WorkerFails(w)
           \/ BreakerCools(w) \/ WorkerTimeout(w)
    PROVE  Served'
<1>1. w \in Slots /\ scan[w] \in ScanType /\ scan \in [Slots -> ScanType]
  BY DEF TypeOK, Slots
<1>2. NoCaller \notin Triggers BY SlotAssumption DEF SlotAssumption
<1>3. UNCHANGED trig
  BY DEF Dequeue, WorkerMark, Gate, WorkerFails, BreakerCools, WorkerTimeout
<1>4. CASE UNCHANGED scan BY <1>3, <1>4, ServedKept
<1>5. CASE Dequeue(w)
  <2>1. CASE scan' = [scan EXCEPT ![w] = NewScan(Head(queue).acct, "picked", NoCaller)]
    <3>1. /\ \A o \in Slots \ {w} : scan'[o] = scan[o]
          /\ scan'[w].caller = NoCaller /\ scan'[w].pc = "picked"
      BY <1>1, <2>1 DEF NewScan, IdleScan
    <3> QED BY <1>1, <1>2, <1>3, <3>1, ServedOnward
  <2> QED BY <1>4, <1>5, <2>1 DEF Dequeue
<1>6. CASE WorkerMark(w) \/ Gate(w) \/ WorkerTimeout(w)
  <2>1. /\ \A o \in Slots \ {w} : scan'[o] = scan[o]
        /\ scan'[w].caller = scan[w].caller /\ scan'[w].acct = scan[w].acct
        /\ scan'[w].pc # "finalize"
    BY <1>1, <1>6, BrokenType DEF WorkerMark, Gate, WorkerTimeout, ScanType
  <2> QED BY <1>1, <1>3, <2>1, ServedOnward
<1>7. CASE WorkerFails(w)
  <2>1. /\ \A o \in Slots \ {w} : scan'[o] = scan[o]
        /\ scan'[w].caller = NoCaller /\ scan'[w].pc # "finalize"
    BY <1>1, <1>7 DEF WorkerFails, IdleScan
  <2> QED BY <1>1, <1>2, <1>3, <2>1, ServedOnward
<1>8. CASE BreakerCools(w) BY <1>4, <1>8 DEF BreakerCools
<1> QED BY <1>5, <1>6, <1>7, <1>8

\* A request received in ingestion, from a caller that waits for nothing else.
LEMMA NewScanServed ==
    ASSUME TypeOK, Served, NEW a \in Accounts, NEW r \in Requests, NEW caller,
           scan' = [scan EXCEPT ![r] = NewScan(a, "read", caller)],
           caller \in Triggers => /\ trig[caller].pc # "waiting"
                                  /\ trig'[caller].pc = "waiting" /\ trig'[caller].acct = a,
           \A t \in Triggers \ {caller} : trig'[t] = trig[t]
    PROVE  Served'
<1>1. r \in Slots /\ scan \in [Slots -> ScanType] BY DEF TypeOK, Slots
<1>2. /\ \A o \in Slots \ {r} : scan'[o] = scan[o]
      /\ scan'[r].caller = caller /\ scan'[r].acct = a /\ scan'[r].pc = "read"
  BY <1>1 DEF NewScan, IdleScan
<1>3. \A o \in Slots : scan[o].caller \in Triggers => scan[o].caller # caller
  BY DEF Served
<1> QED BY <1>1, <1>2, <1>3 DEF Served

\* So do the steps of a scan request and of its goroutine.
LEMMA TriggerServed == ASSUME TypeOK, Served, NEW t \in Triggers, TriggerStep(t) PROVE Served'
<1>1. trig[t] \in TrigType /\ trig \in [Triggers -> TrigType] BY DEF TypeOK
<1>2. CASE MarkScanning(t) \/ MarkScanningLost(t) \/ EnqueueJob(t) \/ EnqueueFails(t)
           \/ MarkTriggerError(t)
  <2>1. UNCHANGED scan /\ \A u \in Triggers : trig[u].pc = "waiting" => trig'[u] = trig[u]
    BY <1>1, <1>2
    DEF MarkScanning, MarkScanningLost, EnqueueJob, EnqueueFails, MarkTriggerError
  <2> QED BY <2>1, ServedKept
<1>3. ASSUME NEW r \in Requests, PostScan(t, r) PROVE Served'
  <2>1. /\ trig[t].pc # "waiting" /\ trig'[t].pc = "waiting" /\ trig'[t].acct = trig[t].acct
        /\ \A u \in Triggers \ {t} : trig'[u] = trig[u]
        /\ trig[t].acct \in Accounts
    BY <1>1, <1>3 DEF PostScan, TrigType
  <2> QED BY <1>3, <2>1, NewScanServed DEF PostScan
<1> QED BY <1>2, <1>3 DEF TriggerStep

\* So does every step.
LEMMA NextServed == ASSUME TypeOK, Served, [Next]_vars PROVE Served'
<1>0. NoCaller \notin Triggers /\ Scheduler \notin Triggers /\ scan \in [Slots -> ScanType]
  BY SlotAssumption DEF SlotAssumption, TypeOK
<1>1. CASE UNCHANGED vars BY <1>1 DEF vars, Served
<1>2. CASE AccountStep
  <2>1. UNCHANGED scan /\ \A t \in Triggers : trig[t].pc = "waiting" => trig'[t] = trig[t]
    BY <1>2 DEF AccountStep, CreateAccount, CreateDraftAccount, DeleteAccount,
                ReadForUpdate, ScanAccount, TypeOK
  <2> QED BY <2>1, ServedKept
<1>3. CASE EditStep \/ ResetStuckScans
  BY <1>3, ServedKept DEF EditStep, UpdateAccount, ResetStuckScans
<1>4. CASE ApiCrash
  <2>1. \A s \in Slots : scan'[s].caller \notin Triggers /\ scan'[s].pc = scan[s].pc
                         /\ scan'[s].status = scan[s].status
    BY <1>0, <1>4 DEF ApiCrash, Detached, ScanType
  <2> QED BY <2>1 DEF Served
<1>5. CASE SchedulerStep
  <2>1. CASE UNCHANGED <<scan, trig>> BY <2>1, ServedKept
  <2>2. ASSUME NEW a \in Accounts, NEW r \in Requests, ScheduleRequest(a, r) PROVE Served'
    BY <1>0, <2>2, NewScanServed DEF ScheduleRequest
  <2> QED BY <1>5, <2>1, <2>2 DEF SchedulerStep, ListScheduled, ScheduleJob, ScheduleFails
<1>6. ASSUME NEW r \in Requests, TriggerTimeout(r) \/ ScheduleTimeout(r) PROVE Served'
  <2>1. r \in Slots BY DEF Slots
  <2>2. /\ \A o \in Slots \ {r} : scan'[o] = scan[o]
        /\ scan'[r].caller = NoCaller
        /\ scan'[r].pc = scan[r].pc /\ scan'[r].status = scan[r].status
    BY <1>0, <1>6, <2>1 DEF TriggerTimeout, ScheduleTimeout, Detached, ScanType
  <2>3. \A t \in Triggers : t # scan[r].caller => trig'[t] = trig[t]
    BY <1>6 DEF TriggerTimeout, ScheduleTimeout, TypeOK
  <2>4. \A o \in Slots \ {r} : scan[o].caller \in Triggers =>
           trig'[scan[o].caller] = trig[scan[o].caller]
    BY <1>6, <2>1, <2>3 DEF Served
  <2> QED BY <1>0, <2>1, <2>2, <2>4 DEF Served
<1>7. ASSUME NEW w \in Workers, WorkerStep(w) \/ BreakerCools(w) \/ WorkerTimeout(w)
      PROVE  Served'
  BY <1>7, WorkerServed, RunStepServed DEF WorkerStep, Slots
<1>8. ASSUME NEW r \in Requests, RequestStep(r) PROVE Served'
  <2>1. r \in Slots BY DEF Slots
  <2> QED BY <1>8, <2>1, RunStepServed, ServedAnswer DEF RequestStep, RequestFails
<1>9. CASE IngestionCrash
  <2>1. \A s \in Slots : scan'[s].caller \notin Triggers /\ scan'[s].pc = "idle"
    BY <1>0, <1>9 DEF IngestionCrash, IdleScan
  <2> QED BY <2>1 DEF Served
<1>10. CASE Tick
  <2>1. \A s \in Slots : /\ scan'[s].caller = scan[s].caller /\ scan'[s].acct = scan[s].acct
                         /\ scan'[s].pc = scan[s].pc /\ scan'[s].status = scan[s].status
    BY <1>0, <1>10 DEF Tick, ScanType
  <2> QED BY <1>10, <2>1 DEF Served, Tick
<1> QED BY <1>1, <1>2, <1>3, <1>4, <1>5, <1>6, <1>7, <1>8, <1>9, <1>10, TriggerServed
        DEF Next, ClientTimeouts

\* So Served always holds.
LEMMA ServedInvariant == Spec => []Served
<1>1. TypeOK /\ Served /\ [Next]_vars => Served' BY NextServed
<1> QED BY <1>1, InitServed, TypedInvariant, PTL DEF Spec
------------------------------------------------------------------------------
Waits(tr, a)   == tr.acct = a /\ tr.pc \in {"enqueue", "waiting", "failed"}

\* A fault is counted.
LEMMA FaultCounts == ASSUME TypeOK, Fault PROVE faults' > faults
BY Constants DEF TypeOK, Fault

\* What is on its way for an account stays on its way.
LEMMA ClaimKept ==
    ASSUME NEW a \in Accounts, Claimed(a),
           \A t \in Triggers : Waits(trig[t], a) => Waits(trig'[t], a),
           Queued(a) => Queued(a)',
           \A s \in Slots : scan[s].pc # "idle" /\ scan[s].acct = a
                               => scan'[s].pc # "idle" /\ scan'[s].acct = a
    PROVE  Claimed(a)'
BY DEF Claimed, Waits, Running

\* A job appended is queued, and the accounts queued before still are.
LEMMA AppendQueued ==
    ASSUME TypeOK, NEW a \in Accounts, NEW b \in Accounts, queue' = Append(queue, Job(b))
    PROVE  /\ Queued(a) => Queued(a)'
           /\ Queued(b)'
<1>1. queue \in Seq(JobType) /\ Job(b) \in JobType /\ Job(b).acct = b
  BY JobIsJob DEF TypeOK, Job
<1>2. /\ Len(queue') = Len(queue) + 1 /\ queue'[Len(queue) + 1] = Job(b)
      /\ \A i \in 1..Len(queue) : queue'[i] = queue[i]
      /\ Len(queue) \in Nat
  BY <1>1
<1> QED BY <1>1, <1>2 DEF Queued

\* A job taken off the queue is the only one that leaves it.
LEMMA TailQueued ==
    ASSUME TypeOK, NEW a \in Accounts, queue # <<>>, queue' = Tail(queue), Queued(a)
    PROVE  Queued(a)' \/ Head(queue).acct = a
<1>1. queue \in Seq(JobType) /\ Len(queue) \in Nat /\ Len(queue) > 0
  BY DEF TypeOK
<1>2. PICK i \in 1..Len(queue) : queue[i].acct = a BY DEF Queued
<1>3. CASE i = 1 BY <1>1, <1>2, <1>3
<1>4. CASE i > 1
  <2>1. i - 1 \in 1..Len(queue') /\ queue'[i - 1] = queue[i] BY <1>1, <1>2, <1>4
  <2> QED BY <1>2, <2>1 DEF Queued
<1> QED BY <1>2, <1>3, <1>4

\* A row that did not become scanning in this step, of an account whose claim is kept.
LEMMA NotUnclaimed ==
    ASSUME NEW a \in Accounts, ~Unclaimed(a),
           db'[a].status = "scanning" => db[a].status = "scanning",
           Claimed(a) => Claimed(a)'
    PROVE  ~Unclaimed(a)'
BY DEF Unclaimed

\* A status write leaves the old status or the new one, and clears scanning.
LEMMA WithStatusStatus ==
    ASSUME NEW row \in Row, NEW st PROVE WithStatus(row, st).status \in {row.status, st}
           /\ (st # "scanning" => WithStatus(row, st).status # "scanning")
BY DEF WithStatus, Row, Exists, Statuses

\* A scan request that marked its account hands its claim to the queue, to a scan, or
\* to the error write.
LEMMA TriggerClaims ==
    ASSUME TypeOK, NEW a \in Accounts, ~Unclaimed(a), ~(faults' > faults),
           NEW t \in Triggers, TriggerStep(t)
    PROVE  ~Unclaimed(a)'
<1>0. PICK b \in Accounts : b = trig[t].acct BY DEF TypeOK, TrigType
<1>1. /\ trig \in [Triggers -> TrigType] /\ db \in [Accounts -> Row]
      /\ scan \in [Slots -> ScanType] /\ db[a] \in Row
  BY DEF TypeOK, TrigType
<1>2. CASE MarkScanning(t)
  <2>1. CASE a = b /\ Markable(db[b])
    <3>1. trig'[t].pc = "enqueue" /\ trig'[t].acct = a
      BY <1>0, <1>1, <1>2, <2>1 DEF MarkScanning, TrigType
    <3> QED BY <3>1 DEF Unclaimed, Claimed
  <2>2. CASE ~(a = b /\ Markable(db[b]))
    <3>1. db'[a] = db[a] BY <1>0, <1>1, <1>2, <2>2 DEF MarkScanning, Marked
    <3>2. \A u \in Triggers : Waits(trig[u], a) => Waits(trig'[u], a)
      BY <1>0, <1>1, <1>2 DEF MarkScanning, Waits
    <3>3. UNCHANGED <<queue, scan>> BY <1>2 DEF MarkScanning
    <3> QED BY <3>1, <3>2, <3>3, ClaimKept, NotUnclaimed DEF Queued
  <2> QED BY <2>1, <2>2
<1>3. CASE MarkScanningLost(t) \/ EnqueueFails(t)
  BY <1>3, FaultCounts DEF MarkScanningLost, EnqueueFails
<1>4. CASE EnqueueJob(t)
  <2>1. (Queued(a) => Queued(a)') /\ Queued(b)'
    BY <1>0, <1>1, <1>4, AppendQueued DEF EnqueueJob
  <2>2. CASE a = b BY <2>1, <2>2 DEF Unclaimed, Claimed
  <2>3. CASE a # b
    <3>1. \A u \in Triggers : Waits(trig[u], a) => Waits(trig'[u], a)
      BY <1>0, <1>1, <1>4, <2>3 DEF EnqueueJob, Waits
    <3> QED BY <1>4, <2>1, <3>1, ClaimKept, NotUnclaimed DEF EnqueueJob
  <2> QED BY <2>2, <2>3
<1>5. CASE MarkTriggerError(t)
  <2>1. db' = [db EXCEPT ![b] = WithStatus(db[b], "error")] /\ UNCHANGED <<queue, scan>>
    BY <1>0, <1>5, FaultCounts DEF MarkTriggerError
  <2>2. CASE a = b
    <3>1. db'[a].status # "scanning" BY <1>0, <1>1, <2>1, <2>2, WithStatusStatus
    <3> QED BY <3>1 DEF Unclaimed
  <2>3. CASE a # b
    <3>1. \A u \in Triggers : Waits(trig[u], a) => Waits(trig'[u], a)
      BY <1>0, <1>1, <1>5, <2>3 DEF MarkTriggerError, Waits
    <3>2. db'[a] = db[a] BY <1>0, <1>1, <2>1, <2>3
    <3> QED BY <2>1, <3>1, <3>2, ClaimKept, NotUnclaimed DEF Queued
  <2> QED BY <2>2, <2>3
<1>6. ASSUME NEW r \in Requests, PostScan(t, r) PROVE ~Unclaimed(a)'
  <2>1. r \in Slots BY DEF Slots
  <2>2. \A u \in Triggers : Waits(trig[u], a) => Waits(trig'[u], a)
    BY <1>0, <1>1, <1>6 DEF PostScan, Waits, TrigType
  <2>3. \A s \in Slots : scan[s].pc # "idle" /\ scan[s].acct = a
                            => scan'[s].pc # "idle" /\ scan'[s].acct = a
    BY <1>0, <1>1, <1>6, <2>1 DEF PostScan, Running
  <2> QED BY <1>6, <2>2, <2>3, ClaimKept, NotUnclaimed DEF PostScan, Queued
<1> QED BY <1>2, <1>3, <1>4, <1>5, <1>6 DEF TriggerStep

\* A worker that takes a job holds its claim until it writes a final status.
LEMMA WorkerClaims ==
    ASSUME TypeOK, NEW a \in Accounts, ~Unclaimed(a), ~(faults' > faults), ~JobExpires(a),
           NEW w \in Workers,
           \/ Dequeue(w) \/ WorkerMark(w) \/ Gate(w) \/ WorkerFails(w)
           \/ BreakerCools(w) \/ WorkerTimeout(w)
    PROVE  ~Unclaimed(a)'
<1> DEFINE b == scan[w].acct
<1>1. /\ w \in Slots /\ scan \in [Slots -> ScanType] /\ b \in Accounts
      /\ db \in [Accounts -> Row] /\ scan[w] \in ScanType /\ db[b] \in Row
  BY DEF TypeOK, Slots, ScanType
<1>2. UNCHANGED trig
  BY DEF Dequeue, WorkerMark, Gate, WorkerFails, BreakerCools, WorkerTimeout
<1>3. CASE Dequeue(w)
  <2>1. /\ \/ Rejected(Head(queue)) /\ UNCHANGED scan
           \/ scan' = [scan EXCEPT ![w] = NewScan(Head(queue).acct, "picked", NoCaller)]
        /\ queue # <<>> /\ queue' = Tail(queue) /\ UNCHANGED db /\ ~Running(w)
    BY <1>3 DEF Dequeue
  <2>3. CASE Head(queue).acct = a
    <3>1. scan' = [scan EXCEPT ![w] = NewScan(a, "picked", NoCaller)]
      BY <2>1, <2>3 DEF JobExpires
    <3>2. scan'[w].pc = "picked" /\ scan'[w].acct = a
      BY <1>1, <3>1 DEF NewScan, IdleScan
    <3> QED BY <1>1, <3>2 DEF Unclaimed, Claimed, Running
  <2>4. CASE Head(queue).acct # a
    <3>1. Queued(a) => Queued(a)' BY <2>1, <2>4, TailQueued
    <3>2. \A s \in Slots : scan[s].pc # "idle" /\ scan[s].acct = a
                              => scan'[s].pc # "idle" /\ scan'[s].acct = a
      BY <1>1, <2>1 DEF Running
    <3> QED BY <1>2, <2>1, <3>1, <3>2, ClaimKept, NotUnclaimed
  <2> QED BY <2>3, <2>4
<1>4. CASE WorkerMark(w) \/ Gate(w) \/ WorkerTimeout(w)
  <2>1. /\ \A s \in Slots \ {w} : scan'[s] = scan[s]
        /\ scan'[w].pc # "idle" /\ scan'[w].acct = b
        /\ \A c \in Accounts \ {b} : db'[c] = db[c]
        /\ UNCHANGED queue
    BY <1>1, <1>4, BrokenType DEF WorkerMark, Gate, WorkerTimeout, ScanType
  <2>2. CASE a = b BY <1>1, <2>1, <2>2 DEF Unclaimed, Claimed, Running
  <2>3. CASE a # b
    <3>1. \A s \in Slots : scan[s].pc # "idle" /\ scan[s].acct = a
                              => scan'[s].pc # "idle" /\ scan'[s].acct = a
      BY <2>1, <2>3
    <3> QED BY <1>2, <2>1, <2>3, <3>1, ClaimKept, NotUnclaimed DEF Queued
  <2> QED BY <2>2, <2>3
<1>5. CASE WorkerFails(w)
  <2>1. PICK st \in {"circuit_breaker_open", "scan_timeout", "error"} :
           db' = [db EXCEPT ![b] = WithStatus(db[b], st)]
    BY <1>5, FaultCounts DEF WorkerFails
  <2>2. scan' = [scan EXCEPT ![w] = IdleScan] /\ UNCHANGED queue BY <1>5 DEF WorkerFails
  <2>3. CASE a = b
    <3>1. db'[a].status # "scanning" BY <1>1, <2>1, <2>3, WithStatusStatus
    <3> QED BY <3>1 DEF Unclaimed
  <2>4. CASE a # b
    <3>1. db'[a] = db[a] BY <1>1, <2>1, <2>4
    <3>2. \A s \in Slots : scan[s].pc # "idle" /\ scan[s].acct = a
                              => scan'[s].pc # "idle" /\ scan'[s].acct = a
      BY <1>1, <2>2, <2>4
    <3> QED BY <1>2, <2>2, <3>1, <3>2, ClaimKept, NotUnclaimed DEF Queued
  <2> QED BY <2>3, <2>4
<1>6. CASE BreakerCools(w)
  BY <1>6, ClaimKept, NotUnclaimed DEF BreakerCools, Queued
<1> QED BY <1>3, <1>4, <1>5, <1>6

\* The end of a scan: a final status is written, and its caller answered.
LEMMA AnswerClaims ==
    ASSUME TypeOK, Served, NEW a \in Accounts, ~Unclaimed(a),
           NEW s \in Slots, NEW pc, Answered(s, pc), NEW st, st # "scanning",
           db' = [db EXCEPT ![scan[s].acct] = WithStatus(db[scan[s].acct], st)],
           scan' = [scan EXCEPT ![s] = IdleScan], UNCHANGED queue
    PROVE  ~Unclaimed(a)'
<1>1. /\ scan \in [Slots -> ScanType] /\ scan[s].acct \in Accounts
      /\ db \in [Accounts -> Row] /\ db[a] \in Row
  BY DEF TypeOK, ScanType
<1>2. CASE a = scan[s].acct
  <2>1. db'[a].status # "scanning" BY <1>1, <1>2, WithStatusStatus
  <2> QED BY <2>1 DEF Unclaimed
<1>3. CASE a # scan[s].acct
  <2>1. db'[a] = db[a] BY <1>1, <1>3
  <2>2. \A t \in Triggers : Waits(trig[t], a) => Waits(trig'[t], a)
    BY <1>3 DEF Served, Answered, Waits
  <2>3. \A o \in Slots : scan[o].pc # "idle" /\ scan[o].acct = a
                            => scan'[o].pc # "idle" /\ scan'[o].acct = a
    BY <1>1, <1>3
  <2> QED BY <2>1, <2>2, <2>3, ClaimKept, NotUnclaimed DEF Queued
<1> QED BY <1>2, <1>3

\* So does runScan, whose slot holds it until then.
LEMMA RunClaims ==
    ASSUME TypeOK, Served, NEW a \in Accounts, ~Unclaimed(a), ~(faults' > faults),
           NEW s \in Slots, RunStep(s)
    PROVE  ~Unclaimed(a)'
<1>1. /\ scan \in [Slots -> ScanType] /\ scan[s].acct \in Accounts /\ scan[s] \in ScanType
      /\ db \in [Accounts -> Row]
  BY DEF TypeOK, ScanType
<1>2. CASE ReadAccount(s) \/ PopulateAccountID(s) \/ IngestionCore(s)
  <2>1. /\ \A o \in Slots \ {s} : scan'[o] = scan[o]
        /\ scan'[s].pc # "idle" /\ scan'[s].acct = scan[s].acct
        /\ scan[s].pc # "idle" /\ UNCHANGED <<queue, trig>>
    BY <1>2, RunSlot DEF ReadAccount, PopulateAccountID, IngestionCore
  <2>2. CASE a = scan[s].acct BY <2>1, <2>2 DEF Unclaimed, Claimed, Running
  <2>3. CASE a # scan[s].acct
    <3>1. db'[a] = db[a]
      BY <1>1, <1>2, <2>3 DEF ReadAccount, PopulateAccountID, IngestionCore
    <3> QED BY <2>1, <2>3, <3>1, ClaimKept, NotUnclaimed DEF Queued
  <2> QED BY <2>2, <2>3
<1>3. CASE Finalize(s)
  <2>1. scan[s].status # "scanning" BY <1>3 DEF Finalize, Served
  <2>2. /\ db' = [db EXCEPT ![scan[s].acct] = WithStatus(db[scan[s].acct], scan[s].status)]
        /\ scan' = [scan EXCEPT ![s] = IdleScan] /\ UNCHANGED queue /\ Answered(s, "idle")
    BY <1>3, FaultCounts DEF Finalize
  <2> QED BY <2>1, <2>2, AnswerClaims
<1> QED BY <1>2, <1>3 DEF RunStep

\* A PATCH makes an account scanning only if it read it so.
LEMMA EditClaims ==
    ASSUME TypeOK, NEW a \in Accounts, ~Unclaimed(a), NEW e \in Editors, UpdateAccount(e),
           ~(PatchEnds(e, a) /\ edit[e].snap.status = "scanning")
    PROVE  ~Unclaimed(a)'
<1>0. /\ db \in [Accounts -> Row] /\ edit \in [Editors -> EditType]
      /\ edit[e].acct \in Accounts /\ edit[e].snap \in Row
  BY DEF TypeOK, EditType
<1>1. PICK snap \in Row : snap = edit[e].snap BY <1>0
<1>2. UNCHANGED <<trig, queue, scan>> BY DEF UpdateAccount
<1>3. PatchEnds(e, a) <=> edit[e].acct = a
  BY <1>0 DEF PatchEnds, UpdateAccount, IdleEdit
<1>4. db'[a].status = "scanning" => db[a].status = "scanning"
  <2>1. CASE UNCHANGED db BY <2>1
  <2>2. ASSUME NEW new \in Patched(snap) \cup Verified(snap), NEW created \in CreatedAges,
               db' = [db EXCEPT ![edit[e].acct] = Saved(db[edit[e].acct], new, created)],
               edit[e].acct = a
        PROVE  db'[a].status # "scanning"
    <3>1. new \in Row BY PatchedType, VerifiedType
    <3>2. new.status # "scanning"
      <4>1. snap.status # "scanning" BY <1>1, <1>3, <2>2
      <4>2. CASE new \in Patched(snap) BY <4>1, <4>2 DEF Patched, Row
      <4>3. CASE new \in Verified(snap) BY <4>1, <4>3 DEF Verified, Row
      <4> QED BY <4>2, <4>3
    <3>3. Saved(db[a], new, created).status = new.status BY <3>1 DEF Saved, Row
    <3> QED BY <1>0, <2>2, <3>2, <3>3
  <2> QED BY <1>0, <1>1, <2>1, <2>2 DEF UpdateAccount
<1> QED BY <1>2, <1>4, ClaimKept, NotUnclaimed DEF Queued

\* No other step leaves an account scanning without a claim.
LEMMA NextClaims ==
    ASSUME TypeOK, Served, NEW a \in Accounts, ~Unclaimed(a), ~(faults' > faults),
           ~JobExpires(a),
           \A e \in Editors : ~(PatchEnds(e, a) /\ edit[e].snap.status = "scanning"),
           [Next]_vars
    PROVE  ~Unclaimed(a)'
<1>0. /\ scan \in [Slots -> ScanType] /\ db \in [Accounts -> Row] /\ db[a] \in Row
      /\ trig \in [Triggers -> TrigType] /\ queue \in Seq(JobType)
  BY DEF TypeOK
<1>1. CASE UNCHANGED vars
  BY <1>1 DEF vars, Unclaimed, Claimed, Queued, Running
<1>2. CASE AccountStep
  <2>1. UNCHANGED <<scan, queue>>
    BY <1>2 DEF AccountStep, CreateAccount, CreateDraftAccount, DeleteAccount,
                ReadForUpdate, ScanAccount
  <2>2. \A t \in Triggers : Waits(trig[t], a) => Waits(trig'[t], a)
    BY <1>0, <1>2 DEF AccountStep, CreateAccount, CreateDraftAccount, DeleteAccount,
                      ReadForUpdate, ScanAccount, Waits
  <2>3. db'[a].status = "scanning" => db[a].status = "scanning"
    <3> PICK b \in Accounts :
           \/ CreateAccount(b) \/ CreateDraftAccount(b) \/ DeleteAccount(b)
           \/ \E e \in Editors : ReadForUpdate(e, b)
           \/ \E t \in Triggers : ScanAccount(t, b)
      BY <1>2 DEF AccountStep
    <3>1. CASE CreateAccount(b) \/ CreateDraftAccount(b) \/ DeleteAccount(b)
      <4>1. PICK new : new.status # "scanning" /\ db' = [db EXCEPT ![b] = new]
        BY <3>1 DEF CreateAccount, CreateDraftAccount, DeleteAccount, NoRow
      <4> QED BY <1>0, <4>1
    <3>2. CASE UNCHANGED db BY <3>2
    <3> QED BY <3>1, <3>2 DEF ReadForUpdate, ScanAccount
  <2> QED BY <2>1, <2>2, <2>3, ClaimKept, NotUnclaimed DEF Queued
<1>3. CASE EditStep BY <1>3, EditClaims DEF EditStep
<1>4. CASE ResetStuckScans
  <2>1. db'[a].status = "scanning" => db[a].status = "scanning"
    BY <1>0, <1>4 DEF ResetStuckScans, Row
  <2> QED BY <1>4, <2>1, ClaimKept, NotUnclaimed DEF ResetStuckScans, Queued
<1>5. CASE ApiCrash \/ IngestionCrash BY <1>5, FaultCounts DEF ApiCrash, IngestionCrash
<1>6. CASE SchedulerStep
  <2>1. CASE ListScheduled BY <2>1, ClaimKept, NotUnclaimed DEF ListScheduled, Queued
  <2>2. ASSUME NEW b \in Accounts, ScheduleJob(b) PROVE ~Unclaimed(a)'
    <3>1. Queued(a) => Queued(a)' BY <2>2, AppendQueued DEF ScheduleJob
    <3> QED BY <2>2, <3>1, ClaimKept, NotUnclaimed DEF ScheduleJob
  <2>3. ASSUME NEW b \in Accounts, ScheduleFails(b) PROVE ~Unclaimed(a)'
    BY <2>3, FaultCounts DEF ScheduleFails
  <2>4. ASSUME NEW b \in Accounts, NEW r \in Requests, ScheduleRequest(b, r)
        PROVE  ~Unclaimed(a)'
    <3>1. \A s \in Slots : scan[s].pc # "idle" /\ scan[s].acct = a
                              => scan'[s].pc # "idle" /\ scan'[s].acct = a
      BY <1>0, <2>4 DEF ScheduleRequest, Running
    <3> QED BY <2>4, <3>1, ClaimKept, NotUnclaimed DEF ScheduleRequest, Queued
  <2> QED BY <1>6, <2>1, <2>2, <2>3, <2>4 DEF SchedulerStep
<1>7. ASSUME NEW r \in Requests, TriggerTimeout(r) \/ ScheduleTimeout(r)
      PROVE  ~Unclaimed(a)'
  <2>1. \A s \in Slots : scan[s].pc # "idle" /\ scan[s].acct = a
                            => scan'[s].pc # "idle" /\ scan'[s].acct = a
    <3>1. r \in Slots /\ scan' = [scan EXCEPT ![r] = Detached(scan[r])]
      BY <1>7 DEF TriggerTimeout, ScheduleTimeout, Slots
    <3>2. Detached(scan[r]).pc = scan[r].pc /\ Detached(scan[r]).acct = scan[r].acct
      BY <1>0, <3>1 DEF Detached, ScanType
    <3> QED BY <1>0, <3>1, <3>2
  <2>2. \A t \in Triggers : Waits(trig[t], a) => Waits(trig'[t], a)
    <3>1. CASE UNCHANGED trig BY <3>1
    <3>2. CASE TriggerTimeout(r)
      <4>1. PICK u \in Triggers : trig' = [trig EXCEPT ![u].pc = "failed"]
        BY <3>2 DEF TriggerTimeout
      <4>2. \A t \in Triggers : trig'[t].acct = trig[t].acct /\ trig'[t].pc \in {trig[t].pc, "failed"}
        BY <1>0, <4>1 DEF TrigType
      <4> QED BY <4>2 DEF Waits
    <3> QED BY <1>7, <3>1, <3>2 DEF ScheduleTimeout
  <2> QED BY <1>7, <2>1, <2>2, ClaimKept, NotUnclaimed
          DEF TriggerTimeout, ScheduleTimeout, Queued
<1>8. ASSUME NEW w \in Workers, WorkerStep(w) \/ BreakerCools(w) \/ WorkerTimeout(w)
      PROVE  ~Unclaimed(a)'
  BY <1>8, WorkerClaims, RunClaims DEF WorkerStep, Slots
<1>9. ASSUME NEW r \in Requests, RequestStep(r) PROVE ~Unclaimed(a)'
  <2>1. r \in Slots BY DEF Slots
  <2>2. CASE RequestFails(r)
    <3>1. /\ db' = [db EXCEPT ![scan[r].acct] = WithStatus(db[scan[r].acct], "error")]
          /\ scan' = [scan EXCEPT ![r] = IdleScan] /\ UNCHANGED queue /\ Answered(r, "failed")
      BY <2>2, FaultCounts DEF RequestFails
    <3> QED BY <2>1, <3>1, AnswerClaims
  <2> QED BY <1>9, <2>1, <2>2, RunClaims DEF RequestStep
<1>10. CASE Tick
  <2>1. db'[a].status = db[a].status BY <1>0, <1>10 DEF Tick, Row
  <2>2. \A s \in Slots : scan'[s].pc = scan[s].pc /\ scan'[s].acct = scan[s].acct
    BY <1>0, <1>10 DEF Tick, ScanType
  <2>3. Queued(a) => Queued(a)'
    <3>1. Len(queue') = Len(queue) /\ \A i \in 1..Len(queue) : queue'[i].acct = queue[i].acct
      BY <1>0, <1>10 DEF Tick, JobType
    <3> QED BY <3>1 DEF Queued
  <2> QED BY <1>10, <2>1, <2>2, <2>3, ClaimKept, NotUnclaimed DEF Tick
<1> QED BY <1>1, <1>2, <1>3, <1>4, <1>5, <1>6, <1>7, <1>8, <1>9, <1>10, TriggerClaims
        DEF Next, ClientTimeouts

\* NoOrphanedScan: of all steps, with whatever envelopes, editors and timeouts, only a
\* fault, a job dropped as too old, or a PATCH that saves a scanning status it read leaves
\* an account in scanning with nothing on its way: every other step that takes a claim
\* away writes a final status or hands the claim on.
THEOREM NoScanOrphaned == Spec => NoOrphanedScan
<1>1. TypeOK /\ Served /\ [Next]_vars =>
        [\A a \in Accounts : Unclaimed(a)' =>
            \/ Unclaimed(a)
            \/ faults' > faults
            \/ JobExpires(a)
            \/ \E e \in Editors : PatchEnds(e, a) /\ edit[e].snap.status = "scanning"]_vars
  BY NextClaims
<1> QED BY <1>1, TypedInvariant, ServedInvariant, PTL DEF Spec, NoOrphanedScan

------------------------------------------------------------------------------
(* An account whose onboarding is not finished is not scanned. *)

Draft    == "pending_role_setup"
NonDraft == Statuses \ {Draft}

\* Nothing that is under way concerns account a.
Unseen(a) ==
    /\ a \notin due /\ ~Queued(a)
    /\ \A t \in Triggers : trig[t].pc # "idle" => trig[t].acct # a
    /\ \A s \in Slots : scan[s].pc # "idle" => scan[s].acct # a

\* Nothing is under way for an account never created; what may be saved again existed.
AbsentUnseen ==
    /\ \A a \in Accounts : db[a].status = "absent" => Unseen(a)
    /\ \A e \in Editors : edit[e].pc = "read" => edit[e].snap.status \in Statuses
    /\ \A s \in Slots : scan[s].pc = "populate" => scan[s].snap.status \in Statuses

\* The step keeps that, and exposes no account.
Guarded ==
    /\ AbsentUnseen'
    /\ \A a \in Accounts : UnverifiedExposed(a)' => UnverifiedExposed(a)

\* What a write of a row must not do.
RowGuarded(old, new) ==
    /\ new.status = "absent" => old.status = "absent"
    /\ Unverified(new) => Unverified(old)

\* Under way, said in two ways.
LEMMA SeenUnderWay ==
    ASSUME TypeOK, NEW a \in Accounts, ~Unseen(a) PROVE UnderWay(a)
<1>1. trig \in [Triggers -> TrigType] BY DEF TypeOK
<1> QED BY <1>1 DEF Unseen, UnderWay, Claimed, Running, TrigType

LEMMA UnderWaySeen == ASSUME NEW a \in Accounts, UnderWay(a)' PROVE ~Unseen(a)'
BY DEF Unseen, UnderWay, Claimed, Running

\* What a step about account b puts under way concerns b.
Moves(b) ==
    /\ due' \subseteq due \cup {b}
    /\ \A a \in Accounts \ {b} : Queued(a)' => Queued(a)
    /\ \A t \in Triggers : trig'[t].pc # "idle" =>
           trig'[t].acct = b \/ (trig[t].pc # "idle" /\ trig'[t].acct = trig[t].acct)
    /\ \A s \in Slots : scan'[s].pc # "idle" =>
           scan'[s].acct = b \/ (scan[s].pc # "idle" /\ scan'[s].acct = scan[s].acct)

\* Nothing is under way at the start.
LEMMA InitDrafts == Init => AbsentUnseen
BY DEF Init, AbsentUnseen, Unseen, Queued, IdleTrig, IdleScan, IdleEdit

\* What a step that leaves the PATCHes alone has to show.
LEMMA DraftKept ==
    ASSUME TypeOK, AbsentUnseen, UNCHANGED edit,
           \A a \in Accounts : Unseen(a) => Unseen(a)' \/ db[a].status \in NonDraft,
           \A a \in Accounts :
               \/ RowGuarded(db[a], db'[a]) /\ db'[a].status = db[a].status
               \/ RowGuarded(db[a], db'[a]) /\ (~Unseen(a) \/ db[a].status \in NonDraft)
               \/ db'[a].status = "deleted"
               \/ /\ db[a].status = "absent" /\ db'[a].status \in Statuses
                  /\ ~Unverified(db'[a]) \/ (db'[a].status = Draft /\ Unseen(a)'),
           \A s \in Slots : scan'[s].pc = "populate" => scan'[s].snap.status \in Statuses
    PROVE  Guarded
<1>0. Draft \in Statuses /\ Draft \notin NonDraft /\ "absent" \notin Statuses /\ "deleted" \notin Statuses
      /\ NonDraft = Statuses \ {Draft} /\ Draft = "pending_role_setup"
  BY DEF Statuses, Draft, NonDraft
<1>1. ASSUME NEW a \in Accounts, db'[a].status = "absent" PROVE Unseen(a)'
  <2>1. db[a].status = "absent" BY <1>0, <1>1 DEF RowGuarded, AbsentUnseen
  <2>2. Unseen(a) BY <2>1 DEF AbsentUnseen
  <2> QED BY <1>0, <2>1, <2>2
<1>2. ASSUME NEW a \in Accounts, UnverifiedExposed(a)' PROVE UnverifiedExposed(a)
  <2>1. /\ Unverified(db'[a]) /\ db'[a].status \in Statuses
        /\ db'[a].status # Draft \/ ~Unseen(a)'
    BY <1>0, <1>2, UnderWaySeen DEF UnverifiedExposed, Unverified, Exists
  <2>2. RowGuarded(db[a], db'[a]) BY <1>0, <2>1
  <2>3. Unverified(db[a]) /\ db[a].status \in Statuses
    BY <2>1, <2>2 DEF RowGuarded, Unverified, Exists
  <2>4. ~Unseen(a) \/ db[a].status # Draft BY <1>0, <2>1, <2>3
  <2> QED BY <1>0, <2>3, <2>4, SeenUnderWay DEF UnverifiedExposed
<1> QED BY <1>1, <1>2 DEF AbsentUnseen, Guarded

\* A step about one account that something is under way for, or that is no draft.
LEMMA DraftMoved ==
    ASSUME TypeOK, AbsentUnseen, UNCHANGED edit, NEW b \in Accounts,
           ~Unseen(b) \/ db[b].status \in NonDraft, Moves(b),
           \A a \in Accounts \ {b} : db'[a] = db[a],
           RowGuarded(db[b], db'[b]),
           \A s \in Slots : scan'[s].pc = "populate" => scan'[s].snap.status \in Statuses
    PROVE  Guarded
<1>1. ASSUME NEW a \in Accounts, Unseen(a) PROVE Unseen(a)' \/ db[a].status \in NonDraft
  <2>1. CASE a = b BY <1>1, <2>1
  <2>2. CASE a # b BY <1>1, <2>2 DEF Moves, Unseen
  <2> QED BY <2>1, <2>2
<1>2. ASSUME NEW a \in Accounts, a # b PROVE RowGuarded(db[a], db'[a])
  BY <1>2 DEF RowGuarded
<1> QED BY <1>1, <1>2, DraftKept

\* What an LPUSH and a BRPOP put in the queue.
LEMMA AppendOnly ==
    ASSUME TypeOK, NEW a \in Accounts, NEW b \in Accounts, a # b, queue' = Append(queue, Job(b)),
           Queued(a)'
    PROVE  Queued(a)
<1>1. queue \in Seq(JobType) /\ Len(queue) \in Nat /\ Job(b).acct = b BY DEF TypeOK, Job
<1>2. /\ Len(queue') = Len(queue) + 1 /\ queue'[Len(queue) + 1] = Job(b)
      /\ \A i \in 1 .. Len(queue) : queue'[i] = queue[i]
  BY <1>1
<1>3. PICK i \in 1 .. Len(queue') : queue'[i].acct = a BY DEF Queued
<1>4. i # Len(queue) + 1 BY <1>1, <1>2, <1>3
<1> QED BY <1>1, <1>2, <1>3, <1>4 DEF Queued

LEMMA TailOnly ==
    ASSUME TypeOK, NEW a \in Accounts, queue # <<>>, queue' = Tail(queue), Queued(a)'
    PROVE  Queued(a)
<1>1. queue \in Seq(JobType) /\ Len(queue) \in Nat /\ Len(queue) > 0 BY DEF TypeOK
<1>2. Len(queue') = Len(queue) - 1 /\ \A i \in 1 .. Len(queue') : queue'[i] = queue[i + 1]
  BY <1>1
<1>3. PICK i \in 1 .. Len(queue') : queue'[i].acct = a BY DEF Queued
<1>4. i + 1 \in 1 .. Len(queue) BY <1>1, <1>2, <1>3
<1> QED BY <1>2, <1>3, <1>4 DEF Queued

\* A scan is about its account, a request about its own.
LEMMA SlotSeen == ASSUME NEW s \in Slots, scan[s].pc # "idle" PROVE ~Unseen(scan[s].acct)
BY DEF Unseen

\* A trigger that is not idle concerns its account.
LEMMA TriggerSeen == ASSUME NEW t \in Triggers, trig[t].pc # "idle" PROVE ~Unseen(trig[t].acct)
BY DEF Unseen

\* An UPDATE of the status verifies nobody, and creates no row.
LEMMA StatusWritten ==
    ASSUME NEW row \in Row, NEW st \in NonDraft
    PROVE  RowGuarded(row, WithStatus(row, st)) /\ RowGuarded(row, Marked(row))
<1>1. "scanning" \in NonDraft /\ NonDraft \subseteq Statuses /\ "absent" \notin Statuses
  BY DEF NonDraft, Statuses, Draft
<1>2. ASSUME NEW u \in NonDraft PROVE RowGuarded(row, WithStatus(row, u))
  <2>1. CASE ~Exists(row) BY <2>1 DEF WithStatus, RowGuarded
  <2>2. CASE Exists(row)
    <3>1. WithStatus(row, u) = [row EXCEPT !.status = u, !.scanned = TRUE, !.age = 0]
      BY <2>2 DEF WithStatus
    <3>2. /\ WithStatus(row, u).status = u /\ WithStatus(row, u).role = row.role
          /\ WithStatus(row, u).known = row.known
      BY <3>1 DEF Row
    <3> QED BY <1>1, <2>2, <3>2 DEF RowGuarded, Unverified
  <2> QED BY <2>1, <2>2
<1>3. RowGuarded(row, row) BY DEF RowGuarded
<1> QED BY <1>1, <1>2, <1>3 DEF Marked

\* Accounts come and go, and are read for an update.
LEMMA AccountDrafts == ASSUME TypeOK, AbsentUnseen, AccountStep PROVE Guarded
<1>0. /\ edit \in [Editors -> EditType] /\ db \in [Accounts -> Row]
      /\ trig \in [Triggers -> TrigType]
      /\ Draft \in Statuses /\ Draft \notin NonDraft /\ NonDraft \subseteq Statuses
      /\ "absent" \notin Statuses /\ "deleted" \notin Statuses
  BY DEF TypeOK, Statuses, Draft, NonDraft
<1>1. PICK a \in Accounts :
         \/ CreateAccount(a) \/ CreateDraftAccount(a) \/ DeleteAccount(a)
         \/ \E e \in Editors : ReadForUpdate(e, a)
         \/ \E t \in Triggers : ScanAccount(t, a)
  BY DEF AccountStep
<1>2. ASSUME UNCHANGED <<trig, queue, scan, due, edit>>, NEW row, db' = [db EXCEPT ![a] = row],
             \/ row.status = "deleted"
             \/ /\ db[a].status = "absent" /\ row.status \in Statuses
                /\ ~Unverified(row) \/ row.status = Draft
      PROVE  Guarded
  <2>1. \A b \in Accounts : Unseen(b) => Unseen(b)' BY <1>2 DEF Unseen, Queued
  <2>2. \A b \in Accounts \ {a} : db'[b] = db[b] /\ RowGuarded(db[b], db'[b])
    BY <1>0, <1>2 DEF RowGuarded
  <2>3. db'[a] = row BY <1>0, <1>2
  <2>4. db[a].status = "absent" => Unseen(a)' BY <2>1 DEF AbsentUnseen
  <2>5. \A s \in Slots : scan'[s].pc = "populate" => scan'[s].snap.status \in Statuses
    BY <1>2 DEF AbsentUnseen
  <2> QED BY <1>2, <2>1, <2>2, <2>3, <2>4, <2>5, DraftKept
<1>3. CASE CreateAccount(a)
  <2>1. PICK st \in {"connected", "pending_cur_delivery"} : db' = [db EXCEPT ![a] = NoRow(st)]
    BY <1>3 DEF CreateAccount
  <2>2. NoRow(st).status \in Statuses /\ ~Unverified(NoRow(st))
    BY DEF NoRow, Statuses, Unverified
  <2> QED BY <1>2, <1>3, <2>1, <2>2 DEF CreateAccount
<1>4. CASE CreateDraftAccount(a)
  <2>1. PICK row : /\ row = [NoRow("pending_role_setup") EXCEPT !.role = TRUE]
                   /\ db' = [db EXCEPT ![a] = row]
    BY <1>4 DEF CreateDraftAccount
  <2>2. row.status = Draft BY <2>1 DEF NoRow, Draft
  <2> QED BY <1>0, <1>2, <1>4, <2>1, <2>2 DEF CreateDraftAccount
<1>5. CASE DeleteAccount(a)
  <2>1. NoRow("deleted").status = "deleted" BY DEF NoRow
  <2> QED BY <1>2, <1>5, <2>1 DEF DeleteAccount
<1>6. ASSUME NEW e \in Editors, ReadForUpdate(e, a) PROVE Guarded
  <2>1. /\ UNCHANGED <<db, trig, queue, scan, due>> /\ Exists(db[a])
        /\ edit' = [edit EXCEPT ![e] = [pc |-> "read", acct |-> a, snap |-> Snapshot(db[a])]]
    BY <1>6 DEF ReadForUpdate
  <2>2. Snapshot(db[a]).status \in Statuses BY <1>0, <2>1 DEF Snapshot, Row, Exists
  <2>3. ASSUME NEW d \in Editors, edit'[d].pc = "read" PROVE edit'[d].snap.status \in Statuses
    <3>1. CASE d = e BY <1>0, <2>1, <2>2, <3>1
    <3>2. CASE d # e BY <1>0, <2>1, <2>3, <3>2 DEF AbsentUnseen
    <3> QED BY <3>1, <3>2
  <2>4. AbsentUnseen' BY <2>1, <2>3 DEF AbsentUnseen, Unseen, Queued
  <2>5. \A b \in Accounts : UnverifiedExposed(b)' => UnverifiedExposed(b)
    BY <2>1 DEF UnverifiedExposed, UnderWay, Claimed, Queued, Running
  <2> QED BY <2>4, <2>5 DEF Guarded
<1>7. ASSUME NEW t \in Triggers, ScanAccount(t, a) PROVE Guarded
  <2>1. /\ UNCHANGED <<db, queue, scan, due, edit>> /\ db[a].status \in NonDraft
        /\ trig' = [trig EXCEPT ![t] = [pc |-> "checked", acct |-> a]]
    BY <1>7 DEF ScanAccount, Exists, NonDraft, Draft
  <2>2. Moves(a) BY <1>0, <2>1 DEF Moves, Queued
  <2>3. \A s \in Slots : scan'[s].pc = "populate" => scan'[s].snap.status \in Statuses
    BY <2>1 DEF AbsentUnseen
  <2>4. RowGuarded(db[a], db'[a]) BY <2>1 DEF RowGuarded
  <2> QED BY <2>1, <2>2, <2>3, <2>4, DraftMoved
<1> QED BY <1>1, <1>3, <1>4, <1>5, <1>6, <1>7

\* A PATCH that saves an unverified row over the row it read exposes no account but by
\* moving it to CUR.
LEMMA EditDrafts ==
    ASSUME TypeOK, AbsentUnseen, NEW e \in Editors, UpdateAccount(e)
    PROVE  /\ AbsentUnseen'
           /\ \A a \in Accounts : UnverifiedExposed(a)' =>
                 \/ UnverifiedExposed(a)
                 \/ /\ PatchEnds(e, a) /\ Unverified(edit[e].snap)
                    /\ Snapshot(db[a]) # edit[e].snap \/ db'[a].status = "pending_cur_delivery"
<1>0. /\ edit \in [Editors -> EditType] /\ db \in [Accounts -> Row]
      /\ Draft \in Statuses /\ "absent" \notin Statuses
  BY DEF TypeOK, Statuses, Draft
<1>1. PICK a \in Accounts : a = edit[e].acct BY <1>0 DEF EditType
<1>2. PICK snap \in Row : snap = edit[e].snap BY <1>0 DEF EditType
<1>3. /\ edit[e].pc = "read" /\ UNCHANGED <<trig, queue, scan, due>>
      /\ edit' = [edit EXCEPT ![e] = IdleEdit] /\ edit'[e].pc = "idle"
  BY <1>0 DEF UpdateAccount, IdleEdit
<1>4. snap.status \in Statuses BY <1>2, <1>3 DEF AbsentUnseen
<1>5. \A b \in Accounts : (Unseen(b)' <=> Unseen(b)) /\ (UnderWay(b)' <=> UnderWay(b))
  BY <1>3 DEF Unseen, Queued, UnderWay, Claimed, Running
<1>6. CASE UNCHANGED db
  <2>1. AbsentUnseen'
    BY <1>0, <1>3, <1>5, <1>6 DEF AbsentUnseen, IdleEdit
  <2> QED BY <1>5, <1>6, <2>1 DEF UnverifiedExposed
<1>7. ASSUME NEW new \in Patched(snap) \cup Verified(snap), NEW created \in CreatedAges,
             db' = [db EXCEPT ![a] = Saved(db[a], new, created)]
      PROVE  /\ AbsentUnseen'
             /\ \A b \in Accounts : UnverifiedExposed(b)' =>
                   \/ UnverifiedExposed(b)
                   \/ /\ PatchEnds(e, b) /\ Unverified(edit[e].snap)
                      /\ \/ Snapshot(db[b]) # edit[e].snap
                         \/ db'[b].status = "pending_cur_delivery"
  <2>1. new \in Row BY PatchedType, VerifiedType
  <2>2. /\ db'[a] = Saved(db[a], new, created) /\ \A b \in Accounts \ {a} : db'[b] = db[b]
        /\ db'[a].status = new.status /\ db'[a].role = new.role /\ db'[a].known = new.known
    BY <1>0, <1>7, <2>1 DEF Saved, Row
  <2>3. /\ new.status \in Statuses
        /\ Unverified(new) => /\ Unverified(snap)
                              /\ \/ new.status = snap.status \/ snap.status = "connected"
                                 \/ new.status = "pending_cur_delivery"
    <3>1. CASE new = snap BY <1>4, <3>1
    <3>2. CASE new = [snap EXCEPT !.status = "pending_cur_delivery"]
      BY <1>4, <3>2 DEF Row, Unverified, Exists, Statuses
    <3>3. CASE new \in Verified(snap)
      BY <1>4, <3>3 DEF Verified, Row, Unverified, Exists, Statuses
    <3> QED BY <1>7, <3>1, <3>2, <3>3 DEF Patched
  <2>4. AbsentUnseen'
    <3>1. ASSUME NEW b \in Accounts, db'[b].status = "absent" PROVE Unseen(b)'
      BY <1>0, <1>5, <2>2, <2>3, <3>1 DEF AbsentUnseen
    <3> QED BY <1>0, <1>3, <3>1 DEF AbsentUnseen, IdleEdit
  <2>5. ASSUME UnverifiedExposed(a)', Snapshot(db[a]) = snap,
               db'[a].status # "pending_cur_delivery"
        PROVE  UnverifiedExposed(a)
    <3>1. Unverified(new) /\ (new.status # Draft \/ UnderWay(a))
      BY <1>5, <2>2, <2>3, <2>5 DEF UnverifiedExposed, Unverified, Exists, Draft
    <3>2. snap.status = db[a].status /\ snap.role = db[a].role /\ snap.known = db[a].known
      BY <1>0, <2>5 DEF Snapshot, Row
    <3> QED BY <2>2, <2>3, <2>5, <3>1, <3>2 DEF UnverifiedExposed, Unverified, Exists, Draft
  <2>6. ASSUME UnverifiedExposed(a)' PROVE Unverified(snap)
    BY <2>2, <2>3, <2>6 DEF UnverifiedExposed, Unverified, Exists
  <2>7. \A b \in Accounts \ {a} : UnverifiedExposed(b)' => UnverifiedExposed(b)
    BY <1>5, <2>2 DEF UnverifiedExposed
  <2> QED BY <1>1, <1>2, <1>3, <2>4, <2>5, <2>6, <2>7 DEF PatchEnds
<1> QED BY <1>1, <1>2, <1>6, <1>7 DEF UpdateAccount

\* The steps of a scan request and of its goroutine.
LEMMA TriggerDrafts ==
    ASSUME TypeOK, AbsentUnseen, NEW t \in Triggers, TriggerStep(t) PROVE Guarded
<1>0. /\ trig \in [Triggers -> TrigType] /\ db \in [Accounts -> Row] /\ scan \in [Slots -> ScanType]
      /\ "error" \in NonDraft /\ "scanning" \in NonDraft
  BY DEF TypeOK, Statuses, Draft, NonDraft
<1>1. PICK b \in Accounts : b = trig[t].acct BY <1>0 DEF TrigType
<1>2. UNCHANGED <<due, edit>> /\ trig[t].pc # "idle"
  BY DEF TriggerStep, MarkScanning, MarkScanningLost, EnqueueJob, EnqueueFails, MarkTriggerError,
     PostScan
<1>3. ~Unseen(b) BY <1>1, <1>2, TriggerSeen
<1>4. /\ \A u \in Triggers \ {t} : trig'[u] = trig[u]
      /\ trig'[t].pc # "idle" => trig'[t].acct = b
  BY <1>0, <1>1 DEF TriggerStep, MarkScanning, MarkScanningLost, EnqueueJob, EnqueueFails,
     MarkTriggerError, PostScan, TrigType, IdleTrig
<1>5. /\ \A a \in Accounts \ {b} : db'[a] = db[a]
      /\ RowGuarded(db[b], db'[b])
  <2>1. \/ UNCHANGED db \/ db' = [db EXCEPT ![b] = Marked(db[b])]
        \/ db' = [db EXCEPT ![b] = WithStatus(db[b], "error")]
    BY <1>1 DEF TriggerStep, MarkScanning, MarkScanningLost, EnqueueJob, EnqueueFails,
       MarkTriggerError, PostScan
  <2> QED BY <1>0, <2>1, StatusWritten DEF RowGuarded
<1>6. \A a \in Accounts \ {b} : Queued(a)' => Queued(a)
  <2>1. UNCHANGED queue \/ queue' = Append(queue, Job(b))
    BY <1>1 DEF TriggerStep, MarkScanning, MarkScanningLost, EnqueueJob, EnqueueFails,
       MarkTriggerError, PostScan
  <2> QED BY <2>1, AppendOnly DEF Queued
<1>7. \A s \in Slots : scan'[s] = scan[s] \/ scan'[s] = NewScan(b, "read", t)
  BY <1>0, <1>1 DEF TriggerStep, MarkScanning, MarkScanningLost, EnqueueJob, EnqueueFails,
     MarkTriggerError, PostScan
<1>8. NewScan(b, "read", t).acct = b /\ NewScan(b, "read", t).pc = "read"
  BY DEF NewScan, IdleScan
<1>9. Moves(b) BY <1>2, <1>4, <1>6, <1>7, <1>8 DEF Moves
<1>10. \A s \in Slots : scan'[s].pc = "populate" => scan'[s].snap.status \in Statuses
  BY <1>7, <1>8 DEF AbsentUnseen
<1> QED BY <1>2, <1>3, <1>5, <1>9, <1>10, DraftMoved

\* A step of the scan in slot s: it is about the account it was about, and a request that
\* it answers is at most done.
LEMMA ScanDrafts ==
    ASSUME TypeOK, AbsentUnseen, NEW s \in Slots, scan[s].pc # "idle",
           UNCHANGED <<edit, due, queue>>,
           \A o \in Slots \ {s} : scan'[o] = scan[o],
           scan'[s].pc # "idle" => scan'[s].acct = scan[s].acct,
           scan'[s].pc = "populate" => scan'[s].snap.status \in Statuses,
           \A t \in Triggers : trig'[t].pc # "idle" =>
               trig[t].pc # "idle" /\ trig'[t].acct = trig[t].acct,
           \A a \in Accounts \ {scan[s].acct} : db'[a] = db[a],
           RowGuarded(db[scan[s].acct], db'[scan[s].acct])
    PROVE  Guarded
<1>1. PICK b \in Accounts : b = scan[s].acct BY DEF TypeOK, ScanType
<1>2. ~Unseen(b) BY <1>1, SlotSeen
<1>3. Moves(b) BY <1>1 DEF Moves, Queued
<1>4. \A o \in Slots : scan'[o].pc = "populate" => scan'[o].snap.status \in Statuses
  BY DEF AbsentUnseen
<1> QED BY <1>1, <1>2, <1>3, <1>4, DraftMoved

\* The queue worker's own steps.
LEMMA WorkerDrafts ==
    ASSUME TypeOK, AbsentUnseen, NEW w \in Workers,
           Dequeue(w) \/ WorkerMark(w) \/ Gate(w) \/ WorkerFails(w) \/ WorkerTimeout(w)
    PROVE  Guarded
<1>0. /\ db \in [Accounts -> Row] /\ scan \in [Slots -> ScanType] /\ w \in Slots
      /\ queue \in Seq(JobType)
      /\ {"error", "scan_timeout", "circuit_breaker_open", "scanning"} \subseteq NonDraft
  BY DEF TypeOK, Slots, Statuses, Draft, NonDraft
<1>1. CASE Dequeue(w)
  <2>1. queue # <<>> /\ queue' = Tail(queue) /\ UNCHANGED <<db, trig, due, edit>>
    BY <1>1 DEF Dequeue
  <2>2. PICK b \in Accounts : b = Head(queue).acct
    <3>1. Head(queue) \in JobType BY <1>0, <2>1
    <3> QED BY <3>1 DEF JobType
  <2>3. ~Unseen(b)
    <3>1. Len(queue) \in Nat /\ Len(queue) > 0 /\ queue[1].acct = b BY <1>0, <2>1, <2>2
    <3>2. 1 \in 1 .. Len(queue) BY <3>1
    <3> QED BY <3>1, <3>2 DEF Unseen, Queued
  <2>4. \A s \in Slots : scan'[s] = scan[s] \/ scan'[s] = NewScan(b, "picked", NoCaller)
    BY <1>0, <1>1, <2>2 DEF Dequeue
  <2>5. NewScan(b, "picked", NoCaller).acct = b /\ NewScan(b, "picked", NoCaller).pc = "picked"
    BY DEF NewScan, IdleScan
  <2>6. \A a \in Accounts : Queued(a)' => Queued(a) BY <2>1, TailOnly
  <2>7. Moves(b) BY <2>1, <2>4, <2>5, <2>6 DEF Moves
  <2>8. \A s \in Slots : scan'[s].pc = "populate" => scan'[s].snap.status \in Statuses
    BY <2>4, <2>5 DEF AbsentUnseen
  <2>9. RowGuarded(db[b], db'[b]) BY <2>1 DEF RowGuarded
  <2> QED BY <2>1, <2>3, <2>7, <2>8, <2>9, DraftMoved
<1>2. CASE WorkerMark(w) \/ Gate(w) \/ WorkerFails(w) \/ WorkerTimeout(w)
  <2>1. /\ scan[w].pc # "idle" /\ UNCHANGED <<edit, due, queue, trig>>
        /\ \A o \in Slots \ {w} : scan'[o] = scan[o]
    BY <1>0, <1>2 DEF WorkerMark, Gate, WorkerFails, WorkerTimeout
  <2>2. /\ scan'[w].pc # "idle" => scan'[w].acct = scan[w].acct
        /\ scan'[w].pc # "populate"
    <3>1. CASE WorkerMark(w) BY <1>0, <3>1 DEF WorkerMark, ScanType
    <3>2. CASE Gate(w) BY <1>0, <3>2 DEF Gate, ScanType
    <3>3. CASE WorkerFails(w) BY <1>0, <3>3 DEF WorkerFails, IdleScan
    <3>4. CASE WorkerTimeout(w) BY <1>0, <3>4, BrokenType DEF WorkerTimeout
    <3> QED BY <1>2, <3>1, <3>2, <3>3, <3>4
  <2>3. PICK a \in Accounts : a = scan[w].acct BY <1>0 DEF ScanType
  <2>4. \/ UNCHANGED db \/ db' = [db EXCEPT ![a] = Marked(db[a])]
        \/ \E st \in NonDraft : db' = [db EXCEPT ![a] = WithStatus(db[a], st)]
    BY <1>0, <1>2, <2>3 DEF WorkerMark, Gate, WorkerFails, WorkerTimeout
  <2>5. /\ \A b \in Accounts \ {a} : db'[b] = db[b]
        /\ RowGuarded(db[a], db'[a])
    <3>1. CASE UNCHANGED db BY <3>1 DEF RowGuarded
    <3>2. CASE db' = [db EXCEPT ![a] = Marked(db[a])] BY <1>0, <3>2, StatusWritten
    <3>3. ASSUME NEW st \in NonDraft, db' = [db EXCEPT ![a] = WithStatus(db[a], st)]
          PROVE  /\ \A b \in Accounts \ {a} : db'[b] = db[b]
                 /\ RowGuarded(db[a], db'[a])
      BY <1>0, <3>3, StatusWritten
    <3> QED BY <2>4, <3>1, <3>2, <3>3
  <2> QED BY <1>0, <2>1, <2>2, <2>3, <2>5, ScanDrafts
<1> QED BY <1>1, <1>2

\* runScan saves rows of accounts with keys only, and writes no row that is not there.
LEMMA RunDrafts ==
    ASSUME TypeOK, Served, AbsentUnseen, NEW s \in Slots, RunStep(s) PROVE Guarded
<1>0. /\ db \in [Accounts -> Row] /\ scan \in [Slots -> ScanType] /\ scan[s] \in ScanType
      /\ trig \in [Triggers -> TrigType]
      /\ {"connected", "pending_cur_delivery"} \subseteq NonDraft
  BY DEF TypeOK, Statuses, Draft, NonDraft
<1>1. PICK a \in Accounts : a = scan[s].acct BY <1>0 DEF ScanType
<1>2. /\ scan[s].pc # "idle" /\ UNCHANGED <<edit, due, queue>>
      /\ \A o \in Slots \ {s} : scan'[o] = scan[o]
      /\ scan'[s].pc # "idle" => scan'[s].acct = scan[s].acct
  <2>1. UNCHANGED <<edit, due, queue>>
    BY DEF RunStep, ReadAccount, PopulateAccountID, IngestionCore, Finalize
  <2>2. CASE Finalize(s) BY <1>0, <2>1, <2>2 DEF Finalize, IdleScan
  <2> QED BY <2>1, <2>2, RunSlot DEF RunStep
<1>3. \A t \in Triggers : trig'[t].pc # "idle" =>
          trig[t].pc # "idle" /\ trig'[t].acct = trig[t].acct
  <2>1. UNCHANGED trig \/ Answered(s, "idle")
    BY DEF RunStep, ReadAccount, PopulateAccountID, IngestionCore, Finalize
  <2> QED BY <1>0, <2>1 DEF Answered, IdleTrig
<1>5. CASE ReadAccount(s)
  <2>1. UNCHANGED db BY <1>5 DEF ReadAccount
  <2>2. scan'[s].pc = "populate" => scan'[s].snap.status \in Statuses
    <3>1. CASE scan'[s].pc = "populate"
      <4>1. Exists(db[a]) /\ scan'[s].snap = Snapshot(db[a])
        BY <1>0, <1>1, <1>5, <3>1 DEF ReadAccount, ScanType
      <4>2. Snapshot(db[a]).status = db[a].status BY <1>0 DEF Snapshot, Row
      <4> QED BY <4>1, <4>2 DEF Exists
    <3> QED BY <3>1
  <2>3. RowGuarded(db[a], db'[a]) BY <2>1 DEF RowGuarded
  <2> QED BY <1>1, <1>2, <1>3, <2>1, <2>2, <2>3, ScanDrafts
<1>6. CASE PopulateAccountID(s)
  <2>1. scan'[s].pc # "populate" BY <1>6, RunSlot DEF PopulateAccountID, ReadAccount
  <2>2. PICK snap \in Row : snap = scan[s].snap BY <1>0 DEF ScanType
  <2>3. snap.status \in Statuses BY <1>6, <2>2 DEF PopulateAccountID, AbsentUnseen
  <2>4. /\ \A b \in Accounts \ {a} : db'[b] = db[b]
        /\ RowGuarded(db[a], db'[a])
    <3>1. CASE UNCHANGED db BY <3>1 DEF RowGuarded
    <3>2. ASSUME NEW created \in CreatedAges,
                 ~snap.role,
                 db' = [db EXCEPT ![a] = Saved(db[a], [snap EXCEPT !.known = TRUE], created)]
          PROVE  /\ \A b \in Accounts \ {a} : db'[b] = db[b]
                 /\ RowGuarded(db[a], db'[a])
      <4>1. PICK new : new = [snap EXCEPT !.known = TRUE] OBVIOUS
      <4>2. new \in Row /\ new.status = snap.status /\ ~new.role BY <3>2, <4>1 DEF Row
      <4>3. /\ Saved(db[a], new, created).status = new.status
            /\ ~Saved(db[a], new, created).role
        BY <4>2 DEF Saved, Row
      <4> QED BY <1>0, <2>3, <3>2, <4>1, <4>2, <4>3 DEF RowGuarded, Unverified, Statuses
    <3> QED BY <1>1, <1>6, <2>2, <3>1, <3>2 DEF PopulateAccountID
  <2> QED BY <1>1, <1>2, <1>3, <2>1, <2>4, ScanDrafts
<1>7. CASE IngestionCore(s)
  <2>1. UNCHANGED db /\ scan'[s].pc # "populate" BY <1>7, RunSlot DEF IngestionCore, ReadAccount
  <2>2. RowGuarded(db[a], db'[a]) BY <2>1 DEF RowGuarded
  <2> QED BY <1>1, <1>2, <1>3, <2>1, <2>2, ScanDrafts
<1>8. CASE Finalize(s)
  <2>1. scan'[s].pc # "populate" BY <1>0, <1>8 DEF Finalize, IdleScan
  <2>2. scan[s].status \in NonDraft BY <1>0, <1>8 DEF Finalize, Served
  <2>3. UNCHANGED db \/ db' = [db EXCEPT ![a] = WithStatus(db[a], scan[s].status)]
    BY <1>1, <1>8 DEF Finalize
  <2>4. /\ \A b \in Accounts \ {a} : db'[b] = db[b]
        /\ RowGuarded(db[a], db'[a])
    <3>1. CASE UNCHANGED db BY <3>1 DEF RowGuarded
    <3>2. CASE db' = [db EXCEPT ![a] = WithStatus(db[a], scan[s].status)]
      BY <1>0, <2>2, <3>2, StatusWritten
    <3> QED BY <2>3, <3>1, <3>2
  <2> QED BY <1>1, <1>2, <1>3, <2>1, <2>4, ScanDrafts
<1> QED BY <1>5, <1>6, <1>7, <1>8 DEF RunStep

\* The handler's failure: SetAccountError makes no draft.
LEMMA RequestFailsDrafts ==
    ASSUME TypeOK, Served, AbsentUnseen, NEW r \in Requests, RequestFails(r)
    PROVE  Guarded
<1>0. /\ db \in [Accounts -> Row] /\ scan \in [Slots -> ScanType] /\ r \in Slots
      /\ trig \in [Triggers -> TrigType] /\ "error" \in NonDraft
  BY DEF TypeOK, Slots, Statuses, Draft, NonDraft
<1>1. PICK a \in Accounts : a = scan[r].acct BY <1>0 DEF ScanType
<1>2. /\ scan[r].pc # "idle" /\ UNCHANGED <<edit, due, queue>>
      /\ scan' = [scan EXCEPT ![r] = IdleScan] /\ Answered(r, "failed")
  BY DEF RequestFails
<1>3. \A t \in Triggers : trig'[t].pc # "idle" =>
         trig[t].pc # "idle" /\ trig'[t].acct = trig[t].acct
  BY <1>0, <1>2 DEF Answered, TrigType, Served
<1>4. UNCHANGED db \/ db' = [db EXCEPT ![a] = WithStatus(db[a], "error")]
  BY <1>1 DEF RequestFails
<1>5. /\ \A b \in Accounts \ {a} : db'[b] = db[b]
      /\ RowGuarded(db[a], db'[a])
  BY <1>0, <1>4, StatusWritten DEF RowGuarded
<1>6. scan'[r].pc = "idle" /\ \A o \in Slots \ {r} : scan'[o] = scan[o]
  BY <1>0, <1>2 DEF IdleScan
<1> QED BY <1>0, <1>1, <1>2, <1>3, <1>5, <1>6, ScanDrafts

\* Steps that end what is under way, or leave it as it is, and create no draft.
LEMMA NothingNew ==
    ASSUME TypeOK, AbsentUnseen, UNCHANGED edit, due' \subseteq due,
           \A a \in Accounts : Queued(a)' => Queued(a),
           \A t \in Triggers : trig'[t].pc # "idle" =>
               trig[t].pc # "idle" /\ trig'[t].acct = trig[t].acct,
           \A s \in Slots : scan'[s].pc # "idle" =>
               /\ scan[s].pc = scan'[s].pc
               /\ scan'[s].acct = scan[s].acct /\ scan'[s].snap = scan[s].snap,
           \A a \in Accounts : /\ RowGuarded(db[a], db'[a])
                               /\ db'[a].status = db[a].status \/ db[a].status \in NonDraft
    PROVE  Guarded
<1>1. \A a \in Accounts : Unseen(a) => Unseen(a)' BY DEF Unseen
<1>2. \A s \in Slots : scan'[s].pc = "populate" => scan'[s].snap.status \in Statuses
  BY DEF AbsentUnseen
<1> QED BY <1>1, <1>2, DraftKept

\* The sweep, time, and the crashes keep it ...
LEMMA ResetDrafts == ASSUME TypeOK, AbsentUnseen, ResetStuckScans PROVE Guarded
<1>1. /\ UNCHANGED <<trig, queue, scan, due, edit>> /\ db \in [Accounts -> Row]
      /\ \A a \in Accounts : db'[a] = IF Stuck(db[a]) THEN [db[a] EXCEPT !.status = "error"]
                                                       ELSE db[a]
  BY DEF ResetStuckScans, TypeOK
<1>2. ASSUME NEW a \in Accounts
      PROVE  /\ RowGuarded(db[a], db'[a])
             /\ db'[a].status = db[a].status \/ db[a].status \in NonDraft
  <2>1. CASE ~Stuck(db[a]) BY <1>1, <2>1 DEF RowGuarded
  <2>2. CASE Stuck(db[a])
    <3>1. /\ db[a].status = "scanning" /\ db'[a].status = "error"
          /\ db'[a].role = db[a].role /\ db'[a].known = db[a].known
      BY <1>1, <2>2 DEF Stuck, Row
    <3> QED BY <3>1 DEF RowGuarded, Unverified, Exists, NonDraft, Draft, Statuses
  <2> QED BY <2>1, <2>2
<1>3. \A a \in Accounts : Queued(a)' => Queued(a) BY <1>1 DEF Queued
<1> QED BY <1>1, <1>2, <1>3, NothingNew

LEMMA TickDrafts == ASSUME TypeOK, AbsentUnseen, Tick PROVE Guarded
<1>0. /\ UNCHANGED <<trig, due, edit>> /\ db \in [Accounts -> Row] /\ scan \in [Slots -> ScanType]
      /\ queue \in Seq(JobType)
  BY DEF Tick, TypeOK
<1>1. ASSUME NEW a \in Accounts
      PROVE  RowGuarded(db[a], db'[a]) /\ db'[a].status = db[a].status
  <2>1. /\ db'[a].status = db[a].status /\ db'[a].role = db[a].role
        /\ db'[a].known = db[a].known
    BY <1>0 DEF Tick, Row
  <2> QED BY <2>1 DEF RowGuarded, Unverified, Exists
<1>2. ASSUME NEW s \in Slots
      PROVE  scan'[s].pc = scan[s].pc /\ scan'[s].acct = scan[s].acct /\ scan'[s].snap = scan[s].snap
  <2>1. PICK sc \in ScanType : sc = scan[s] BY <1>0
  <2>2. scan'[s] = sc \/ scan'[s] = [sc EXCEPT !.age = Older(sc.age)] BY <2>1 DEF Tick
  <2> QED BY <2>1, <2>2 DEF ScanType
<1>3. ASSUME NEW a \in Accounts, Queued(a)' PROVE Queued(a)
  <2>1. DOMAIN queue = 1 .. Len(queue) /\ Len(queue) \in Nat BY <1>0
  <2>2. queue' = [i \in 1 .. Len(queue) |->
                     [queue[i] EXCEPT !.age = IF @ <= MaxSkew THEN @ + 1 ELSE @]]
    BY <2>1 DEF Tick
  <2>3. Len(queue') = Len(queue) BY <2>1, <2>2
  <2>4. PICK i \in 1 .. Len(queue) : queue'[i].acct = a BY <1>3, <2>3 DEF Queued
  <2>5. PICK j \in JobType : j = queue[i] BY <1>0, <2>4
  <2>6. queue'[i].acct = queue[i].acct BY <2>2, <2>4, <2>5 DEF JobType
  <2> QED BY <2>4, <2>6 DEF Queued
<1> QED BY <1>0, <1>1, <1>2, <1>3, NothingNew

\* Clients give up, and processes die.
LEMMA ClientTimeoutsDrafts ==
    ASSUME TypeOK, Served, AbsentUnseen, ClientTimeouts PROVE Guarded
<1>0. /\ scan \in [Slots -> ScanType] /\ trig \in [Triggers -> TrigType] BY DEF TypeOK
<1>1. PICK r \in Requests : TriggerTimeout(r) \/ ScheduleTimeout(r) BY DEF ClientTimeouts
<1>2. r \in Slots /\ UNCHANGED <<db, queue, due, edit>>
  BY <1>1 DEF Slots, TriggerTimeout, ScheduleTimeout
<1>3. PICK sc \in ScanType : sc = scan[r] BY <1>0, <1>2
<1>4. scan' = [scan EXCEPT ![r] = Detached(sc)]
  BY <1>1, <1>3 DEF TriggerTimeout, ScheduleTimeout
<1>5. Detached(sc).pc = sc.pc /\ Detached(sc).acct = sc.acct /\ Detached(sc).snap = sc.snap
  BY DEF Detached, ScanType
<1>6. \A s \in Slots :
         scan'[s].pc = scan[s].pc /\ scan'[s].acct = scan[s].acct /\ scan'[s].snap = scan[s].snap
  BY <1>0, <1>3, <1>4, <1>5
<1>7. ASSUME NEW t \in Triggers, trig'[t].pc # "idle"
      PROVE  trig[t].pc # "idle" /\ trig'[t].acct = trig[t].acct
  <2>1. CASE TriggerTimeout(r)
    <3>1. trig[scan[r].caller].pc = "waiting" BY <1>2, <2>1 DEF TriggerTimeout, Served
    <3>2. CASE t = scan[r].caller
      BY <1>0, <2>1, <3>1, <3>2 DEF TriggerTimeout, TrigType
    <3>3. CASE t # scan[r].caller BY <1>0, <1>7, <2>1, <3>3 DEF TriggerTimeout
    <3> QED BY <3>2, <3>3
  <2>2. CASE ScheduleTimeout(r) BY <1>7, <2>2 DEF ScheduleTimeout
  <2> QED BY <1>1, <2>1, <2>2
<1>8. \A a \in Accounts : Queued(a)' => Queued(a) BY <1>2 DEF Queued
<1>9. \A a \in Accounts : RowGuarded(db[a], db'[a]) BY <1>2 DEF RowGuarded
<1> QED BY <1>2, <1>6, <1>7, <1>8, <1>9, NothingNew

LEMMA IngestionCrashDrafts ==
    ASSUME TypeOK, AbsentUnseen, IngestionCrash PROVE Guarded
<1>1. /\ UNCHANGED <<db, queue, edit>> /\ due' = {} /\ trig \in [Triggers -> TrigType]
      /\ \A s \in Slots : scan'[s].pc = "idle"
  BY DEF IngestionCrash, TypeOK, IdleScan
<1>2. \A t \in Triggers : trig'[t].pc # "idle" =>
         trig[t].pc # "idle" /\ trig'[t].acct = trig[t].acct
  BY <1>1 DEF IngestionCrash, TrigType
<1>3. \A a \in Accounts : Queued(a)' => Queued(a) BY <1>1 DEF Queued
<1>4. \A a \in Accounts : RowGuarded(db[a], db'[a]) BY <1>1 DEF RowGuarded
<1> QED BY <1>1, <1>2, <1>3, <1>4, NothingNew

LEMMA ApiCrashDrafts == ASSUME TypeOK, AbsentUnseen, ApiCrash PROVE Guarded
<1>1. /\ UNCHANGED <<db, queue, due>> /\ scan \in [Slots -> ScanType]
      /\ \A t \in Triggers : trig'[t].pc = "idle"
      /\ \A e \in Editors : edit'[e].pc # "read"
  BY DEF ApiCrash, TypeOK, IdleTrig, IdleEdit
<1>2. ASSUME NEW s \in Slots
      PROVE  scan'[s].pc = scan[s].pc /\ scan'[s].acct = scan[s].acct /\ scan'[s].snap = scan[s].snap
  <2>1. PICK sc \in ScanType : sc = scan[s] BY <1>1
  <2>2. scan'[s] = sc \/ scan'[s] = Detached(sc) BY <2>1 DEF ApiCrash
  <2> QED BY <2>1, <2>2 DEF Detached, ScanType
<1>3. \A a \in Accounts : Unseen(a) => Unseen(a)' BY <1>1, <1>2 DEF Unseen, Queued
<1>4. \A s \in Slots : scan'[s].pc = "populate" => scan'[s].snap.status \in Statuses
  BY <1>2 DEF AbsentUnseen
<1>5. AbsentUnseen' BY <1>1, <1>3, <1>4 DEF AbsentUnseen
<1>6. \A a \in Accounts : UnverifiedExposed(a)' => UnverifiedExposed(a)
  BY <1>1, <1>3, SeenUnderWay, UnderWaySeen DEF UnverifiedExposed
<1> QED BY <1>5, <1>6 DEF Guarded

\* The scheduler's filter leaves drafts out, and what it lists it enqueues.
LEMMA SchedulerDrafts == ASSUME TypeOK, AbsentUnseen, SchedulerStep PROVE Guarded
<1>1. UNCHANGED <<db, trig, edit>> /\ scan \in [Slots -> ScanType]
  BY DEF SchedulerStep, ListScheduled, ScheduleJob, ScheduleRequest, ScheduleFails, TypeOK
<1>2. CASE ListScheduled
  <2>1. UNCHANGED <<queue, scan>> /\ due' = {a \in Accounts : Scheduled(db[a])}
    BY <1>2 DEF ListScheduled
  <2>2. \A a \in Accounts : Unseen(a) => Unseen(a)' \/ db[a].status \in NonDraft
    BY <1>1, <2>1 DEF Unseen, Queued, Scheduled, Exists, NonDraft, Draft
  <2>3. \A s \in Slots : scan'[s].pc = "populate" => scan'[s].snap.status \in Statuses
    BY <2>1 DEF AbsentUnseen
  <2>4. \A a \in Accounts : RowGuarded(db[a], db'[a]) BY <1>1 DEF RowGuarded
  <2> QED BY <1>1, <2>2, <2>3, <2>4, DraftKept
<1>3. ASSUME NEW a \in Accounts,
             ScheduleJob(a) \/ ScheduleFails(a) \/ \E r \in Requests : ScheduleRequest(a, r)
      PROVE  Guarded
  <2>1. a \in due /\ due' \subseteq due
    BY <1>3 DEF ScheduleJob, ScheduleRequest, ScheduleFails
  <2>2. \A b \in Accounts \ {a} : Queued(b)' => Queued(b)
    <3>1. UNCHANGED queue \/ queue' = Append(queue, Job(a))
      BY <1>3 DEF ScheduleJob, ScheduleRequest, ScheduleFails
    <3> QED BY <3>1, AppendOnly DEF Queued
  <2>3. \A s \in Slots : scan'[s] = scan[s] \/ scan'[s] = NewScan(a, "read", Scheduler)
    BY <1>1, <1>3 DEF ScheduleJob, ScheduleRequest, ScheduleFails
  <2>4. NewScan(a, "read", Scheduler).acct = a /\ NewScan(a, "read", Scheduler).pc = "read"
    BY DEF NewScan, IdleScan
  <2>5. Moves(a) BY <1>1, <2>1, <2>2, <2>3, <2>4 DEF Moves
  <2>6. \A s \in Slots : scan'[s].pc = "populate" => scan'[s].snap.status \in Statuses
    BY <2>3, <2>4 DEF AbsentUnseen
  <2>7. ~Unseen(a) BY <2>1 DEF Unseen
  <2>8. RowGuarded(db[a], db'[a]) BY <1>1 DEF RowGuarded
  <2> QED BY <1>1, <2>5, <2>6, <2>7, <2>8, DraftMoved
<1> QED BY <1>2, <1>3 DEF SchedulerStep

\* ... and so does every step but a PATCH that saves.
LEMMA NextDrafts ==
    ASSUME TypeOK, Served, AbsentUnseen, [Next]_vars, ~EditStep PROVE Guarded
<1>1. CASE AccountStep BY <1>1, AccountDrafts
<1>3. CASE \E t \in Triggers : TriggerStep(t) BY <1>3, TriggerDrafts
<1>4. CASE ResetStuckScans BY <1>4, ResetDrafts
<1>5. CASE ApiCrash BY <1>5, ApiCrashDrafts
<1>6. CASE SchedulerStep BY <1>6, SchedulerDrafts
<1>7. CASE ClientTimeouts BY <1>7, ClientTimeoutsDrafts
<1>8. ASSUME NEW w \in Workers, WorkerStep(w) \/ WorkerTimeout(w) PROVE Guarded
  BY <1>8, WorkerDrafts, RunDrafts DEF WorkerStep, Slots
<1>9. CASE UNCHANGED <<db, trig, queue, scan, due, edit>>
  BY <1>9 DEF Guarded, AbsentUnseen, Unseen, Queued, UnverifiedExposed, UnderWay, Claimed, Running
<1>10. ASSUME NEW r \in Requests, RequestStep(r) PROVE Guarded
  BY <1>10, RunDrafts, RequestFailsDrafts DEF RequestStep, Slots
<1>11. CASE IngestionCrash BY <1>11, IngestionCrashDrafts
<1>12. CASE Tick BY <1>12, TickDrafts
<1> QED BY <1>1, <1>3, <1>4, <1>5, <1>6, <1>7, <1>8, <1>9, <1>10, <1>11, <1>12
        DEF Next, BreakerCools, vars

\* So every step keeps AbsentUnseen.
LEMMA AbsentInvariant == Spec => []AbsentUnseen
<1>1. TypeOK /\ Served /\ AbsentUnseen /\ [Next]_vars => AbsentUnseen'
  BY NextDrafts, EditDrafts DEF EditStep, Guarded
<1> QED BY <1>1, InitDrafts, TypedInvariant, ServedInvariant, PTL DEF Spec

\* DraftNeverScanned: whatever the order of PATCH, trigger and scheduler, through crashes
\* and lost writes, only a PATCH exposes an account whose onboarding is not finished to
\* scans: one that saves over a row it had not read, or one that moves the account to CUR.
THEOREM DraftsNotScanned == Spec => DraftNeverScanned
<1>1. TypeOK /\ Served /\ AbsentUnseen /\ [Next]_vars =>
        [\A a \in Accounts : UnverifiedExposed(a)' =>
            \/ UnverifiedExposed(a)
            \/ \E e \in Editors :
                  /\ PatchEnds(e, a) /\ Unverified(edit[e].snap)
                  /\ \/ Snapshot(db[a]) # edit[e].snap
                     \/ db'[a].status = "pending_cur_delivery"]_vars
  BY NextDrafts, EditDrafts DEF EditStep, Guarded
<1> QED BY <1>1, TypedInvariant, ServedInvariant, AbsentInvariant, PTL DEF Spec, DraftNeverScanned
=============================================================================
