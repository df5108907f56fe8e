---------------------------- MODULE ScanLifecycle ----------------------------
(***************************************************************************)
(* The life of a scan of one cloud account: who may start one, how the job *)
(* travels from the API (or the scheduler) to ingestion, what the scan     *)
(* writes to the account's row, and how a scan that got lost is recovered. *)
(*                                                                         *)
(* Actors: API requests (POST .../scan and its detached goroutine, account *)
(* CRUD, the stuck-scan ticker), the ingestion scheduler, the Redis queue  *)
(* with its workers, the POST /scan handler used when there is no Redis.   *)
(* They share nothing but the accounts table, the queue and HTTP answers.  *)
(*                                                                         *)
(* Time passes only in Tick.  Every instant the code compares against now  *)
(* is kept as an age in ticks (about five minutes each); an age saturates  *)
(* one above the largest bound it is compared with.                        *)
(*                                                                         *)
(* Left out: error_message, audit rows, the organization (one tenant),     *)
(* role_arn (all that a failed verification changes of a draft; the table  *)
(* demands one of a role account that is no draft), and what the scan      *)
(* finds, except for whether it got any cost data.                         *)
(***************************************************************************)
EXTENDS Naturals, Sequences, Breaker

CONSTANTS
    Accounts,       \* account ids
    CurInUse,       \* TRUE: customers use the billing source cur
    Triggers,       \* slots for POST /v1/accounts/{id}/scan and its goroutine
    Workers,        \* queue workers, one per ingestion process ({} without Redis)
    Requests,       \* slots for POST /scan handlers in ingestion ({} with Redis)
    Editors,        \* slots for PATCH /v1/accounts/{id} requests in flight
    NoCaller,       \* nobody waits for a scan's answer
    Scheduler,      \* the scheduler loop waits for it
    EnforceEnvelope,\* TRUE: secrets set, INGESTION_HMAC_SOFT_ENFORCE off
    MaxSkew,        \* httpauth.DefaultMaxSkew, in ticks
    ScanTimeout,    \* the worker's scan deadline
    ClientTimeout,  \* scanEnqueueTimeout and clientTimeout
    StuckTimeout,   \* stuckScanTimeout
    Interval,       \* scan_interval_hours
    MaxQueue,       \* bound: jobs in the queue
    MaxFaults       \* bound: crashes, lost writes and failed enqueues

ASSUME TimeoutAssumption ==
    /\ {MaxSkew, ScanTimeout, ClientTimeout, StuckTimeout, Interval} \subseteq Nat
    /\ ScanTimeout < StuckTimeout
    /\ StuckTimeout <= Interval /\ ClientTimeout <= Interval
    /\ MaxQueue \in Nat /\ MaxFaults \in Nat

ASSUME SlotAssumption ==
    /\ Workers \cap Requests = {}
    /\ NoCaller \notin Triggers /\ Scheduler \notin Triggers
    /\ NoCaller # Scheduler
    /\ EnforceEnvelope \in BOOLEAN
    /\ Accounts # {} /\ CurInUse \in BOOLEAN

VARIABLES
    db,      \* the accounts table
    trig,    \* the API's scan requests
    queue,   \* the Redis list, head = next job out
    scan,    \* the scans being executed in ingestion
    cb,      \* each worker's circuit breaker
    due,     \* accounts the scheduler's current pass still has to enqueue
    edit,    \* the PATCH requests in flight
    faults   \* faults so far

vars == <<db, trig, queue, scan, cb, due, edit, faults>>
------------------------------------------------------------------------------
(* Accounts *)

Statuses == {"pending_role_setup", "pending_cur_delivery", "connected", "scanning",
             "error", "scan_timeout", "circuit_breaker_open"}
MaxAge == Interval + 1
Ages   == 0..MaxAge
CreatedAges == IF CurInUse THEN Ages ELSE {0}
Older(age) == IF age < MaxAge THEN age + 1 ELSE age

\* scanned: last_scanned_at is set, and age is its age; else age is created_at's.
\* (created_at is compared for CUR accounts only: without them its age is left at 0.)
\* known: account_id (the AWS account number) is filled in.
Row == [status  : Statuses \cup {"absent", "deleted"},
        scanned : BOOLEAN,
        age     : Ages,
        role    : BOOLEAN,
        known   : BOOLEAN]

NoRow(status) == [status |-> status, scanned |-> FALSE, age |-> 0,
                  role |-> FALSE, known |-> FALSE]

Exists(row)  == row.status \in Statuses

\* Mutant: the cutoff computed in hours, so that no age reaches it.
StuckAfterHours(row) == row.status = "scanning" /\ row.scanned /\ row.age > StuckTimeout + MaxAge

Stuck(row)   == row.status = "scanning" /\ row.scanned /\ row.age > StuckTimeout
Overdue(row) == IF row.scanned \/ row.status = "pending_cur_delivery"
                THEN row.age > Interval
                ELSE TRUE

\* UpdateAccountStatus / SetAccountError on a row: no row, no effect.
WithStatus(row, status) ==
    IF Exists(row)
    THEN [row EXCEPT !.status = status, !.scanned = TRUE, !.age = 0]
    ELSE row

\* TryMarkAccountScanning on a row.
Markable(row) == Exists(row) /\ row.status # "scanning"

\* Mutant: the UPDATE leaves last_scanned_at alone.
MarkedOnly(row) == IF Markable(row) THEN [row EXCEPT !.status = "scanning"] ELSE row

Marked(row) == IF Markable(row) THEN WithStatus(row, "scanning") ELSE row

\* What a row read is used for later: not for its times.
Snapshot(row) == [row EXCEPT !.scanned = FALSE, !.age = 0]

\* SaveAccount of a row read earlier: an upsert that leaves last_scanned_at (and
\* created_at) alone, and inserts without last_scanned_at; created is created_at's age.
Saved(row, read, created) ==
    IF Exists(row)
    THEN [read EXCEPT !.scanned = row.scanned, !.age = row.age]
    ELSE [read EXCEPT !.scanned = FALSE, !.age = created]
------------------------------------------------------------------------------
(* Jobs, API requests, scans *)

Job(a)  == [acct |-> a, age |-> 0]
JobType == [acct : Accounts, age : 0..(MaxSkew + 1)]

TrigType == [pc : {"idle", "checked", "enqueue", "waiting", "failed"}, acct : Accounts]

Slots   == Workers \cup Requests
Callers == Triggers \cup {NoCaller, Scheduler}
ScanPCs == {"picked", "gate", "read", "populate", "core", "finalize", "failed"}

\* stamped: this scan's own TryMarkAccountScanning succeeded; ran: the breaker let
\* it run; snap: the row GetAccount returned, as long as it may be saved again;
\* status: whether its status was pending_cur_delivery (else "connected"), and at
\* "finalize" the status to write.
ScanType == [pc : ScanPCs \cup {"idle"}, acct : Accounts, age : Ages,
             stamped : BOOLEAN, ran : BOOLEAN, status : Statuses,
             snap : Row, caller : Callers]

AnAccount == CHOOSE a \in Accounts : TRUE
IdleTrig  == [pc |-> "idle", acct |-> AnAccount]
IdleScan  == [pc |-> "idle", acct |-> AnAccount, age |-> 0, stamped |-> FALSE,
              ran |-> FALSE, status |-> "connected", snap |-> NoRow("absent"),
              caller |-> NoCaller]
IdleEdit  == [pc |-> "idle", acct |-> AnAccount, snap |-> NoRow("absent")]
EditType  == [pc : {"idle", "read"}, acct : Accounts, snap : Row]

NewScan(a, pc, caller) == [IdleScan EXCEPT !.pc = pc, !.acct = a, !.caller = caller]

\* Nobody waits any more; without a deadline to meet the age says nothing.
Detached(sc) == [sc EXCEPT !.caller = NoCaller, !.age = 0]

\* runScan returns an error: what it read is of no use any more.
Broken(sc) == [sc EXCEPT !.pc = "failed", !.status = "connected", !.snap = NoRow("absent")]

Timed(s)    == s \in Workers \/ scan[s].caller # NoCaller
Running(s)  == scan[s].pc # "idle"
Queued(a)   == \E i \in 1..Len(queue) : queue[i].acct = a
Claimed(a)  == \* something is on its way that will write a final status
    \/ \E t \in Triggers : trig[t].acct = a /\ trig[t].pc \in {"enqueue", "waiting", "failed"}
    \/ Queued(a)
    \/ \E s \in Slots : Running(s) /\ scan[s].acct = a
SchedulerWaits == \E r \in Requests : Running(r) /\ scan[r].caller = Scheduler

Fault == faults < MaxFaults /\ faults' = faults + 1

Init == /\ db = [a \in Accounts |-> NoRow("absent")]
        /\ trig = [t \in Triggers |-> IdleTrig]
        /\ queue = <<>>
        /\ scan = [s \in Slots |-> IdleScan]
        /\ cb = [w \in Workers |-> NewBreaker]
        /\ due = {}
        /\ edit = [e \in Editors |-> IdleEdit]
        /\ faults = 0
------------------------------------------------------------------------------
(* API: account CRUD *)

CreateAccount(a) ==
    /\ db[a].status = "absent"
    /\ \/ db' = [db EXCEPT ![a] = NoRow("connected")]
       \/ CurInUse /\ db' = [db EXCEPT ![a] = NoRow("pending_cur_delivery")]
    /\ UNCHANGED <<trig, queue, scan, cb, due, edit, faults>>

CreateDraftAccount(a) ==
    /\ db[a].status = "absent"
    /\ db' = [db EXCEPT ![a] = [NoRow("pending_role_setup") EXCEPT !.role = TRUE]]
    /\ UNCHANGED <<trig, queue, scan, cb, due, edit, faults>>

DeleteAccount(a) ==
    /\ Exists(db[a])
    /\ db' = [db EXCEPT ![a] = NoRow("deleted")]
    /\ UNCHANGED <<trig, queue, scan, cb, due, edit, faults>>

\* updateAccount up to GetAccount ...
ReadForUpdate(e, a) ==
    /\ edit[e].pc = "idle"
    /\ Exists(db[a])
    /\ edit' = [edit EXCEPT ![e] = [pc |-> "read", acct |-> a, snap |-> Snapshot(db[a])]]
    /\ UNCHANGED <<db, trig, queue, scan, cb, due, faults>>

\* ... and the row it decides to save, from the one it read.
Patched(row) ==
    {row}                                          \* label, keys, Cost Explorer, ...
    \cup (IF CurInUse THEN {[row EXCEPT !.status = "pending_cur_delivery"]} ELSE {})

Verified(row) ==
    IF ~row.role THEN {}
    ELSE {[row EXCEPT !.status = "connected", !.known = TRUE],     \* verification ok
          [row EXCEPT !.status = IF @ = "connected" THEN "error" ELSE @]}

UpdateAccount(e) ==
    /\ edit[e].pc = "read"
    /\ LET a == edit[e].acct IN
       \/ \E new \in Patched(edit[e].snap) \cup Verified(edit[e].snap), created \in CreatedAges :
             db' = [db EXCEPT ![a] = Saved(db[a], new, created)]
       \/ UNCHANGED db            \* 400 or 502
    /\ edit' = [edit EXCEPT ![e] = IdleEdit]
    /\ UNCHANGED <<trig, queue, scan, cb, due, faults>>
------------------------------------------------------------------------------
(* API: POST /v1/accounts/{id}/scan *)

\* Mutant: drafts are not refused.
ScanDraftToo(t, a) ==
    /\ trig[t].pc = "idle"
    /\ Exists(db[a])
    /\ trig' = [trig EXCEPT ![t] = [pc |-> "checked", acct |-> a]]
    /\ UNCHANGED <<db, queue, scan, cb, due, edit, faults>>

\* scanAccount: GetAccount and the draft check ...
ScanAccount(t, a) ==
    /\ trig[t].pc = "idle"
    /\ Exists(db[a]) /\ db[a].status # "pending_role_setup"
    /\ trig' = [trig EXCEPT ![t] = [pc |-> "checked", acct |-> a]]
    /\ UNCHANGED <<db, queue, scan, cb, due, edit, faults>>

\* ... then TryMarkAccountScanning: 202 and the goroutine, or 409.
MarkScanning(t) ==
    LET a == trig[t].acct IN
    /\ trig[t].pc = "checked"
    /\ db' = [db EXCEPT ![a] = Marked(@)]
    /\ trig' = [trig EXCEPT ![t] = IF Markable(db[a]) THEN [@ EXCEPT !.pc = "enqueue"]
                                                      ELSE IdleTrig]
    /\ UNCHANGED <<queue, scan, cb, due, edit, faults>>

\* The UPDATE commits but its answer is lost: 500, nothing is enqueued.
MarkScanningLost(t) ==
    /\ trig[t].pc = "checked"
    /\ Fault
    /\ db' = [db EXCEPT ![trig[t].acct] = Marked(@)]
    /\ trig' = [trig EXCEPT ![t] = IdleTrig]
    /\ UNCHANGED <<queue, scan, cb, due, edit>>

\* The goroutine's Enqueue, Redis backend: LPUSH.
EnqueueJob(t) ==
    /\ Workers # {}
    /\ trig[t].pc = "enqueue"
    /\ Len(queue) < MaxQueue
    /\ queue' = Append(queue, Job(trig[t].acct))
    /\ trig' = [trig EXCEPT ![t] = IdleTrig]
    /\ UNCHANGED <<db, scan, cb, due, edit, faults>>

\* The goroutine's Enqueue, sync backend: POST /scan, answered when the scan ends.
PostScan(t, r) ==
    /\ trig[t].pc = "enqueue"
    /\ ~Running(r)
    /\ scan' = [scan EXCEPT ![r] = NewScan(trig[t].acct, "read", t)]
    /\ trig' = [trig EXCEPT ![t].pc = "waiting"]
    /\ UNCHANGED <<db, queue, cb, due, edit, faults>>

\* Enqueue returns an error; an LPUSH may have been applied all the same.
EnqueueFails(t) ==
    /\ trig[t].pc = "enqueue"
    /\ Fault
    /\ trig' = [trig EXCEPT ![t].pc = "failed"]
    /\ \/ UNCHANGED queue
       \/ /\ Workers # {} /\ Len(queue) < MaxQueue
          /\ queue' = Append(queue, Job(trig[t].acct))
    /\ UNCHANGED <<db, scan, cb, due, edit>>

\* The HTTP client gives up; the handler in ingestion runs on.
TriggerTimeout(r) ==
    /\ Running(r) /\ scan[r].caller \in Triggers
    /\ scan[r].age >= ClientTimeout
    /\ trig' = [trig EXCEPT ![scan[r].caller].pc = "failed"]
    /\ scan' = [scan EXCEPT ![r] = Detached(@)]
    /\ UNCHANGED <<db, queue, cb, due, edit, faults>>

\* The goroutine's reaction to an error: UpdateAccountStatus(error), result ignored.
MarkTriggerError(t) ==
    /\ trig[t].pc = "failed"
    /\ \/ /\ db' = [db EXCEPT ![trig[t].acct] = WithStatus(@, "error")]
          /\ UNCHANGED faults
       \/ UNCHANGED db /\ Fault
    /\ trig' = [trig EXCEPT ![t] = IdleTrig]
    /\ UNCHANGED <<queue, scan, cb, due, edit>>

\* ResetStuckScans, from the ticker or at API start-up.
ResetStuckScans ==
    /\ \E a \in Accounts : Stuck(db[a])
    /\ db' = [a \in Accounts |-> IF Stuck(db[a]) THEN [db[a] EXCEPT !.status = "error"]
                                                 ELSE db[a]]
    /\ UNCHANGED <<trig, queue, scan, cb, due, edit, faults>>

\* The API process dies: its requests and goroutines are gone.
ApiCrash ==
    /\ Fault
    /\ trig' = [t \in Triggers |-> IdleTrig]
    /\ edit' = [e \in Editors |-> IdleEdit]
    /\ scan' = [s \in Slots |-> IF scan[s].caller \in Triggers
                                THEN Detached(scan[s]) ELSE scan[s]]
    /\ UNCHANGED <<db, queue, cb, due>>
------------------------------------------------------------------------------
(* Ingestion: the scheduler *)

\* Mutant: an account whose last scan failed is skipped.
ScheduledIfHealthy(row) ==
    Exists(row) /\ row.status \notin {"scanning", "pending_role_setup", "error"} /\ Overdue(row)

\* The filter of scanScheduledAccounts.
Scheduled(row) ==
    Exists(row) /\ row.status \notin {"scanning", "pending_role_setup"} /\ Overdue(row)

\* scanScheduledAccounts: ListAllAccounts and the filter, on one snapshot.
ListScheduled ==
    /\ due = {} /\ ~SchedulerWaits
    /\ due' = {a \in Accounts : Scheduled(db[a])}
    /\ due' # {}
    /\ UNCHANGED <<db, trig, queue, scan, cb, edit, faults>>

\* Redis backend: one LPUSH per due account, without marking it.
ScheduleJob(a) ==
    /\ Workers # {}
    /\ a \in due
    /\ Len(queue) < MaxQueue
    /\ queue' = Append(queue, Job(a))
    /\ due' = due \ {a}
    /\ UNCHANGED <<db, trig, scan, cb, edit, faults>>

\* Sync backend: the loop posts the scan and waits for it.
ScheduleRequest(a, r) ==
    /\ a \in due /\ ~SchedulerWaits
    /\ ~Running(r)
    /\ scan' = [scan EXCEPT ![r] = NewScan(a, "read", Scheduler)]
    /\ due' = due \ {a}
    /\ UNCHANGED <<db, trig, queue, cb, edit, faults>>

\* Enqueue fails: logged, next account.
ScheduleFails(a) ==
    /\ a \in due /\ ~SchedulerWaits
    /\ Fault
    /\ due' = due \ {a}
    /\ UNCHANGED <<db, trig, queue, scan, cb, edit>>

\* Mutant: an HTTP client without a timeout.
ScheduleNeverTimesOut(r) == FALSE /\ UNCHANGED vars

\* The client of the scheduler's POST gives up; the handler runs on.
ScheduleTimeout(r) ==
    /\ Running(r) /\ scan[r].caller = Scheduler
    /\ scan[r].age >= ClientTimeout
    /\ scan' = [scan EXCEPT ![r] = Detached(@)]
    /\ UNCHANGED <<db, trig, queue, cb, due, edit, faults>>
------------------------------------------------------------------------------
(* Ingestion: the queue worker *)

\* BRPOP, then the envelope check; a job rejected is dropped.
Rejected(job) == EnforceEnvelope /\ job.age > MaxSkew

Dequeue(w) ==
    /\ ~Running(w) /\ queue # <<>>
    /\ scan' = IF Rejected(Head(queue)) THEN scan
               ELSE [scan EXCEPT ![w] = NewScan(Head(queue).acct, "picked", NoCaller)]
    /\ queue' = Tail(queue)
    /\ UNCHANGED <<db, trig, cb, due, edit, faults>>

\* Mutant: the worker takes a row already in scanning for somebody else's scan.
WorkerSkipsMarked(w) ==
    LET a == scan[w].acct IN
    /\ scan[w].pc = "picked"
    /\ db' = [db EXCEPT ![a] = Marked(@)]
    /\ scan' = [scan EXCEPT ![w] = IF Markable(db[a])
                                   THEN [@ EXCEPT !.pc = "gate", !.stamped = TRUE]
                                   ELSE IdleScan]
    /\ UNCHANGED <<trig, queue, cb, due, edit, faults>>

\* TryMarkAccountScanning, result ignored (so is an error, which is a fault).
WorkerMark(w) ==
    LET a == scan[w].acct IN
    /\ scan[w].pc = "picked"
    /\ \/ /\ db' = [db EXCEPT ![a] = Marked(@)]
          /\ scan' = [scan EXCEPT ![w].pc = "gate", ![w].stamped = Markable(db[a])]
          /\ UNCHANGED faults
       \/ /\ Fault
          /\ scan' = [scan EXCEPT ![w].pc = "gate"]
          /\ UNCHANGED db
    /\ UNCHANGED <<trig, queue, cb, due, edit>>

\* cb.Execute's admission.
Gate(w) ==
    /\ scan[w].pc = "gate"
    /\ cb' = [cb EXCEPT ![w] = Probed(@)]
    /\ scan' = [scan EXCEPT ![w].pc  = IF Admits(cb[w]) THEN "read" ELSE "failed",
                            ![w].ran = Admits(cb[w])]
    /\ UNCHANGED <<db, trig, queue, due, edit, faults>>

BreakerCools(w) ==
    /\ cb[w].state = "open" /\ ~cb[w].cooled
    /\ cb' = [cb EXCEPT ![w] = Cooled(@)]
    /\ UNCHANGED <<db, trig, queue, scan, due, edit, faults>>
------------------------------------------------------------------------------
(* Ingestion: runScan, in a worker or in a POST /scan handler *)

ReadAccount(s) ==
    LET row == db[scan[s].acct] IN
    /\ scan[s].pc = "read"
    /\ \/ /\ Exists(row)
          /\ scan' = [scan EXCEPT ![s].pc     = IF row.known THEN "core" ELSE "populate",
                                  ![s].snap   = IF row.known THEN @ ELSE Snapshot(row),
                                  ![s].status = IF row.status = "pending_cur_delivery"
                                                THEN row.status ELSE "connected"]
       \/ /\ ~Exists(row)
          /\ scan' = [scan EXCEPT ![s].pc = "failed"]
    /\ UNCHANGED <<db, trig, queue, cb, due, edit, faults>>

\* account_id is missing: ask AWS and save the whole row read before.  (A role account
\* without account_id was never verified: it has no role to assume.)
PopulateAccountID(s) ==
    LET asked == [scan[s] EXCEPT !.pc = "core", !.snap = NoRow("absent")] IN
    /\ scan[s].pc = "populate"
    /\ \/ /\ ~scan[s].snap.role
          /\ \E created \in CreatedAges :
                db' = [db EXCEPT ![scan[s].acct] =
                         Saved(@, [scan[s].snap EXCEPT !.known = TRUE], created)]
          /\ scan' = [scan EXCEPT ![s] = asked]
       \/ scan' = [scan EXCEPT ![s] = asked] /\ UNCHANGED db          \* no AWS client
       \/ scan' = [scan EXCEPT ![s] = Broken(@)] /\ UNCHANGED db      \* SaveAccount failed
    /\ UNCHANGED <<trig, queue, cb, due, edit, faults>>

\* Mutant: a status outside the documented set.
FinalStatusScanned(status, gotCostData) ==
    IF status = "pending_cur_delivery" /\ ~gotCostData THEN "pending_cur_delivery"
                                                       ELSE "scanned"

FinalStatus(status, gotCostData) ==
    IF status = "pending_cur_delivery" /\ ~gotCostData THEN "pending_cur_delivery"
                                                       ELSE "connected"

\* runIngestionCore: cost records can only be saved for an account that exists.
IngestionCore(s) ==
    /\ scan[s].pc = "core"
    /\ \/ \E gotCostData \in BOOLEAN :
             /\ gotCostData => Exists(db[scan[s].acct])
             /\ scan' = [scan EXCEPT ![s].pc     = "finalize",
                                     ![s].status = FinalStatus(@, gotCostData)]
       \/ scan' = [scan EXCEPT ![s] = Broken(@)]
    /\ UNCHANGED <<db, trig, queue, cb, due, edit, faults>>

\* A waiting caller gets its answer.
Answered(s, pc) ==
    trig' = [t \in Triggers |->
               IF t # scan[s].caller THEN trig[t]
               ELSE IF pc = "idle" THEN IdleTrig ELSE [trig[t] EXCEPT !.pc = pc]]

\* finalizeAccountStatus; its write may fail (database, or the deadline), only logged.
Finalize(s) ==
    LET a == scan[s].acct IN
    /\ scan[s].pc = "finalize"
    /\ \/ /\ db' = [db EXCEPT ![a] = WithStatus(@, scan[s].status)]
          /\ UNCHANGED faults
       \/ UNCHANGED db /\ Fault
    /\ cb' = [w \in Workers |-> IF w = s THEN Succeeded(cb[w]) ELSE cb[w]]
    /\ scan' = [scan EXCEPT ![s] = IdleScan]
    /\ Answered(s, "idle")
    /\ UNCHANGED <<queue, due, edit>>

\* The worker records the failure and picks the status; its write may be lost.
WorkerFails(w) ==
    LET a     == scan[w].acct
        after == IF scan[w].ran THEN Failed(cb[w]) ELSE cb[w]
        st    == IF after.state = "open" THEN "circuit_breaker_open"
                 ELSE IF scan[w].age >= ScanTimeout THEN "scan_timeout" ELSE "error"
    IN
    /\ scan[w].pc = "failed"
    /\ cb' = [cb EXCEPT ![w] = after]
    /\ \/ db' = [db EXCEPT ![a] = WithStatus(@, st)] /\ UNCHANGED faults
       \/ UNCHANGED db /\ Fault
    /\ scan' = [scan EXCEPT ![w] = IdleScan]
    /\ UNCHANGED <<trig, queue, due, edit>>

\* The handler: SetAccountError and 500.
RequestFails(r) ==
    /\ scan[r].pc = "failed"
    /\ \/ /\ db' = [db EXCEPT ![scan[r].acct] = WithStatus(@, "error")]
          /\ UNCHANGED faults
       \/ UNCHANGED db /\ Fault
    /\ scan' = [scan EXCEPT ![r] = IdleScan]
    /\ Answered(r, "failed")
    /\ UNCHANGED <<queue, cb, due, edit>>

\* The worker's deadline ends the scan wherever it is.
WorkerTimeout(w) ==
    /\ scan[w].pc \in {"read", "populate", "core"}
    /\ scan[w].age >= ScanTimeout
    /\ scan' = [scan EXCEPT ![w] = Broken(@)]
    /\ UNCHANGED <<db, trig, queue, cb, due, edit, faults>>

\* The ingestion process dies: jobs taken are lost, callers see a broken connection.
IngestionCrash ==
    /\ Fault
    /\ scan' = [s \in Slots |-> IdleScan]
    /\ cb' = [w \in Workers |-> NewBreaker]
    /\ due' = {}
    /\ trig' = [t \in Triggers |-> IF trig[t].pc = "waiting"
                                   THEN [trig[t] EXCEPT !.pc = "failed"] ELSE trig[t]]
    /\ UNCHANGED <<db, queue, edit>>
------------------------------------------------------------------------------
\* Deadlines are met before more time passes.
Urgent == \/ \E w \in Workers : Running(w) /\ scan[w].age >= ScanTimeout
          \/ \E r \in Requests : /\ Running(r) /\ scan[r].caller # NoCaller
                                 /\ scan[r].age >= ClientTimeout

Tick ==
    /\ ~Urgent
    /\ db' = [a \in Accounts |-> IF Exists(db[a]) /\ (db[a].scanned \/ CurInUse)
                                 THEN [db[a] EXCEPT !.age = Older(@)] ELSE db[a]]
    /\ scan' = [s \in Slots |-> IF Running(s) /\ Timed(s)
                                THEN [scan[s] EXCEPT !.age = Older(@)] ELSE scan[s]]
    /\ queue' = [i \in DOMAIN queue |->
                   [queue[i] EXCEPT !.age = IF @ <= MaxSkew THEN @ + 1 ELSE @]]
    /\ UNCHANGED <<trig, cb, due, edit, faults>>

AccountStep == \E a \in Accounts :
    \/ CreateAccount(a) \/ CreateDraftAccount(a) \/ DeleteAccount(a)
    \/ \E e \in Editors : ReadForUpdate(e, a)
    \/ \E t \in Triggers : ScanAccount(t, a)

EditStep == \E e \in Editors : UpdateAccount(e)

TriggerStep(t) ==
    \/ MarkScanning(t) \/ MarkScanningLost(t) \/ EnqueueJob(t) \/ EnqueueFails(t)
    \/ MarkTriggerError(t)
    \/ \E r \in Requests : PostScan(t, r)

SchedulerStep ==
    \/ ListScheduled
    \/ \E a \in Accounts : \/ ScheduleJob(a) \/ ScheduleFails(a)
                           \/ \E r \in Requests : ScheduleRequest(a, r)

RunStep(s) == ReadAccount(s) \/ PopulateAccountID(s) \/ IngestionCore(s) \/ Finalize(s)

WorkerStep(w)  == Dequeue(w) \/ WorkerMark(w) \/ Gate(w) \/ RunStep(w) \/ WorkerFails(w)
RequestStep(r) == RunStep(r) \/ RequestFails(r)
ClientTimeouts == \E r \in Requests : TriggerTimeout(r) \/ ScheduleTimeout(r)

Next ==
    \/ AccountStep \/ EditStep
    \/ \E t \in Triggers : TriggerStep(t)
    \/ ResetStuckScans \/ ApiCrash
    \/ SchedulerStep \/ ClientTimeouts
    \/ \E w \in Workers : WorkerStep(w) \/ BreakerCools(w) \/ WorkerTimeout(w)
    \/ \E r \in Requests : RequestStep(r)
    \/ IngestionCrash
    \/ Tick

Spec == Init /\ [][Next]_vars

\* What the processes do on their own: tickers fire, a goroutine of the API and the
\* worker run on, clients give up.  Users and crashes get none, nor does a scan in a
\* POST /scan handler: its context has no deadline, so that it may hang for good.
Fairness ==
    /\ WF_vars(Tick) /\ WF_vars(ResetStuckScans) /\ WF_vars(ClientTimeouts)
    /\ \A t \in Triggers : WF_vars(TriggerStep(t))
    /\ WF_vars(ListScheduled) /\ \A a \in Accounts : WF_vars(ScheduleJob(a))
    /\ \A a \in Accounts : WF_vars(\E r \in Requests : ScheduleRequest(a, r))
    /\ \A w \in Workers : WF_vars(WorkerStep(w)) /\ WF_vars(WorkerTimeout(w))

FairSpec == Spec /\ Fairness
------------------------------------------------------------------------------
(* Properties *)

TypeOK ==
    /\ db \in [Accounts -> Row]
    /\ trig \in [Triggers -> TrigType]
    /\ queue \in Seq(JobType)
    /\ scan \in [Slots -> ScanType]
    /\ cb \in [Workers -> BreakerType]
    /\ due \subseteq Accounts
    /\ edit \in [Editors -> EditType]
    /\ faults \in 0..MaxFaults

\* The stuck-scan sweep never fails a scan that a worker is executing and whose own
\* TryMarkAccountScanning stamped the row.
StampedScanNotStuck ==
    \A w \in Workers : Running(w) /\ scan[w].stamped => ~Stuck(db[scan[w].acct])

\* Shown as scanning, and nothing on its way that would end it but the sweep.
Unclaimed(a) == db[a].status = "scanning" /\ ~Claimed(a)

\* The step drops a job of this account because its envelope is too old.
JobExpires(a) ==
    /\ queue # <<>> /\ queue' = Tail(queue)
    /\ Head(queue).acct = a /\ Rejected(Head(queue))

\* The step ends a PATCH of this account, which saves (its changes to) the row it read.
PatchEnds(e, a) == edit[e].pc = "read" /\ edit[e].acct = a /\ edit'[e].pc = "idle"

\* A step leaves an account in scanning with nothing on its way only if it is a crash,
\* a lost write or a lost enqueue, if it drops the account's job as too old, or if it
\* is a PATCH that saves a scanning status it read before.
NoOrphanedScan ==
    [][\A a \in Accounts : Unclaimed(a)' =>
          \/ Unclaimed(a)
          \/ faults' > faults
          \/ JobExpires(a)
          \/ \E e \in Editors : PatchEnds(e, a) /\ edit[e].snap.status = "scanning"]_vars

\* A scan of the account is under way, or decided on.
UnderWay(a) ==
    \/ a \in due \/ Claimed(a)
    \/ \E t \in Triggers : trig[t].pc = "checked" /\ trig[t].acct = a

\* A role account nobody ever verified.
Unverified(row) == Exists(row) /\ row.role /\ ~row.known

\* It is scanned, or nothing in its status keeps it from being scanned.
UnverifiedExposed(a) ==
    Unverified(db[a]) /\ (db[a].status # "pending_role_setup" \/ UnderWay(a))

\* Whatever the order of PATCH, trigger and scheduler, an account whose onboarding is
\* not finished comes to be scanned through a PATCH only: one that saves an unverified
\* row although the row is no longer the one it read, or one that moves it to CUR.
DraftNeverScanned ==
    [][\A a \in Accounts : UnverifiedExposed(a)' =>
          \/ UnverifiedExposed(a)
          \/ \E e \in Editors :
                /\ PatchEnds(e, a) /\ Unverified(edit[e].snap)
                /\ \/ Snapshot(db[a]) # edit[e].snap
                   \/ db'[a].status = "pending_cur_delivery"]_vars

\* The row lock keeps two scans of one account from running at once.
NoConcurrentScans ==
    \A s1, s2 \in Slots :
        (s1 # s2 /\ Running(s1) /\ Running(s2)) => scan[s1].acct # scan[s2].acct

\* The stuck-scan sweep gets every account out of scanning, whatever it was that
\* crashed or whose write was lost.
ScanningIsReset ==
    \A a \in Accounts : db[a].status = "scanning" ~> db[a].status # "scanning"

\* The same, of the rows that have a last_scanned_at for the sweep to compare.
ScanningEnds ==
    \A a \in Accounts :
        (db[a].status = "scanning" /\ db[a].scanned) ~>
            ~(db[a].status = "scanning" /\ db[a].scanned)

\* A row deleted while scanning and saved again by somebody who had read it before.
Resurrected(row) == row.status = "scanning" /\ ~row.scanned

\* net/http starts a goroutine for every POST /scan; the model has so many of them.
\* Hung scans do not take them all.
HungScansLeaveRoom == []<>(\E r \in Requests : ~Running(r))

\* No scan of this account hangs for good.
ScansEnd(a) == \A r \in Requests : []<>~(Running(r) /\ scan[r].acct = a)

\* An overdue account gets a scan, though scans of other accounts hang for good.
OverdueIsScanned ==
    HungScansLeaveRoom =>
        \A a \in Accounts : ScansEnd(a) =>
            ((Markable(db[a]) /\ db[a].status # "pending_role_setup" /\ Overdue(db[a])) ~>
                (~Exists(db[a]) \/ ~Overdue(db[a]) \/ Resurrected(db[a])))

\* A hung scan does not stall the scheduler's pass.
PassEnds == HungScansLeaveRoom => (due # {} ~> due = {})
=============================================================================
