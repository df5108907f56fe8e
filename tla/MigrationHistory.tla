--------------------------- MODULE MigrationHistory ---------------------------
(***************************************************************************)
(* The migrator: `migrate up` at every deployment and the operator's       *)
(* `down` and `force`, each a process that takes the wrapper's advisory    *)
(* lock on its history connection, resolves the rows that dead processes   *)
(* left started, and wraps every step of golang-migrate in a history row.  *)
(*                                                                         *)
(* A process may die between any two statements, a step may fail at each,  *)
(* and the history connection may be lost, and the lock with it, while the *)
(* process goes on.  golang-migrate has a connection and a lock of its     *)
(* own; what it does is modelled from its use.  A script is one implicit   *)
(* transaction: it is applied as a whole or not at all.                    *)
(*                                                                         *)
(* Left out: checksums and timing (a refusal because of drift is a fault   *)
(* here), roles and passwords.  Of the history the model keeps what the    *)
(* code reads or an operator goes by: whether there is a row, the rows     *)
(* still started, the last verdict on each version, how often a version    *)
(* was backfilled.                                                         *)
(***************************************************************************)
EXTENDS Integers, FiniteSets

CONSTANTS
    Procs,
    Top,         \* the embedded migrations are 0 .. Top
    Idempotent,  \* those whose up script may run again on its own result
    NoProc,
    MaxFaults,   \* bound: crashes, failed steps, lost connections
    MaxOps       \* bound: the operator's commands

Versions == 0 .. Top

ASSUME MigrationAssumption ==
    /\ Top \in Nat /\ MaxFaults \in Nat /\ MaxOps \in Nat
    /\ Idempotent \subseteq Versions /\ NoProc \notin Procs

VARIABLES
    table,     \* the name migration_state has: "absent", "legacy" or "current"
    sm,        \* its row; version -1 and not dirty: no row
    schema,    \* the migrations that are applied
    rows,      \* whether migration_history has a row
    open,      \* its rows that are started
    told,      \* the last row of a version that says more than that nothing was done
    backfills, \* how many rows of a version are backfilled
    lock,      \* who holds the wrapper's lock
    drvLock,   \* who holds golang-migrate's
    proc,
    faults, ops,
    severed    \* whether a history connection has ever been lost

history == <<rows, open, told, backfills>>
vars == <<table, sm, schema, history, lock, drvLock, proc, faults, ops, severed>>
------------------------------------------------------------------------------
Commands == {"none", "up", "down", "force"}
PCs == {"idle", "boot", "lock", "orphans", "resolve", "count", "backfill", "drift", "dirty",
        "loop", "down", "record", "rewind", "take", "mark", "exec", "clean", "complete",
        "force", "recordforce"}

\* "up" and "down" have succeeded, "lost up" and "lost down" as well, but are marked
\* indeterminate; "dirty" has failed and left the version dirty.  The row does not tell
\* "backfilled" from "backfilled dirty", of the version that was dirty then.
Verdicts == {"nothing", "backfilled", "backfilled dirty", "up", "down", "lost up", "lost down",
             "dirty"}
Rows  == [by : Procs, v : Versions, dir : {"up", "down"}]
State == [version : -1 .. Top, dirty : BOOLEAN]

\* conn: it has its history connection; left: steps down to go; v: the version its row is
\* about; redo: it re-applies a dirty version; to: the migration golang-migrate is at; ok:
\* how its step ended; orphans, seen: what recoverOrphans has read.
ProcType == [cmd : Commands, pc : PCs, conn : BOOLEAN, left : Nat, v : Versions,
             redo : BOOLEAN, to : Versions, ok : BOOLEAN, orphans : SUBSET Rows, seen : State]

Gone == [cmd |-> "none", pc |-> "idle", conn |-> FALSE, left |-> 0, v |-> 0, redo |-> FALSE,
         to |-> 0, ok |-> FALSE, orphans |-> {}, seen |-> [version |-> -1, dirty |-> FALSE]]

TypeOK ==
    /\ table \in {"absent", "legacy", "current"}
    /\ sm \in State
    /\ schema \subseteq Versions
    /\ rows \in BOOLEAN /\ open \subseteq Rows
    /\ told \in [Versions -> Verdicts] /\ backfills \in [Versions -> Nat]
    /\ lock \in Procs \cup {NoProc} /\ drvLock \in Procs \cup {NoProc}
    /\ proc \in [Procs -> ProcType]
    /\ faults \in 0 .. MaxFaults /\ ops \in 0 .. MaxOps /\ severed \in BOOLEAN

\* migrationStateRead's hasRow.  It reads no row from a table under another name.
HasRow(s) == s.version # -1 \/ s.dirty
Row(p)    == [by |-> p, v |-> proc[p].v, dir |-> IF proc[p].cmd = "up" THEN "up" ELSE "down"]

Become(p, q) == proc' = [proc EXCEPT ![p] = q]
Goto(p, pc)  == Become(p, [proc[p] EXCEPT !.pc = pc])

\* The process ends and its sessions with it.
End(p) ==
    /\ Become(p, Gone)
    /\ lock' = IF lock = p THEN NoProc ELSE lock
    /\ drvLock' = IF drvLock = p THEN NoProc ELSE drvLock

\* A new database, or one from before the history and the renaming, whose last migration
\* may have been left dirty, which counts as a fault.
Init ==
    /\ \/ table = "absent" /\ sm = [version |-> -1, dirty |-> FALSE]
       \/ table = "legacy" /\ sm \in [version : Versions, dirty : BOOLEAN]
    /\ \/ schema = 0 .. sm.version
       \/ sm.dirty /\ schema = 0 .. sm.version - 1
    /\ rows = FALSE /\ open = {}
    /\ told = [v \in Versions |-> "nothing"] /\ backfills = [v \in Versions |-> 0]
    /\ lock = NoProc /\ drvLock = NoProc
    /\ proc = [p \in Procs |-> Gone]
    /\ faults = IF sm.dirty THEN 1 ELSE 0
    /\ faults <= MaxFaults /\ ops = 0 /\ severed = FALSE
------------------------------------------------------------------------------
Up(p) ==
    /\ proc[p].pc = "idle"
    /\ Become(p, [Gone EXCEPT !.cmd = "up", !.pc = "boot"])
    /\ UNCHANGED <<table, sm, schema, history, lock, drvLock, faults, ops, severed>>

\* An operator's command, on a database that `up` has set up.
Operate(p) ==
    /\ proc[p].pc = "idle" /\ table = "current" /\ ops < MaxOps
    /\ ops' = ops + 1
    /\ \E cmd \in {"down", "force"} :
         Become(p, [Gone EXCEPT !.cmd = cmd, !.pc = "lock", !.left = 1])
    /\ UNCHANGED <<table, sm, schema, history, lock, drvLock, faults, severed>>

\* Of Bootstrap's statements, each idempotent, only the renaming matters here.
Bootstrap(p) ==
    /\ proc[p].pc = "boot"
    /\ table' = IF table = "legacy" THEN "current" ELSE table
    /\ Goto(p, "lock")
    /\ UNCHANGED <<sm, schema, history, lock, drvLock, faults, ops, severed>>

\* Mutant: without waiting.
AcquireLockNot(p) ==
    /\ proc[p].pc = "lock"
    /\ lock' = p
    /\ Become(p, [proc[p] EXCEPT !.pc = "orphans", !.conn = TRUE])
    /\ UNCHANGED <<table, sm, schema, history, drvLock, faults, ops, severed>>

\* withHistoryConn.
AcquireLock(p) ==
    /\ proc[p].pc = "lock" /\ lock = NoProc
    /\ lock' = p
    /\ Become(p, [proc[p] EXCEPT !.pc = "orphans", !.conn = TRUE])
    /\ UNCHANGED <<table, sm, schema, history, drvLock, faults, ops, severed>>

RecoverOrphans(p) ==
    /\ proc[p].pc = "orphans" /\ proc[p].conn
    /\ Become(p, [proc[p] EXCEPT !.pc = "resolve", !.orphans = open, !.seen = sm])
    /\ UNCHANGED <<table, sm, schema, history, lock, drvLock, faults, ops, severed>>

\* Mutant: a dirty version counts as applied.
VerdictClean(o, s) ==
    LET done == IF o.dir = "up" THEN o.v ELSE o.v - 1
        not  == IF o.dir = "up" THEN o.v - 1 ELSE o.v
    IN  CASE HasRow(s) /\ s.version = done                  -> o.dir
          [] HasRow(s) /\ s.version = not /\ ~s.dirty       -> "failed"
          [] OTHER -> IF o.dir = "up" THEN "lost up" ELSE "lost down"

\* resolveOrphan.
Verdict(o, s) ==
    LET done == IF o.dir = "up" THEN o.v ELSE o.v - 1
        not  == IF o.dir = "up" THEN o.v - 1 ELSE o.v
    IN  CASE HasRow(s) /\ s.version = done /\ ~s.dirty      -> o.dir
          [] HasRow(s) /\ s.version = o.v /\ s.dirty        -> "dirty"
          [] HasRow(s) /\ s.version = not /\ ~s.dirty       -> "failed"
          [] OTHER -> IF o.dir = "up" THEN "lost up" ELSE "lost down"

Tell(v, verdict) == told' = IF verdict = "failed" THEN told ELSE [told EXCEPT ![v] = verdict]

ResolveOrphan(p) ==
    /\ proc[p].pc = "resolve" /\ proc[p].conn
    /\ \E o \in proc[p].orphans :
         /\ Tell(o.v, Verdict(o, proc[p].seen))
         /\ open' = open \ {o}
         /\ Become(p, [proc[p] EXCEPT !.orphans = @ \ {o}])
    /\ UNCHANGED <<table, sm, schema, rows, backfills, lock, drvLock, faults, ops, severed>>

\* openMigrate, before any step, creates the table.
OrphansDone(p) ==
    /\ proc[p].pc = "resolve" /\ proc[p].orphans = {}
    /\ Goto(p, IF proc[p].cmd = "up" THEN "count" ELSE proc[p].cmd)
    /\ UNCHANGED <<table, sm, schema, history, lock, drvLock, faults, ops, severed>>

\* backfillIfEmpty counts and reads the state ...
CountHistory(p) ==
    /\ proc[p].pc = "count" /\ proc[p].conn
    /\ Become(p, [proc[p] EXCEPT !.seen = sm,
                                 !.pc = IF ~rows /\ HasRow(sm) THEN "backfill" ELSE "drift"])
    /\ UNCHANGED <<table, sm, schema, history, lock, drvLock, faults, ops, severed>>

\* ... and inserts what it found in one transaction, the version that is dirty as well.
BackfillIfEmpty(p) ==
    LET seen == proc[p].seen
        applied == 0 .. seen.version
    IN  /\ proc[p].pc = "backfill" /\ proc[p].conn
        /\ rows' = (rows \/ applied # {})
        /\ told' = [v \in Versions |->
               IF v \notin applied THEN told[v]
               ELSE IF seen.dirty /\ v = seen.version THEN "backfilled dirty" ELSE "backfilled"]
        /\ backfills' = [v \in Versions |-> backfills[v] + IF v \in applied THEN 1 ELSE 0]
        /\ Goto(p, "drift")
        /\ UNCHANGED <<table, sm, schema, open, lock, drvLock, faults, ops, severed>>

DetectDrift(p) ==
    /\ proc[p].pc = "drift" /\ proc[p].conn
    /\ table' = "current"
    /\ Goto(p, "dirty")
    /\ UNCHANGED <<sm, schema, history, lock, drvLock, faults, ops, severed>>

DriftRefused(p) ==
    /\ proc[p].pc = "drift" /\ faults < MaxFaults
    /\ faults' = faults + 1
    /\ End(p)
    /\ UNCHANGED <<table, sm, schema, history, ops, severed>>
------------------------------------------------------------------------------
\* Mutant: the dirty version is never looked at again.
ReapplyDirtyNot(p) ==
    /\ proc[p].pc = "dirty" /\ proc[p].conn
    /\ Goto(p, "loop")
    /\ UNCHANGED <<table, sm, schema, history, lock, drvLock, faults, ops, severed>>

\* reapplyDirty, up to its row.  A version that is not embedded is the operator's.
ReapplyDirty(p) ==
    /\ proc[p].pc = "dirty" /\ proc[p].conn
    /\ \/ /\ ~sm.dirty
          /\ Goto(p, "loop")
          /\ UNCHANGED <<lock, drvLock>>
       \/ /\ sm.dirty /\ sm.version \in Versions
          /\ Become(p, [proc[p] EXCEPT !.pc = "record", !.v = sm.version, !.redo = TRUE])
          /\ UNCHANGED <<lock, drvLock>>
       \/ /\ sm.dirty /\ sm.version \notin Versions
          /\ End(p)
    /\ UNCHANGED <<table, sm, schema, history, faults, ops, severed>>

\* Mutant: it does not stop at the last version.
NextPendingUpOff(p) ==
    /\ proc[p].pc = "loop"
    /\ Become(p, [proc[p] EXCEPT !.pc = "record", !.v = sm.version + 1, !.redo = FALSE])
    /\ UNCHANGED <<table, sm, schema, history, lock, drvLock, faults, ops, severed>>

NextPendingUp(p) ==
    /\ proc[p].pc = "loop"
    /\ \/ /\ sm.version < Top
          /\ Become(p, [proc[p] EXCEPT !.pc = "record", !.v = sm.version + 1, !.redo = FALSE])
          /\ UNCHANGED <<lock, drvLock>>
       \/ sm.version = Top /\ End(p)
    /\ UNCHANGED <<table, sm, schema, history, faults, ops, severed>>

NextDown(p) ==
    /\ proc[p].pc = "down"
    /\ \/ /\ proc[p].left > 0 /\ sm.version # -1
          /\ Become(p, [proc[p] EXCEPT !.pc = "record", !.v = sm.version])
          /\ UNCHANGED <<lock, drvLock>>
       \/ (proc[p].left = 0 \/ sm.version = -1) /\ End(p)
    /\ UNCHANGED <<table, sm, schema, history, faults, ops, severed>>

RecordStarted(p) ==
    /\ proc[p].pc = "record" /\ proc[p].conn
    /\ open' = open \cup {Row(p)} /\ rows' = TRUE
    /\ Goto(p, IF proc[p].redo THEN "rewind" ELSE "take")
    /\ UNCHANGED <<table, sm, schema, told, backfills, lock, drvLock, faults, ops, severed>>

\* Mutant: the dirty version itself is forced clean.
RewindNot(p) ==
    /\ proc[p].pc = "rewind" /\ drvLock = NoProc
    /\ sm' = [version |-> proc[p].v, dirty |-> FALSE]
    /\ Goto(p, "take")
    /\ UNCHANGED <<table, schema, history, lock, drvLock, faults, ops, severed>>

\* m.Force(V - 1) of reapplyDirty.
Rewind(p) ==
    /\ proc[p].pc = "rewind" /\ drvLock = NoProc
    /\ sm' = [version |-> proc[p].v - 1, dirty |-> FALSE]
    /\ Goto(p, "take")
    /\ UNCHANGED <<table, schema, history, lock, drvLock, faults, ops, severed>>

\* m.Steps(1) and m.Steps(-1): lock, read the version, refuse when it is dirty or there is
\* nothing to do ...
Steps(p) ==
    LET up == proc[p].cmd = "up"
        none == sm.dirty \/ (up /\ sm.version = Top) \/ (~up /\ sm.version = -1)
    IN  /\ proc[p].pc = "take" /\ drvLock = NoProc
        /\ \/ /\ none
              /\ Become(p, [proc[p] EXCEPT !.pc = "complete", !.ok = FALSE])
              /\ UNCHANGED drvLock
           \/ /\ ~none
              /\ drvLock' = p
              /\ Become(p, [proc[p] EXCEPT !.pc = "mark",
                                           !.to = IF up THEN sm.version + 1 ELSE sm.version])
        /\ UNCHANGED <<table, sm, schema, history, lock, faults, ops, severed>>

\* The version a step of p leads to.
Target(p) == IF proc[p].cmd = "up" THEN proc[p].to ELSE proc[p].to - 1

\* ... set the version it leads to, dirty ...
MarkDirty(p) ==
    /\ proc[p].pc = "mark"
    /\ sm' = [version |-> Target(p), dirty |-> TRUE]
    /\ Goto(p, "exec")
    /\ UNCHANGED <<table, schema, history, lock, drvLock, faults, ops, severed>>

\* ... run the script, which fails if it cannot run twice and has run ...
RunScript(p) ==
    LET up == proc[p].cmd = "up"
        again == up /\ proc[p].to \in schema \ Idempotent
    IN  /\ proc[p].pc = "exec"
        /\ \/ /\ ~again
              /\ schema' = IF up THEN schema \cup {proc[p].to} ELSE schema \ {proc[p].to}
              /\ Goto(p, "clean")
              /\ UNCHANGED drvLock
           \/ /\ again
              /\ Become(p, [proc[p] EXCEPT !.pc = "complete", !.ok = FALSE])
              /\ drvLock' = NoProc
              /\ UNCHANGED schema
        /\ UNCHANGED <<table, sm, history, lock, faults, ops, severed>>

\* ... and set it clean.
MarkClean(p) ==
    /\ proc[p].pc = "clean"
    /\ sm' = [version |-> Target(p), dirty |-> FALSE]
    /\ Become(p, [proc[p] EXCEPT !.pc = "complete", !.ok = TRUE])
    /\ drvLock' = NoProc
    /\ UNCHANGED <<table, schema, history, lock, faults, ops, severed>>

\* Any of these fails, as does the rewinding: an error in the script, a lock timeout, a
\* lost connection of golang-migrate.
StepFails(p) ==
    /\ proc[p].pc \in {"rewind", "take", "mark", "exec", "clean"} /\ faults < MaxFaults
    /\ faults' = faults + 1
    /\ Become(p, [proc[p] EXCEPT !.pc = "complete", !.ok = FALSE])
    /\ drvLock' = IF drvLock = p THEN NoProc ELSE drvLock
    /\ UNCHANGED <<table, sm, schema, history, lock, ops, severed>>

\* completeRow, and on after a success.
CompleteRow(p) ==
    /\ proc[p].pc = "complete" /\ proc[p].conn
    /\ open' = open \ {Row(p)}
    /\ Tell(proc[p].v, CASE proc[p].ok -> Row(p).dir
                          [] ~proc[p].ok /\ sm.dirty -> "dirty"
                          [] ~proc[p].ok /\ ~sm.dirty -> "failed")
    /\ \/ /\ proc[p].ok
          /\ Become(p, IF proc[p].cmd = "up" THEN [proc[p] EXCEPT !.pc = "loop"]
                       ELSE [proc[p] EXCEPT !.pc = "down", !.left = @ - 1])
          /\ UNCHANGED <<lock, drvLock>>
       \/ ~proc[p].ok /\ End(p)
    /\ UNCHANGED <<table, sm, schema, rows, backfills, faults, ops, severed>>

\* MigrateForce.  The operator has looked, and forces to what is applied.
ForceVersion(p) ==
    /\ proc[p].pc = "force" /\ drvLock = NoProc
    /\ \E v \in Versions :
         /\ schema = 0 .. v
         /\ sm' = [version |-> v, dirty |-> FALSE]
    /\ Goto(p, "recordforce")
    /\ UNCHANGED <<table, schema, history, lock, drvLock, faults, ops, severed>>

\* Or leaves it when there is no such version.
ForceNothing(p) ==
    /\ proc[p].pc = "force" /\ \A v \in Versions : schema # 0 .. v
    /\ End(p)
    /\ UNCHANGED <<table, sm, schema, history, faults, ops, severed>>

RecordForce(p) ==
    /\ proc[p].pc = "recordforce" /\ proc[p].conn
    /\ rows' = TRUE
    /\ End(p)
    /\ UNCHANGED <<table, sm, schema, open, told, backfills, faults, ops, severed>>
------------------------------------------------------------------------------
\* The history connection is gone: what needs it next fails, and the process ends.
Disconnected(p) ==
    /\ proc[p].pc \in {"orphans", "resolve", "count", "backfill", "drift", "dirty", "record",
                       "complete", "recordforce"}
    /\ ~proc[p].conn
    /\ End(p)
    /\ UNCHANGED <<table, sm, schema, history, faults, ops, severed>>

LoseConn(p) ==
    /\ proc[p].conn /\ faults < MaxFaults
    /\ faults' = faults + 1 /\ severed' = TRUE
    /\ Become(p, [proc[p] EXCEPT !.conn = FALSE])
    /\ lock' = IF lock = p THEN NoProc ELSE lock
    /\ UNCHANGED <<table, sm, schema, history, drvLock, ops>>

Crash(p) ==
    /\ proc[p].pc # "idle" /\ faults < MaxFaults
    /\ faults' = faults + 1
    /\ End(p)
    /\ UNCHANGED <<table, sm, schema, history, ops, severed>>

Step(p) ==
    \/ Bootstrap(p) \/ AcquireLock(p) \/ RecoverOrphans(p) \/ ResolveOrphan(p) \/ OrphansDone(p)
    \/ CountHistory(p) \/ BackfillIfEmpty(p) \/ DetectDrift(p)
    \/ ReapplyDirty(p) \/ NextPendingUp(p) \/ NextDown(p) \/ RecordStarted(p) \/ Rewind(p)
    \/ Steps(p) \/ MarkDirty(p) \/ RunScript(p) \/ MarkClean(p) \/ CompleteRow(p)
    \/ ForceVersion(p) \/ ForceNothing(p) \/ RecordForce(p) \/ Disconnected(p)

Next == \E p \in Procs :
    \/ Up(p) \/ Operate(p) \/ Step(p)
    \/ DriftRefused(p) \/ StepFails(p) \/ LoseConn(p) \/ Crash(p)

\* A process goes on until it ends, an advisory lock is granted in turn, and there is
\* another `up` sooner or later: a retry of the job, the next deployment.
Fairness ==
    \A p \in Procs : WF_vars(Up(p) \/ Step(p)) /\ SF_vars(AcquireLock(p) \/ Steps(p))

Spec == Init /\ [][Next]_vars /\ Fairness
------------------------------------------------------------------------------
\* The version row never claims what is not applied: all versions up to it are, except
\* that a dirty one itself may not be, whatever dies, fails or overlaps.  A process that has
\* lost its history connection may rewind a version that another one has reapplied; then an
\* operator's `down` meanwhile is what breaks it.
\* (reapplyDirty: rewind, then step; golang-migrate: dirty, run, clean.)
AppliedBelow ==
    \/ severed /\ ops > 0
    \/ \A v \in Versions : v < sm.version \/ (v = sm.version /\ ~sm.dirty) => v \in schema

\* The last row of v, if it says succeeded, tells whether v is applied.
Right(v) ==
    /\ told[v] \in {"up", "backfilled"} => v \in schema
    /\ told[v] = "down" => v \notin schema

\* Once everybody has ended and nothing is left started or dirty, a version whose last row
\* says succeeded is applied or not as the row says, unless it is marked indeterminate or
\* was backfilled while it was dirty; rows that say that a step never started do not count.
\* And at no time is a version backfilled twice, by two deployments that find the table empty.
\* (resolveOrphan's truth table, completeRow; backfillIfEmpty under the wrapper's lock.)
HistoryTrue ==
    /\ \A v \in Versions : backfills[v] <= 1
    /\ (\A p \in Procs : proc[p].pc = "idle") /\ open = {} /\ ~sm.dirty /\ ~severed =>
           \A v \in Versions : Right(v)

\* The row of a step under way is left to the process that makes it, as long as that has
\* its connection.
\* (recoverOrphans: any row still started counts as an orphan; the wrapper's lock.)
LiveRowKept ==
    [][\A o \in open \ open' : proc[o.by].conn => proc[o.by].pc \in {"resolve", "complete"}]_vars

\* A down of the first version died half way: the dirty version -1 is the operator's.
NeedsOperator == sm.version = -1 /\ sm.dirty

\* A fault came between the commit of a script that cannot run twice (012, 016 and 038
\* rename or add) and the clean mark: `up` cannot get past that version, and it is the
\* operator's as well, against what reapplyDirty's comment says of every migration.
Wedged == \E v \in schema \ Idempotent : sm.version < v \/ (sm.version = v /\ sm.dirty)

\* After the last fault some `up` brings the schema to the last version, clean, with no row
\* left started, or there is a version that only the operator can mend; only the schema may
\* have a gap, when AppliedBelow is broken.
\* (runUpLoop, reapplyDirty, recoverOrphans; the incident of 2026-05-30.)
UpToDate ==
    <>[](\/ NeedsOperator \/ Wedged
         \/ /\ sm = [version |-> Top, dirty |-> FALSE] /\ open = {}
            /\ schema = Versions \/ (severed /\ ops > 0))
=============================================================================
