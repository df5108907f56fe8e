---------------------------- MODULE MigrationProofs ----------------------------
(***************************************************************************)
(* Proofs about the migrator, for any number of processes and migrations,  *)
(* scripts that may or may not run twice, and any number of faults and     *)
(* commands of the operator.                                               *)
(***************************************************************************)
EXTENDS MigrationHistory, TLAPS

Stepping == {"mark", "exec", "clean"}
Working  == Stepping \cup {"record", "rewind", "take", "complete"}
Waiting  == {"idle", "boot", "lock"}

\* What a process has been told to do.
Commanded ==
    \A p \in Procs :
        /\ proc[p].pc \in {"boot", "count", "backfill", "drift", "dirty", "loop", "rewind"} =>
               proc[p].cmd = "up"
        /\ proc[p].pc = "down" => proc[p].cmd = "down"
        /\ proc[p].pc \in Working => proc[p].cmd = "up" \/ (proc[p].cmd = "down" /\ proc[p].left > 0)
        /\ proc[p].pc = "rewind" => proc[p].redo
        /\ proc[p].redo => proc[p].cmd = "up"
        /\ proc[p].pc # "idle" => proc[p].cmd # "none"
        /\ ops = 0 => proc[p].cmd \in {"none", "up"}

\* Who holds the two advisory locks.
Locked ==
    \A p \in Procs :
        /\ proc[p].conn <=> lock = p
        /\ drvLock = p <=> proc[p].pc \in Stepping
        /\ proc[p].conn => proc[p].pc \notin Waiting
        /\ ~severed /\ proc[p].pc \notin Waiting => proc[p].conn

\* Under its own lock golang-migrate finds the version row as it has left it.
Marked ==
    \A p \in Procs :
        /\ proc[p].pc = "mark" =>
               sm = [version |-> IF proc[p].cmd = "up" THEN proc[p].to - 1 ELSE proc[p].to,
                     dirty |-> FALSE]
        /\ proc[p].pc \in {"exec", "clean"} => sm = [version |-> Target(p), dirty |-> TRUE]
        /\ proc[p].pc = "clean" => (proc[p].to \in schema <=> proc[p].cmd = "up")

\* What is below the version of a step, or below one that is about to be rewound, is applied.
Covered(n) == \A v \in Versions : v < n => v \in schema

StepsBelow ==
    \/ severed /\ ops > 0
    \/ \A p \in Procs :
           /\ proc[p].pc \in Stepping => Covered(proc[p].to)
           /\ proc[p].redo /\ proc[p].pc \in {"record", "rewind"} => Covered(proc[p].v)

\* The history is empty until it has been backfilled, which is done by one process.
Backfilled ==
    /\ \A v \in Versions : backfills[v] <= 1 /\ (~rows => backfills[v] = 0)
    /\ \A p \in Procs : proc[p].pc = "backfill" /\ proc[p].conn => ~rows

\* A row that is still started says enough, together with the version row, to be resolved.
Resolvable(o) ==
    LET is(v, dirty) == sm = [version |-> v, dirty |-> dirty]
    IN  IF o.dir = "up"
        THEN (is(o.v - 1, FALSE) /\ Right(o.v)) \/ is(o.v, TRUE) \/ is(o.v, FALSE)
        ELSE \/ is(o.v, FALSE) /\ Right(o.v)
             \/ is(o.v, TRUE) \/ is(o.v - 1, TRUE)
             \/ is(o.v - 1, FALSE) /\ o.v \notin schema

\* What process p, which alone is past the lock, knows of the rows and the version row.
Knows(p) ==
    /\ proc[p].pc = "resolve" => proc[p].orphans = open
    /\ proc[p].pc \in {"resolve", "backfill"} => proc[p].seen = sm
    /\ proc[p].pc \notin Waiting \cup Working \cup {"orphans", "resolve"} => open = {}
    /\ proc[p].pc = "record" => open = {}
    /\ proc[p].pc \in Working \ {"record"} => open = {Row(p)}
    /\ proc[p].pc = "loop" => ~sm.dirty
    /\ proc[p].pc \in {"record", "rewind"} /\ proc[p].redo =>
           sm = [version |-> proc[p].v, dirty |-> TRUE]
    /\ proc[p].pc = "rewind" => Right(proc[p].v)
    /\ ((proc[p].pc = "record" /\ ~proc[p].redo) \/ proc[p].pc = "take") /\ proc[p].cmd = "up" =>
           sm = [version |-> proc[p].v - 1, dirty |-> FALSE]
    /\ proc[p].pc \in {"record", "take"} /\ proc[p].cmd # "up" => sm.version = proc[p].v
    /\ proc[p].pc \in Stepping => proc[p].to = proc[p].v
    /\ proc[p].pc = "complete" /\ proc[p].ok =>
           ~sm.dirty /\ (proc[p].v \in schema <=> proc[p].cmd = "up")
    /\ proc[p].pc = "complete" /\ ~proc[p].ok => sm.dirty \/ Right(proc[p].v)

Recorded ==
    ~severed =>
        /\ \A o \in open : Resolvable(o) /\ \A q \in open : q = o
        /\ \A v \in Versions : (\A o \in open : o.v # v) => Right(v)
        /\ \A p \in Procs : Knows(p)

------------------------------------------------------------------------------
(* Types and commands *)

\* The assumptions on the constants, in the form the proofs use them.
LEMMA Bounds ==
    /\ Top \in Nat /\ MaxFaults \in Nat /\ MaxOps \in Nat
    /\ NoProc \notin Procs /\ Versions = 0 .. Top
BY MigrationAssumption DEF MigrationAssumption, Versions

\* Who becomes what.
LEMMA Becomes ==
    ASSUME TypeOK, NEW p \in Procs, NEW q, Become(p, q)
    PROVE  /\ proc'[p] = q /\ \A r \in Procs \ {p} : proc'[r] = proc[r]
           /\ q \in ProcType => proc' \in [Procs -> ProcType]
BY DEF TypeOK, Become

\* A process that is gone is typed.
LEMMA GoneTyped ==
    /\ Gone \in ProcType
    /\ Gone.cmd = "none" /\ Gone.pc = "idle" /\ Gone.conn = FALSE /\ Gone.left = 0
    /\ Gone.v = 0 /\ Gone.redo = FALSE
BY Bounds DEF Gone, ProcType, Commands, PCs, State, Rows

\* What the end of a process does.
LEMMA Ends ==
    ASSUME TypeOK, NEW p \in Procs, End(p)
    PROVE  /\ proc'[p] = Gone /\ \A r \in Procs \ {p} : proc'[r] = proc[r]
           /\ proc' \in [Procs -> ProcType]
           /\ lock' = IF lock = p THEN NoProc ELSE lock
           /\ drvLock' = IF drvLock = p THEN NoProc ELSE drvLock
           /\ lock' \in Procs \cup {NoProc} /\ drvLock' \in Procs \cup {NoProc}
BY Becomes, GoneTyped DEF End, TypeOK

\* The start is typed.
LEMMA InitTyped == Init => TypeOK /\ Commanded
<1> SUFFICES ASSUME Init PROVE TypeOK /\ Commanded OBVIOUS
<1>1. sm \in State
  <2>1. CASE sm = [version |-> -1, dirty |-> FALSE] BY <2>1, Bounds DEF State
  <2>2. CASE sm \in [version : Versions, dirty : BOOLEAN] BY <2>2, Bounds DEF State
  <2> QED BY <2>1, <2>2 DEF Init
<1>2. schema \subseteq Versions BY <1>1, Bounds DEF Init, State
<1>3. proc \in [Procs -> ProcType] BY GoneTyped DEF Init
<1>4. faults \in 0 .. MaxFaults /\ ops \in 0 .. MaxOps BY Bounds DEF Init
<1>5. TypeOK BY <1>1, <1>2, <1>3, <1>4 DEF Init, TypeOK, Verdicts
<1>6. \A p \in Procs : proc[p] = Gone BY DEF Init
<1> QED BY <1>5, <1>6, GoneTyped DEF Commanded, Working, Stepping

\* A command stays what it is while its process goes on.
LEMMA CommandKept ==
    ASSUME TypeOK, Commanded, NEW p \in Procs, NEW q \in ProcType,
           proc'[p] = q, \A r \in Procs \ {p} : proc'[r] = proc[r], ops' = 0 => ops = 0,
           /\ q.pc \in {"boot", "count", "backfill", "drift", "dirty", "loop", "rewind"} => q.cmd = "up"
           /\ q.pc = "down" => q.cmd = "down"
           /\ q.pc \in Working => q.cmd = "up" \/ (q.cmd = "down" /\ q.left > 0)
           /\ q.pc = "rewind" => q.redo
           /\ q.redo => q.cmd = "up"
           /\ q.pc # "idle" => q.cmd # "none"
           /\ ops' = 0 => q.cmd \in {"none", "up"}
    PROVE  Commanded'
BY DEF Commanded

\* A process that ends, or steps that do not concern it, leave the commands alone.
LEMMA EndTyped ==
    ASSUME TypeOK, Commanded, NEW p \in Procs, End(p), ops' = ops
    PROVE  Commanded'
BY Ends, GoneTyped, CommandKept DEF Working, Stepping

\* A process that goes on from one place to another with the same command.
LEMMA GoesOn ==
    ASSUME TypeOK, Commanded, NEW p \in Procs, NEW q \in ProcType, Become(p, q), ops' = ops,
           q.cmd = proc[p].cmd, q.pc # "idle" => proc[p].pc # "idle",
           /\ q.pc \in {"boot", "count", "backfill", "drift", "dirty", "loop", "rewind"} => q.cmd = "up"
           /\ q.pc = "down" => q.cmd = "down"
           /\ q.pc \in Working => q.cmd = "up" \/ (q.cmd = "down" /\ q.left > 0)
           /\ q.pc = "rewind" => q.redo
           /\ q.redo => q.cmd = "up"
    PROVE  Commanded' /\ proc' \in [Procs -> ProcType]
BY Becomes, CommandKept DEF Commanded

\* What precedes the steps of a command.
LEMMA PreludeTyped ==
    ASSUME TypeOK, Commanded, NEW p \in Procs,
           \/ Up(p) \/ Operate(p) \/ Bootstrap(p) \/ AcquireLock(p) \/ RecoverOrphans(p)
           \/ ResolveOrphan(p) \/ OrphansDone(p) \/ CountHistory(p) \/ BackfillIfEmpty(p)
           \/ DetectDrift(p)
    PROVE  TypeOK' /\ Commanded'
<1>1. proc[p] \in ProcType /\ sm \in State /\ open \subseteq Rows BY DEF TypeOK
<1>2. CASE Up(p)
  <2>1. PICK q : q = [Gone EXCEPT !.cmd = "up", !.pc = "boot"] OBVIOUS
  <2>2. q \in ProcType /\ q.cmd = "up" /\ q.pc = "boot" /\ ~q.redo
    BY <2>1, GoneTyped DEF ProcType, Commands, PCs
  <2>3. Become(p, q) /\ ops' = ops BY <1>2, <2>1 DEF Up
  <2>4. Commanded' BY <2>2, <2>3, Becomes, CommandKept DEF Working, Stepping
  <2> QED BY <1>2, <2>2, <2>3, <2>4, Becomes DEF Up, TypeOK, history
<1>3. CASE Operate(p)
  <2>1. PICK cmd \in {"down", "force"} :
           Become(p, [Gone EXCEPT !.cmd = cmd, !.pc = "lock", !.left = 1])
    BY <1>3 DEF Operate
  <2>2. PICK q : q = [Gone EXCEPT !.cmd = cmd, !.pc = "lock", !.left = 1] OBVIOUS
  <2>3. q \in ProcType /\ q.cmd = cmd /\ q.pc = "lock" /\ ~q.redo
    BY <2>2, GoneTyped DEF ProcType, Commands, PCs
  <2>4. Become(p, q) /\ ops' = ops + 1 /\ ops < MaxOps /\ ops \in 0 .. MaxOps
    BY <1>3, <2>1, <2>2 DEF Operate, TypeOK
  <2>5. ops' \in 0 .. MaxOps /\ ops' # 0 BY <2>4, Bounds
  <2>6. Commanded' BY <2>3, <2>4, <2>5, Becomes, CommandKept DEF Working, Stepping
  <2> QED BY <1>3, <2>3, <2>4, <2>5, <2>6, Becomes DEF Operate, TypeOK, history
<1>4. CASE Bootstrap(p)
  <2>1. PICK q : q = [proc[p] EXCEPT !.pc = "lock"] OBVIOUS
  <2>2. /\ q \in ProcType /\ q.cmd = proc[p].cmd /\ q.pc = "lock" /\ q.redo = proc[p].redo
    BY <1>1, <2>1 DEF ProcType, PCs
  <2>3. Become(p, q) /\ ops' = ops /\ proc[p].pc = "boot" BY <1>4, <2>1 DEF Bootstrap, Goto
  <2>4. Commanded' /\ proc' \in [Procs -> ProcType]
    BY <2>2, <2>3, GoesOn DEF Working, Stepping, Commanded
  <2> QED BY <1>4, <2>4 DEF Bootstrap, TypeOK, history
<1>5. CASE AcquireLock(p)
  <2>1. PICK q : q = [proc[p] EXCEPT !.pc = "orphans", !.conn = TRUE] OBVIOUS
  <2>2. /\ q \in ProcType /\ q.cmd = proc[p].cmd /\ q.pc = "orphans" /\ q.redo = proc[p].redo
    BY <1>1, <2>1 DEF ProcType, PCs
  <2>3. Become(p, q) /\ ops' = ops /\ proc[p].pc = "lock" BY <1>5, <2>1 DEF AcquireLock
  <2>4. Commanded' /\ proc' \in [Procs -> ProcType]
    BY <2>2, <2>3, GoesOn DEF Working, Stepping, Commanded
  <2> QED BY <1>5, <2>4 DEF AcquireLock, TypeOK, history
<1>6. CASE RecoverOrphans(p)
  <2>1. PICK q : q = [proc[p] EXCEPT !.pc = "resolve", !.orphans = open, !.seen = sm] OBVIOUS
  <2>2. /\ q \in ProcType /\ q.cmd = proc[p].cmd /\ q.pc = "resolve" /\ q.redo = proc[p].redo
    BY <1>1, <2>1 DEF ProcType, PCs
  <2>3. Become(p, q) /\ ops' = ops /\ proc[p].pc = "orphans" BY <1>6, <2>1 DEF RecoverOrphans
  <2>4. Commanded' /\ proc' \in [Procs -> ProcType]
    BY <2>2, <2>3, GoesOn DEF Working, Stepping, Commanded
  <2> QED BY <1>6, <2>4 DEF RecoverOrphans, TypeOK, history
<1>7. CASE ResolveOrphan(p)
  <2>1. PICK o \in proc[p].orphans :
           /\ Tell(o.v, Verdict(o, proc[p].seen)) /\ open' = open \ {o}
           /\ Become(p, [proc[p] EXCEPT !.orphans = proc[p].orphans \ {o}])
    BY <1>7 DEF ResolveOrphan
  <2>2. PICK q : q = [proc[p] EXCEPT !.orphans = proc[p].orphans \ {o}] OBVIOUS
  <2>3. /\ q \in ProcType /\ q.cmd = proc[p].cmd /\ q.pc = proc[p].pc /\ q.redo = proc[p].redo
        /\ o.v \in Versions
    BY <1>1, <2>1, <2>2 DEF ProcType, Rows
  <2>4. Become(p, q) /\ ops' = ops /\ proc[p].pc = "resolve" BY <1>7, <2>1, <2>2 DEF ResolveOrphan
  <2>5. Commanded' /\ proc' \in [Procs -> ProcType]
    BY <2>3, <2>4, GoesOn DEF Working, Stepping, Commanded
  <2>6. o.dir \in {"up", "down"} BY <1>1, <2>1 DEF ProcType, Rows
  <2>7. Verdict(o, proc[p].seen) \in Verdicts \cup {"failed"} BY <2>6 DEF Verdict, Verdicts
  <2>8. told' \in [Versions -> Verdicts] BY <2>1, <2>3, <2>7 DEF Tell, TypeOK
  <2>9. open' \subseteq Rows BY <1>1, <2>1
  <2> QED BY <1>7, <2>5, <2>8, <2>9 DEF ResolveOrphan, TypeOK
<1>8. CASE OrphansDone(p)
  <2>1. PICK q : q = [proc[p] EXCEPT !.pc = IF proc[p].cmd = "up" THEN "count" ELSE proc[p].cmd]
    OBVIOUS
  <2>2. proc[p].pc = "resolve" /\ proc[p].cmd \in {"up", "down", "force"}
    BY <1>1, <1>8 DEF OrphansDone, Commanded, ProcType, Commands
  <2>3. /\ q \in ProcType /\ q.cmd = proc[p].cmd /\ q.redo = proc[p].redo
        /\ q.pc = IF proc[p].cmd = "up" THEN "count" ELSE proc[p].cmd
    BY <1>1, <2>1, <2>2 DEF ProcType, PCs
  <2>4. Become(p, q) /\ ops' = ops BY <1>8, <2>1 DEF OrphansDone, Goto
  <2>5. Commanded' /\ proc' \in [Procs -> ProcType]
    BY <2>2, <2>3, <2>4, GoesOn DEF Working, Stepping, Commanded
  <2> QED BY <1>8, <2>5 DEF OrphansDone, TypeOK, history
<1>9. CASE CountHistory(p)
  <2>1. PICK q : q = [proc[p] EXCEPT !.seen = sm,
                                 !.pc = IF ~rows /\ HasRow(sm) THEN "backfill" ELSE "drift"]
    OBVIOUS
  <2>2. /\ q \in ProcType /\ q.cmd = proc[p].cmd /\ q.redo = proc[p].redo
        /\ q.pc \in {"backfill", "drift"}
    BY <1>1, <2>1 DEF ProcType, PCs
  <2>3. Become(p, q) /\ ops' = ops /\ proc[p].pc = "count" BY <1>9, <2>1 DEF CountHistory
  <2>4. Commanded' /\ proc' \in [Procs -> ProcType]
    BY <2>2, <2>3, GoesOn DEF Working, Stepping, Commanded
  <2> QED BY <1>9, <2>4 DEF CountHistory, TypeOK, history
<1>10. CASE BackfillIfEmpty(p)
  <2>1. PICK q : q = [proc[p] EXCEPT !.pc = "drift"] OBVIOUS
  <2>2. q \in ProcType /\ q.cmd = proc[p].cmd /\ q.redo = proc[p].redo /\ q.pc = "drift"
    BY <1>1, <2>1 DEF ProcType, PCs
  <2>3. Become(p, q) /\ ops' = ops /\ proc[p].pc = "backfill"
    BY <1>10, <2>1 DEF BackfillIfEmpty, Goto
  <2>4. Commanded' /\ proc' \in [Procs -> ProcType]
    BY <2>2, <2>3, GoesOn DEF Working, Stepping, Commanded
  <2>5. told' \in [Versions -> Verdicts] BY <1>10 DEF BackfillIfEmpty, TypeOK, Verdicts
  <2>6. backfills' \in [Versions -> Nat]
    <3> DEFINE more(v) == IF v \in 0 .. proc[p].seen.version THEN 1 ELSE 0
    <3>1. backfills' = [v \in Versions |-> backfills[v] + more(v)] BY <1>10 DEF BackfillIfEmpty
    <3>2. \A v \in Versions : backfills[v] \in Nat /\ more(v) \in Nat BY DEF TypeOK
    <3> HIDE DEF more
    <3> QED BY <3>1, <3>2
  <2>7. rows' \in BOOLEAN BY <1>10 DEF BackfillIfEmpty
  <2> QED BY <1>10, <2>4, <2>5, <2>6, <2>7 DEF BackfillIfEmpty, TypeOK
<1>11. CASE DetectDrift(p)
  <2>1. PICK q : q = [proc[p] EXCEPT !.pc = "dirty"] OBVIOUS
  <2>2. q \in ProcType /\ q.cmd = proc[p].cmd /\ q.redo = proc[p].redo /\ q.pc = "dirty"
    BY <1>1, <2>1 DEF ProcType, PCs
  <2>3. Become(p, q) /\ ops' = ops /\ proc[p].pc = "drift" BY <1>11, <2>1 DEF DetectDrift, Goto
  <2>4. Commanded' /\ proc' \in [Procs -> ProcType]
    BY <2>2, <2>3, GoesOn DEF Working, Stepping, Commanded
  <2> QED BY <1>11, <2>4 DEF DetectDrift, TypeOK, history
<1> QED BY <1>2, <1>3, <1>4, <1>5, <1>6, <1>7, <1>8, <1>9, <1>10, <1>11

\* The steps of a command.
LEMMA StepsTyped ==
    ASSUME TypeOK, Commanded, NEW p \in Procs,
           \/ ReapplyDirty(p) \/ NextPendingUp(p) \/ NextDown(p) \/ RecordStarted(p) \/ Rewind(p)
           \/ Steps(p) \/ MarkDirty(p) \/ RunScript(p) \/ MarkClean(p)
    PROVE  TypeOK' /\ Commanded'
<1>1. proc[p] \in ProcType /\ sm \in State /\ open \subseteq Rows BY DEF TypeOK
<1>2. ASSUME End(p), UNCHANGED <<table, sm, schema, history, faults, ops, severed>>
      PROVE  TypeOK' /\ Commanded'
  BY <1>2, Ends, EndTyped DEF TypeOK, history
<1>3. CASE ReapplyDirty(p)
  <2>1. CASE ~sm.dirty /\ Goto(p, "loop") /\ UNCHANGED <<lock, drvLock>>
    <3>1. PICK q : q = [proc[p] EXCEPT !.pc = "loop"] OBVIOUS
    <3>2. q \in ProcType /\ q.cmd = proc[p].cmd /\ q.redo = proc[p].redo /\ q.pc = "loop"
      BY <1>1, <3>1 DEF ProcType, PCs
    <3>3. Become(p, q) /\ ops' = ops /\ proc[p].pc = "dirty"
      BY <1>3, <2>1, <3>1 DEF ReapplyDirty, Goto
    <3>4. Commanded' /\ proc' \in [Procs -> ProcType]
      BY <3>2, <3>3, GoesOn DEF Working, Stepping, Commanded
    <3> QED BY <1>3, <2>1, <3>4 DEF ReapplyDirty, TypeOK, history
  <2>2. CASE /\ sm.dirty /\ sm.version \in Versions
             /\ Become(p, [proc[p] EXCEPT !.pc = "record", !.v = sm.version, !.redo = TRUE])
             /\ UNCHANGED <<lock, drvLock>>
    <3>1. PICK q : q = [proc[p] EXCEPT !.pc = "record", !.v = sm.version, !.redo = TRUE] OBVIOUS
    <3>2. q \in ProcType /\ q.cmd = proc[p].cmd /\ q.pc = "record"
      BY <1>1, <2>2, <3>1 DEF ProcType, PCs
    <3>3. Become(p, q) /\ ops' = ops /\ proc[p].pc = "dirty"
      BY <1>3, <2>2, <3>1 DEF ReapplyDirty
    <3>4. Commanded' /\ proc' \in [Procs -> ProcType]
      BY <3>2, <3>3, GoesOn DEF Working, Stepping, Commanded
    <3> QED BY <1>3, <2>2, <3>4 DEF ReapplyDirty, TypeOK, history
  <2> QED BY <1>2, <1>3, <2>1, <2>2 DEF ReapplyDirty
<1>4. CASE NextPendingUp(p)
  <2>1. CASE /\ sm.version < Top
             /\ Become(p, [proc[p] EXCEPT !.pc = "record", !.v = sm.version + 1, !.redo = FALSE])
             /\ UNCHANGED <<lock, drvLock>>
    <3>1. PICK q : q = [proc[p] EXCEPT !.pc = "record", !.v = sm.version + 1, !.redo = FALSE]
      OBVIOUS
    <3>2. sm.version + 1 \in Versions BY <1>1, <2>1, Bounds DEF State
    <3>3. q \in ProcType /\ q.cmd = proc[p].cmd /\ q.pc = "record" /\ ~q.redo
      BY <1>1, <3>1, <3>2 DEF ProcType, PCs
    <3>4. Become(p, q) /\ ops' = ops /\ proc[p].pc = "loop"
      BY <1>4, <2>1, <3>1 DEF NextPendingUp
    <3>5. Commanded' /\ proc' \in [Procs -> ProcType]
      BY <3>3, <3>4, GoesOn DEF Working, Stepping, Commanded
    <3> QED BY <1>4, <2>1, <3>5 DEF NextPendingUp, TypeOK, history
  <2> QED BY <1>2, <1>4, <2>1 DEF NextPendingUp
<1>5. CASE NextDown(p)
  <2>1. CASE /\ proc[p].left > 0 /\ sm.version # -1
             /\ Become(p, [proc[p] EXCEPT !.pc = "record", !.v = sm.version])
             /\ UNCHANGED <<lock, drvLock>>
    <3>1. PICK q : q = [proc[p] EXCEPT !.pc = "record", !.v = sm.version] OBVIOUS
    <3>2. sm.version \in Versions BY <1>1, <2>1, Bounds DEF State
    <3>3. /\ q \in ProcType /\ q.cmd = proc[p].cmd /\ q.pc = "record" /\ q.redo = proc[p].redo
          /\ q.left = proc[p].left
      BY <1>1, <3>1, <3>2 DEF ProcType, PCs
    <3>4. Become(p, q) /\ ops' = ops /\ proc[p].pc = "down"
      BY <1>5, <2>1, <3>1 DEF NextDown
    <3>5. Commanded' /\ proc' \in [Procs -> ProcType]
      BY <2>1, <3>3, <3>4, GoesOn DEF Working, Stepping, Commanded
    <3> QED BY <1>5, <2>1, <3>5 DEF NextDown, TypeOK, history
  <2> QED BY <1>2, <1>5, <2>1 DEF NextDown
<1>6. ASSUME NEW q \in ProcType, Become(p, q), ops' = ops, q.cmd = proc[p].cmd,
             q.redo = proc[p].redo, q.left = proc[p].left, proc[p].pc \in Working,
             q.pc \in Working, q.pc = "rewind" => q.redo
      PROVE  Commanded' /\ proc' \in [Procs -> ProcType]
  BY <1>6, GoesOn DEF Working, Stepping, Commanded
<1>7. CASE RecordStarted(p)
  <2>1. PICK q : q = [proc[p] EXCEPT !.pc = IF proc[p].redo THEN "rewind" ELSE "take"] OBVIOUS
  <2>2. /\ q \in ProcType /\ q.cmd = proc[p].cmd /\ q.redo = proc[p].redo
        /\ q.left = proc[p].left /\ q.pc \in Working /\ (q.pc = "rewind" => q.redo)
    BY <1>1, <2>1 DEF ProcType, PCs, Working, Stepping
  <2>3. Become(p, q) /\ ops' = ops /\ proc[p].pc = "record"
    BY <1>7, <2>1 DEF RecordStarted, Goto
  <2>4. Row(p) \in Rows BY <1>1 DEF Row, Rows, ProcType
  <2>5. Commanded' /\ proc' \in [Procs -> ProcType]
    BY <1>6, <2>2, <2>3 DEF Working
  <2> QED BY <1>1, <1>7, <2>4, <2>5 DEF RecordStarted, TypeOK
<1>8. CASE Rewind(p)
  <2>1. PICK q : q = [proc[p] EXCEPT !.pc = "take"] OBVIOUS
  <2>2. /\ q \in ProcType /\ q.cmd = proc[p].cmd /\ q.redo = proc[p].redo
        /\ q.left = proc[p].left /\ q.pc = "take"
    BY <1>1, <2>1 DEF ProcType, PCs
  <2>3. Become(p, q) /\ ops' = ops /\ proc[p].pc = "rewind" BY <1>8, <2>1 DEF Rewind, Goto
  <2>4. sm' \in State
    <3>1. proc[p].v - 1 \in -1 .. Top BY <1>1, Bounds DEF ProcType
    <3> QED BY <1>8, <3>1 DEF Rewind, State
  <2>5. Commanded' /\ proc' \in [Procs -> ProcType]
    BY <1>6, <2>2, <2>3 DEF Working
  <2> QED BY <1>8, <2>4, <2>5 DEF Rewind, TypeOK, history
<1>9. CASE Steps(p)
  <2> DEFINE up == proc[p].cmd = "up"
             to == IF up THEN sm.version + 1 ELSE sm.version
             none == sm.dirty \/ (up /\ sm.version = Top) \/ (~up /\ sm.version = -1)
  <2>1. CASE none /\ Become(p, [proc[p] EXCEPT !.pc = "complete", !.ok = FALSE])
             /\ UNCHANGED drvLock
    <3>1. PICK q : q = [proc[p] EXCEPT !.pc = "complete", !.ok = FALSE] OBVIOUS
    <3>2. /\ q \in ProcType /\ q.cmd = proc[p].cmd /\ q.redo = proc[p].redo
          /\ q.left = proc[p].left /\ q.pc = "complete"
      BY <1>1, <3>1 DEF ProcType, PCs
    <3>3. Become(p, q) /\ ops' = ops /\ proc[p].pc = "take" BY <1>9, <2>1, <3>1 DEF Steps
    <3>4. Commanded' /\ proc' \in [Procs -> ProcType] BY <1>6, <3>2, <3>3 DEF Working
    <3> QED BY <1>9, <2>1, <3>4 DEF Steps, TypeOK, history
  <2>2. CASE ~none /\ drvLock' = p /\ Become(p, [proc[p] EXCEPT !.pc = "mark", !.to = to])
    <3>1. PICK q : q = [proc[p] EXCEPT !.pc = "mark", !.to = to] OBVIOUS
    <3>2. to \in Versions BY <1>1, <2>2, Bounds DEF State
    <3>3. /\ q \in ProcType /\ q.cmd = proc[p].cmd /\ q.redo = proc[p].redo
          /\ q.left = proc[p].left /\ q.pc = "mark"
      BY <1>1, <3>1, <3>2 DEF ProcType, PCs
    <3>4. Become(p, q) /\ ops' = ops /\ proc[p].pc = "take" BY <1>9, <2>2, <3>1 DEF Steps
    <3>5. Commanded' /\ proc' \in [Procs -> ProcType]
      BY <1>6, <3>3, <3>4 DEF Working, Stepping
    <3> QED BY <1>9, <2>2, <3>5 DEF Steps, TypeOK, history
  <2> QED BY <1>9, <2>1, <2>2 DEF Steps
<1>10. CASE MarkDirty(p) \/ MarkClean(p)
  <2>1. Target(p) \in -1 .. Top BY <1>1, Bounds DEF Target, ProcType
  <2>2. sm' \in State
    <3>1. /\ [version |-> Target(p), dirty |-> TRUE] \in State
          /\ [version |-> Target(p), dirty |-> FALSE] \in State
      BY <2>1 DEF State
    <3> QED BY <1>10, <3>1 DEF MarkDirty, MarkClean
  <2>3. drvLock' \in Procs \cup {NoProc} BY <1>10 DEF MarkDirty, MarkClean, TypeOK
  <2>4. PICK q : q = IF MarkDirty(p) THEN [proc[p] EXCEPT !.pc = "exec"]
                     ELSE [proc[p] EXCEPT !.pc = "complete", !.ok = TRUE]
    OBVIOUS
  <2>5. /\ q \in ProcType /\ q.cmd = proc[p].cmd /\ q.redo = proc[p].redo
        /\ q.left = proc[p].left /\ q.pc \in {"exec", "complete"}
    BY <1>1, <2>4 DEF ProcType, PCs
  <2>6. Become(p, q) /\ ops' = ops /\ proc[p].pc \in {"mark", "clean"}
    BY <1>10, <2>4 DEF MarkDirty, MarkClean, Goto
  <2>7. Commanded' /\ proc' \in [Procs -> ProcType]
    BY <1>6, <2>5, <2>6 DEF Working, Stepping
  <2> QED BY <1>10, <2>2, <2>3, <2>7 DEF MarkDirty, MarkClean, TypeOK, history
<1>11. CASE RunScript(p)
  <2>1. schema' \subseteq Versions BY <1>1, <1>11 DEF RunScript, TypeOK, ProcType
  <2>2. drvLock' \in Procs \cup {NoProc} BY <1>11 DEF RunScript, TypeOK
  <2>3. PICK q : /\ Become(p, q)
                 /\ \/ q = [proc[p] EXCEPT !.pc = "clean"]
                    \/ q = [proc[p] EXCEPT !.pc = "complete", !.ok = FALSE]
    BY <1>11 DEF RunScript, Goto
  <2>4. /\ q \in ProcType /\ q.cmd = proc[p].cmd /\ q.redo = proc[p].redo
        /\ q.left = proc[p].left /\ q.pc \in {"clean", "complete"}
    BY <1>1, <2>3 DEF ProcType, PCs
  <2>5. ops' = ops /\ proc[p].pc = "exec" BY <1>11 DEF RunScript
  <2>6. Commanded' /\ proc' \in [Procs -> ProcType]
    BY <1>6, <2>3, <2>4, <2>5 DEF Working, Stepping
  <2> QED BY <1>11, <2>1, <2>2, <2>6 DEF RunScript, TypeOK, history
<1> QED BY <1>3, <1>4, <1>5, <1>7, <1>8, <1>9, <1>10, <1>11

\* The end of a step and of a command.
LEMMA EndsTyped ==
    ASSUME TypeOK, Commanded, NEW p \in Procs,
           \/ CompleteRow(p) \/ ForceVersion(p) \/ ForceNothing(p) \/ RecordForce(p)
           \/ Disconnected(p) \/ DriftRefused(p) \/ StepFails(p) \/ LoseConn(p) \/ Crash(p)
    PROVE  TypeOK' /\ Commanded'
<1>1. proc[p] \in ProcType /\ sm \in State /\ open \subseteq Rows BY DEF TypeOK
<1>2. CASE ForceNothing(p) \/ RecordForce(p) \/ Disconnected(p)
  BY <1>2, Ends, EndTyped DEF ForceNothing, RecordForce, Disconnected, TypeOK, history
<1>3. faults < MaxFaults /\ faults' = faults + 1 => faults' \in 0 .. MaxFaults
  BY Bounds DEF TypeOK
<1>4. CASE DriftRefused(p) \/ Crash(p)
  BY <1>3, <1>4, Ends, EndTyped DEF DriftRefused, Crash, TypeOK, history
<1>5. CASE CompleteRow(p)
  <2> DEFINE told1 == CASE proc[p].ok -> Row(p).dir
                        [] ~proc[p].ok /\ sm.dirty -> "dirty"
                        [] ~proc[p].ok /\ ~sm.dirty -> "failed"
  <2>1. told1 \in Verdicts \cup {"failed"} /\ proc[p].v \in Versions
    BY <1>1 DEF Row, Verdicts, ProcType, State
  <2>2. told' \in [Versions -> Verdicts] /\ open' \subseteq Rows
    <3>1. Tell(proc[p].v, told1) BY <1>5 DEF CompleteRow
    <3> HIDE DEF told1
    <3>2. open' \subseteq Rows BY <1>1, <1>5 DEF CompleteRow
    <3>3. CASE told1 = "failed" BY <3>1, <3>2, <3>3 DEF Tell, TypeOK
    <3>4. CASE told1 \in Verdicts /\ told1 # "failed"
      BY <2>1, <3>1, <3>2, <3>4 DEF Tell, TypeOK
    <3> QED BY <2>1, <3>3, <3>4
  <2>3. CASE proc[p].ok /\ UNCHANGED <<lock, drvLock>> /\
             Become(p, IF proc[p].cmd = "up" THEN [proc[p] EXCEPT !.pc = "loop"]
                       ELSE [proc[p] EXCEPT !.pc = "down", !.left = proc[p].left - 1])
    <3>1. PICK q : q = IF proc[p].cmd = "up" THEN [proc[p] EXCEPT !.pc = "loop"]
                       ELSE [proc[p] EXCEPT !.pc = "down", !.left = proc[p].left - 1]
      OBVIOUS
    <3>2. /\ proc[p].pc = "complete"
          /\ proc[p].cmd = "up" \/ (proc[p].cmd = "down" /\ proc[p].left > 0)
      BY <1>5 DEF CompleteRow, Commanded, Working
    <3>3. /\ q \in ProcType /\ q.cmd = proc[p].cmd /\ q.redo = proc[p].redo
          /\ q.pc = IF proc[p].cmd = "up" THEN "loop" ELSE "down"
      <4>1. CASE proc[p].cmd = "up" BY <1>1, <3>1, <4>1 DEF ProcType, PCs
      <4>2. CASE proc[p].cmd # "up"
        <5>1. proc[p].left - 1 \in Nat BY <1>1, <3>2, <4>2 DEF ProcType
        <5> QED BY <1>1, <3>1, <4>2, <5>1 DEF ProcType, PCs
      <4> QED BY <4>1, <4>2
    <3>4. Become(p, q) /\ ops' = ops BY <1>5, <2>3, <3>1 DEF CompleteRow
    <3>5. Commanded' /\ proc' \in [Procs -> ProcType]
      BY <3>2, <3>3, <3>4, GoesOn DEF Working, Stepping, Commanded
    <3> QED BY <1>5, <2>2, <2>3, <3>5 DEF CompleteRow, TypeOK
  <2>4. CASE End(p) BY <1>5, <2>2, <2>4, Ends, EndTyped DEF CompleteRow, TypeOK
  <2> QED BY <1>5, <2>3, <2>4 DEF CompleteRow
<1>6. CASE ForceVersion(p)
  <2>1. PICK q : q = [proc[p] EXCEPT !.pc = "recordforce"] OBVIOUS
  <2>2. /\ q \in ProcType /\ q.cmd = proc[p].cmd /\ q.redo = proc[p].redo
        /\ q.pc = "recordforce"
    BY <1>1, <2>1 DEF ProcType, PCs
  <2>3. Become(p, q) /\ ops' = ops /\ proc[p].pc = "force" BY <1>6, <2>1 DEF ForceVersion, Goto
  <2>4. sm' \in State BY <1>6, Bounds DEF ForceVersion, State
  <2>5. Commanded' /\ proc' \in [Procs -> ProcType]
    BY <2>2, <2>3, GoesOn DEF Working, Stepping, Commanded
  <2> QED BY <1>6, <2>4, <2>5 DEF ForceVersion, TypeOK, history
<1>7. CASE StepFails(p)
  <2>1. PICK q : q = [proc[p] EXCEPT !.pc = "complete", !.ok = FALSE] OBVIOUS
  <2>2. /\ q \in ProcType /\ q.cmd = proc[p].cmd /\ q.redo = proc[p].redo
        /\ q.left = proc[p].left /\ q.pc = "complete"
    BY <1>1, <2>1 DEF ProcType, PCs
  <2>3. Become(p, q) /\ ops' = ops /\ proc[p].pc \in Working \ {"record", "complete"}
    BY <1>7, <2>1 DEF StepFails, Working, Stepping
  <2>4. Commanded' /\ proc' \in [Procs -> ProcType]
    BY <2>2, <2>3, GoesOn DEF Working, Stepping, Commanded
  <2> QED BY <1>3, <1>7, <2>4 DEF StepFails, TypeOK, history
<1>8. CASE LoseConn(p)
  <2>1. PICK q : q = [proc[p] EXCEPT !.conn = FALSE] OBVIOUS
  <2>2. /\ q \in ProcType /\ q.cmd = proc[p].cmd /\ q.redo = proc[p].redo
        /\ q.left = proc[p].left /\ q.pc = proc[p].pc
    BY <1>1, <2>1 DEF ProcType, PCs
  <2>3. Become(p, q) /\ ops' = ops BY <1>8, <2>1 DEF LoseConn
  <2>4. Commanded' /\ proc' \in [Procs -> ProcType]
    BY <2>2, <2>3, GoesOn DEF Commanded
  <2> QED BY <1>3, <1>8, <2>4 DEF LoseConn, TypeOK, history
<1> QED BY <1>2, <1>4, <1>5, <1>6, <1>7, <1>8

\* Every step keeps the types and the commands.
LEMMA NextTyped == ASSUME TypeOK, Commanded, [Next]_vars PROVE TypeOK' /\ Commanded'
<1>1. CASE UNCHANGED vars BY <1>1 DEF vars, history, TypeOK, Commanded
<1>2. ASSUME NEW p \in Procs,
             \/ Up(p) \/ Operate(p) \/ Step(p)
             \/ DriftRefused(p) \/ StepFails(p) \/ LoseConn(p) \/ Crash(p)
      PROVE  TypeOK' /\ Commanded'
  BY <1>2, PreludeTyped, StepsTyped, EndsTyped DEF Step
<1> QED BY <1>1, <1>2 DEF Next

\* So they hold in every reachable state.
LEMMA TypedInvariant == Spec => [](TypeOK /\ Commanded)
BY InitTyped, NextTyped, PTL DEF Spec

\* Whatever dies, fails or overlaps, the tables, the locks and the processes are typed.
THEOREM TypeCorrect == Spec => []TypeOK
BY TypedInvariant, PTL

------------------------------------------------------------------------------
(* What the steps of a process do to it *)

Others(p) == \A r \in Procs \ {p} : proc'[r] = proc[r]
Same(p)   == /\ proc'[p].cmd = proc[p].cmd /\ proc'[p].conn = proc[p].conn
             /\ proc'[p].redo = proc[p].redo /\ proc'[p].v = proc[p].v
Reads(p)  == proc'[p].orphans = proc[p].orphans /\ proc'[p].seen = proc[p].seen

\* What each action does to who holds which lock, and where the process is then.
LEMMA GotoDoes ==
    ASSUME TypeOK, NEW p \in Procs, NEW x, Goto(p, x)
    PROVE  /\ Others(p) /\ Same(p) /\ Reads(p) /\ proc'[p].pc = x
           /\ proc'[p].to = proc[p].to /\ proc'[p].ok = proc[p].ok
<1>1. PICK q : q = [proc[p] EXCEPT !.pc = x] OBVIOUS
<1>2. proc'[p] = q /\ Others(p) BY <1>1, Becomes DEF Goto, Others
<1>3. proc[p] \in ProcType BY DEF TypeOK
<1> QED BY <1>1, <1>2, <1>3 DEF Same, Reads, ProcType

LEMMA StartDoes ==
    ASSUME TypeOK, NEW p \in Procs, Up(p) \/ Operate(p)
    PROVE  /\ Others(p) /\ proc[p].pc = "idle" /\ proc'[p].pc \in {"boot", "lock"}
           /\ ~proc'[p].conn /\ ~proc'[p].redo
<1>1. CASE Up(p)
  <2>1. PICK q : q = [Gone EXCEPT !.cmd = "up", !.pc = "boot"] OBVIOUS
  <2>2. q.pc = "boot" /\ ~q.conn /\ ~q.redo BY <2>1, GoneTyped DEF ProcType
  <2>3. proc'[p] = q /\ Others(p) BY <1>1, <2>1, Becomes DEF Up, Others
  <2> QED BY <1>1, <2>2, <2>3 DEF Up
<1>2. CASE Operate(p)
  <2>1. PICK cmd \in {"down", "force"} :
           Become(p, [Gone EXCEPT !.cmd = cmd, !.pc = "lock", !.left = 1])
    BY <1>2 DEF Operate
  <2>2. PICK q : q = [Gone EXCEPT !.cmd = cmd, !.pc = "lock", !.left = 1] OBVIOUS
  <2>3. q.pc = "lock" /\ ~q.conn /\ ~q.redo BY <2>2, GoneTyped DEF ProcType
  <2>4. proc'[p] = q /\ Others(p) BY <2>1, <2>2, Becomes DEF Others
  <2> QED BY <1>2, <2>3, <2>4 DEF Operate
<1> QED BY <1>1, <1>2

LEMMA AcquireDoes ==
    ASSUME TypeOK, NEW p \in Procs, AcquireLock(p)
    PROVE  Others(p) /\ proc'[p].pc = "orphans" /\ proc'[p].conn /\ proc'[p].redo = proc[p].redo
<1>1. PICK q : q = [proc[p] EXCEPT !.pc = "orphans", !.conn = TRUE] OBVIOUS
<1>2. proc'[p] = q /\ Others(p) BY <1>1, Becomes DEF AcquireLock, Others
<1>3. proc[p] \in ProcType BY DEF TypeOK
<1> QED BY <1>1, <1>2, <1>3 DEF ProcType

LEMMA RecoverDoes ==
    ASSUME TypeOK, NEW p \in Procs, RecoverOrphans(p)
    PROVE  /\ Others(p) /\ Same(p) /\ proc'[p].pc = "resolve"
           /\ proc'[p].orphans = open /\ proc'[p].seen = sm
<1>1. PICK q : q = [proc[p] EXCEPT !.pc = "resolve", !.orphans = open, !.seen = sm] OBVIOUS
<1>2. proc'[p] = q /\ Others(p) BY <1>1, Becomes DEF RecoverOrphans, Others
<1>3. proc[p] \in ProcType BY DEF TypeOK
<1> QED BY <1>1, <1>2, <1>3 DEF Same, ProcType

LEMMA ResolveDoes ==
    ASSUME TypeOK, NEW p \in Procs, ResolveOrphan(p)
    PROVE  /\ Others(p) /\ Same(p) /\ proc'[p].pc = "resolve" /\ proc'[p].seen = proc[p].seen
           /\ \E o \in proc[p].orphans :
                 /\ Tell(o.v, Verdict(o, proc[p].seen))
                 /\ open' = open \ {o} /\ proc'[p].orphans = proc[p].orphans \ {o}
<1>1. PICK o \in proc[p].orphans :
         /\ Tell(o.v, Verdict(o, proc[p].seen)) /\ open' = open \ {o}
         /\ Become(p, [proc[p] EXCEPT !.orphans = proc[p].orphans \ {o}])
  BY DEF ResolveOrphan
<1>2. PICK q : q = [proc[p] EXCEPT !.orphans = proc[p].orphans \ {o}] OBVIOUS
<1>3. proc'[p] = q /\ Others(p) BY <1>1, <1>2, Becomes DEF Others
<1>4. proc[p] \in ProcType /\ proc[p].pc = "resolve" BY DEF TypeOK, ResolveOrphan
<1>5. /\ Same(p) /\ proc'[p].pc = "resolve" /\ proc'[p].seen = proc[p].seen
      /\ proc'[p].orphans = proc[p].orphans \ {o}
  BY <1>2, <1>3, <1>4 DEF Same, ProcType
<1> QED BY <1>1, <1>3, <1>5

LEMMA CountDoes ==
    ASSUME TypeOK, NEW p \in Procs, CountHistory(p)
    PROVE  /\ Others(p) /\ Same(p) /\ proc'[p].seen = sm
           /\ proc'[p].pc = IF ~rows /\ HasRow(sm) THEN "backfill" ELSE "drift"
<1>1. PICK q : q = [proc[p] EXCEPT !.seen = sm,
                              !.pc = IF ~rows /\ HasRow(sm) THEN "backfill" ELSE "drift"]
  OBVIOUS
<1>2. proc'[p] = q /\ Others(p) BY <1>1, Becomes DEF CountHistory, Others
<1>3. proc[p] \in ProcType BY DEF TypeOK
<1> QED BY <1>1, <1>2, <1>3 DEF Same, ProcType

\* A process that turns to its next step, or ends.
LEMMA TurnsDoes ==
    ASSUME TypeOK, Commanded, NEW p \in Procs, ReapplyDirty(p) \/ NextPendingUp(p) \/ NextDown(p)
    PROVE  /\ Others(p)
           /\ \/ proc'[p] = Gone /\ End(p)
              \/ /\ proc'[p].cmd = proc[p].cmd /\ proc'[p].conn = proc[p].conn
                 /\ UNCHANGED <<lock, drvLock>>
                 /\ \/ ReapplyDirty(p) /\ ~sm.dirty /\ proc'[p].pc = "loop"
                    \/ /\ ReapplyDirty(p) /\ sm.dirty /\ proc'[p].pc = "record"
                       /\ proc'[p].v = sm.version /\ proc'[p].redo
                    \/ /\ NextPendingUp(p) /\ proc'[p].pc = "record"
                       /\ proc'[p].v = sm.version + 1 /\ ~proc'[p].redo /\ sm.version < Top
                    \/ /\ NextDown(p) /\ proc'[p].pc = "record"
                       /\ proc'[p].v = sm.version /\ ~proc'[p].redo /\ sm.version # -1
<1>1. proc[p] \in ProcType BY DEF TypeOK
<1>2. CASE End(p) BY <1>2, Ends DEF Others
<1>3. CASE ReapplyDirty(p) /\ ~sm.dirty /\ Goto(p, "loop") /\ UNCHANGED <<lock, drvLock>>
  BY <1>3, GotoDoes DEF Same
<1>4. ASSUME NEW v, NEW redo, UNCHANGED <<lock, drvLock>>,
             Become(p, [proc[p] EXCEPT !.pc = "record", !.v = v, !.redo = redo])
      PROVE  /\ Others(p) /\ proc'[p].cmd = proc[p].cmd /\ proc'[p].conn = proc[p].conn
             /\ proc'[p].pc = "record" /\ proc'[p].v = v /\ proc'[p].redo = redo
  <2>1. PICK q : q = [proc[p] EXCEPT !.pc = "record", !.v = v, !.redo = redo] OBVIOUS
  <2>2. proc'[p] = q /\ Others(p) BY <1>4, <2>1, Becomes DEF Others
  <2> QED BY <1>1, <2>1, <2>2 DEF ProcType
<1>5. CASE ReapplyDirty(p) BY <1>2, <1>3, <1>4, <1>5 DEF ReapplyDirty
<1>6. CASE NextPendingUp(p) BY <1>2, <1>4, <1>6 DEF NextPendingUp
<1>7. CASE NextDown(p)
  <2>1. CASE /\ sm.version # -1 /\ UNCHANGED <<lock, drvLock>>
             /\ Become(p, [proc[p] EXCEPT !.pc = "record", !.v = sm.version])
    <3>1. ~proc[p].redo BY <1>7 DEF NextDown, Commanded
    <3>2. PICK q : q = [proc[p] EXCEPT !.pc = "record", !.v = sm.version] OBVIOUS
    <3>3. proc'[p] = q /\ Others(p) BY <2>1, <3>2, Becomes DEF Others
    <3>4. /\ q.cmd = proc[p].cmd /\ q.conn = proc[p].conn /\ q.pc = "record"
          /\ q.v = sm.version /\ q.redo = proc[p].redo
      BY <1>1, <3>2 DEF ProcType
    <3> QED BY <1>7, <2>1, <3>1, <3>3, <3>4
  <2> QED BY <1>2, <1>7, <2>1 DEF NextDown
<1> QED BY <1>5, <1>6, <1>7

\* A step that ends, well or not.
LEMMA StepEndDoes ==
    ASSUME TypeOK, NEW p \in Procs, NEW ok \in BOOLEAN,
           Become(p, [proc[p] EXCEPT !.pc = "complete", !.ok = ok])
    PROVE  Others(p) /\ Same(p) /\ proc'[p].pc = "complete" /\ proc'[p].ok = ok
<1>1. PICK q : q = [proc[p] EXCEPT !.pc = "complete", !.ok = ok] OBVIOUS
<1>2. proc'[p] = q /\ Others(p) BY <1>1, Becomes DEF Others
<1>3. proc[p] \in ProcType BY DEF TypeOK
<1> QED BY <1>1, <1>2, <1>3 DEF Same, ProcType

LEMMA StepsDoes ==
    ASSUME TypeOK, NEW p \in Procs, Steps(p)
    PROVE  /\ Others(p) /\ Same(p)
           /\ \/ /\ proc'[p].pc = "complete" /\ ~proc'[p].ok /\ UNCHANGED drvLock
                 /\ \/ sm.dirty
                    \/ proc[p].cmd = "up" /\ sm.version = Top
                    \/ proc[p].cmd # "up" /\ sm.version = -1
              \/ /\ proc'[p].pc = "mark" /\ drvLock' = p /\ ~sm.dirty
                 /\ proc'[p].to = IF proc[p].cmd = "up" THEN sm.version + 1 ELSE sm.version
<1> DEFINE up == proc[p].cmd = "up"
           to == IF up THEN sm.version + 1 ELSE sm.version
           none == sm.dirty \/ (up /\ sm.version = Top) \/ (~up /\ sm.version = -1)
<1>1. CASE none /\ Become(p, [proc[p] EXCEPT !.pc = "complete", !.ok = FALSE]) /\ UNCHANGED drvLock
  BY <1>1, StepEndDoes
<1>2. CASE ~none /\ drvLock' = p /\ Become(p, [proc[p] EXCEPT !.pc = "mark", !.to = to])
  <2>1. PICK q : q = [proc[p] EXCEPT !.pc = "mark", !.to = to] OBVIOUS
  <2>2. proc'[p] = q /\ Others(p) BY <1>2, <2>1, Becomes DEF Others
  <2>3. proc[p] \in ProcType BY DEF TypeOK
  <2>4. Same(p) /\ proc'[p].pc = "mark" /\ proc'[p].to = to
    BY <2>1, <2>2, <2>3 DEF Same, ProcType
  <2> QED BY <1>2, <2>2, <2>4
<1> QED BY <1>1, <1>2 DEF Steps

LEMMA RunDoes ==
    ASSUME TypeOK, NEW p \in Procs, RunScript(p)
    PROVE  /\ Others(p) /\ Same(p)
           /\ \/ /\ proc'[p].pc = "clean" /\ UNCHANGED drvLock /\ proc'[p].to = proc[p].to
                 /\ schema' = IF proc[p].cmd = "up" THEN schema \cup {proc[p].to}
                              ELSE schema \ {proc[p].to}
              \/ /\ proc'[p].pc = "complete" /\ ~proc'[p].ok /\ drvLock' = NoProc
                 /\ UNCHANGED schema
<1>1. CASE Goto(p, "clean") /\ UNCHANGED drvLock
  BY <1>1, GotoDoes DEF RunScript
<1>2. CASE Become(p, [proc[p] EXCEPT !.pc = "complete", !.ok = FALSE])
           /\ drvLock' = NoProc /\ UNCHANGED schema
  BY <1>2, StepEndDoes
<1>3. CASE /\ schema' = IF proc[p].cmd = "up" THEN schema \cup {proc[p].to}
                        ELSE schema \ {proc[p].to}
           /\ Goto(p, "clean") /\ UNCHANGED drvLock
  BY <1>3, GotoDoes
<1> QED BY <1>2, <1>3 DEF RunScript

\* The row of a step is completed.
LEMMA CompleteDoes ==
    ASSUME TypeOK, Commanded, NEW p \in Procs, CompleteRow(p)
    PROVE  /\ Others(p)
           /\ \/ proc'[p] = Gone /\ End(p) /\ ~proc[p].ok
              \/ /\ Same(p) /\ UNCHANGED <<lock, drvLock>> /\ proc[p].ok
                 /\ proc'[p].pc = IF proc[p].cmd = "up" THEN "loop" ELSE "down"
<1>1. proc[p] \in ProcType BY DEF TypeOK
<1>2. CASE ~proc[p].ok /\ End(p) BY <1>2, Ends DEF Others
<1>3. CASE /\ proc[p].ok /\ UNCHANGED <<lock, drvLock>>
           /\ Become(p, IF proc[p].cmd = "up" THEN [proc[p] EXCEPT !.pc = "loop"]
                        ELSE [proc[p] EXCEPT !.pc = "down", !.left = proc[p].left - 1])
  <2>1. PICK q : q = IF proc[p].cmd = "up" THEN [proc[p] EXCEPT !.pc = "loop"]
                     ELSE [proc[p] EXCEPT !.pc = "down", !.left = proc[p].left - 1]
    OBVIOUS
  <2>2. proc'[p] = q /\ Others(p) BY <1>3, <2>1, Becomes DEF Others
  <2>3. /\ q.pc = (IF proc[p].cmd = "up" THEN "loop" ELSE "down") /\ q.cmd = proc[p].cmd
        /\ q.conn = proc[p].conn /\ q.redo = proc[p].redo /\ q.v = proc[p].v
    <3>1. CASE proc[p].cmd = "up" BY <1>1, <2>1, <3>1 DEF ProcType
    <3>2. CASE proc[p].cmd # "up" BY <1>1, <2>1, <3>2 DEF ProcType
    <3> QED BY <3>1, <3>2
  <2> QED BY <1>3, <2>2, <2>3 DEF Same
<1> QED BY <1>2, <1>3 DEF CompleteRow

LEMMA LoseDoes ==
    ASSUME TypeOK, NEW p \in Procs, LoseConn(p)
    PROVE  /\ Others(p) /\ Reads(p) /\ proc'[p].pc = proc[p].pc /\ ~proc'[p].conn
           /\ proc'[p].cmd = proc[p].cmd /\ proc'[p].redo = proc[p].redo
           /\ proc'[p].v = proc[p].v /\ proc'[p].to = proc[p].to /\ proc'[p].ok = proc[p].ok
<1>1. PICK q : q = [proc[p] EXCEPT !.conn = FALSE] OBVIOUS
<1>2. proc'[p] = q /\ Others(p) BY <1>1, Becomes DEF LoseConn, Others
<1>3. proc[p] \in ProcType BY DEF TypeOK
<1> QED BY <1>1, <1>2, <1>3 DEF Reads, ProcType

------------------------------------------------------------------------------
(* The two advisory locks *)

\* The start, as the invariants see it.
LEMMA InitFresh ==
    ASSUME Init
    PROVE  /\ \A p \in Procs : proc[p] = Gone
           /\ lock = NoProc /\ drvLock = NoProc /\ open = {} /\ rows = FALSE
           /\ ~severed /\ ops = 0
BY DEF Init

\* A step of p leaves the locks' books in order when it does for p.
LEMMA LockedKept ==
    ASSUME Locked, NEW p \in Procs, Others(p), severed => severed',
           \A r \in Procs \ {p} : (lock' = r <=> lock = r) /\ (drvLock' = r <=> drvLock = r),
           proc'[p].conn <=> lock' = p,
           drvLock' = p <=> proc'[p].pc \in Stepping,
           proc'[p].conn => proc'[p].pc \notin Waiting,
           ~severed' /\ proc'[p].pc \notin Waiting => proc'[p].conn
    PROVE  Locked'
<1> SUFFICES ASSUME NEW r \in Procs
             PROVE  /\ proc'[r].conn <=> lock' = r
                    /\ drvLock' = r <=> proc'[r].pc \in Stepping
                    /\ proc'[r].conn => proc'[r].pc \notin Waiting
                    /\ ~severed' /\ proc'[r].pc \notin Waiting => proc'[r].conn
  BY DEF Locked
<1>1. CASE r = p BY <1>1
<1>2. CASE r # p
  <2>1. /\ proc[r].conn <=> lock = r
        /\ drvLock = r <=> proc[r].pc \in Stepping
        /\ proc[r].conn => proc[r].pc \notin Waiting
        /\ ~severed /\ proc[r].pc \notin Waiting => proc[r].conn
    BY DEF Locked
  <2>2. proc'[r] = proc[r] BY <1>2 DEF Others
  <2>3. (lock' = r <=> lock = r) /\ (drvLock' = r <=> drvLock = r) BY <1>2
  <2> QED BY <2>1, <2>2, <2>3
<1> QED BY <1>1, <1>2

\* A process goes on, and neither takes nor releases anything.
LEMMA LockedOn ==
    ASSUME Locked, NEW p \in Procs, Others(p), UNCHANGED <<lock, drvLock, severed>>,
           proc'[p].conn <=> proc[p].conn,
           proc'[p].pc \in Stepping <=> proc[p].pc \in Stepping,
           proc'[p].pc \in Waiting <=> proc[p].pc \in Waiting
    PROVE  Locked'
BY LockedKept DEF Locked

\* A process ends.
LEMMA LockedEnd ==
    ASSUME TypeOK, Locked, NEW p \in Procs, End(p), UNCHANGED severed PROVE Locked'
<1>1. Others(p) BY Ends DEF Others
<1>2. proc'[p].pc = "idle" /\ ~proc'[p].conn BY Ends, GoneTyped
<1>3. lock' # p /\ drvLock' # p BY Ends, Bounds
<1>4. \A r \in Procs \ {p} : (lock' = r <=> lock = r) /\ (drvLock' = r <=> drvLock = r)
  BY Ends, Bounds
<1> QED BY <1>1, <1>2, <1>3, <1>4, LockedKept DEF Stepping, Waiting

\* No lock is held at the start.
LEMMA InitLocked == Init => Locked
BY InitFresh, GoneTyped, Bounds DEF Locked, Stepping, Waiting

\* Every step keeps the locks' books.
LEMMA NextLocked == ASSUME TypeOK, Commanded, Locked, [Next]_vars PROVE Locked'
<1>1. CASE UNCHANGED vars BY <1>1 DEF vars, Locked
<1>2. ASSUME NEW p \in Procs, Up(p) \/ Operate(p) PROVE Locked'
  <2>1. ~proc[p].conn BY <1>2, StartDoes DEF Locked, Waiting
  <2>2. UNCHANGED <<lock, drvLock, severed>> BY <1>2 DEF Up, Operate
  <2> QED BY <1>2, <2>1, <2>2, StartDoes, LockedOn DEF Stepping, Waiting
<1>3. ASSUME NEW p \in Procs, AcquireLock(p) PROVE Locked'
  <2>1. /\ lock = NoProc /\ lock' = p /\ UNCHANGED <<drvLock, severed>> /\ proc[p].pc = "lock"
    BY <1>3 DEF AcquireLock
  <2>2. drvLock # p BY <2>1 DEF Locked, Stepping
  <2>3. Others(p) /\ proc'[p].pc = "orphans" /\ proc'[p].conn BY <1>3, AcquireDoes
  <2>4. \A r \in Procs \ {p} : (lock' = r <=> lock = r) /\ (drvLock' = r <=> drvLock = r)
    BY <2>1, Bounds
  <2> QED BY <2>1, <2>2, <2>3, <2>4, LockedKept DEF Stepping, Waiting
<1>4. ASSUME NEW p \in Procs, NEW x, Goto(p, x), UNCHANGED <<lock, drvLock, severed>>,
             x \in Stepping <=> proc[p].pc \in Stepping, x \in Waiting <=> proc[p].pc \in Waiting
      PROVE  Locked'
  BY <1>4, GotoDoes, LockedOn DEF Same
<1>5. ASSUME NEW p \in Procs, Bootstrap(p) PROVE Locked'
  BY <1>4, <1>5 DEF Bootstrap, Stepping, Waiting
<1>6. ASSUME NEW p \in Procs, OrphansDone(p) PROVE Locked'
  <2>1. proc[p].pc = "resolve" /\ proc[p].cmd \in {"up", "down", "force"}
    BY <1>6 DEF OrphansDone, Commanded, TypeOK, ProcType, Commands
  <2> QED BY <1>4, <1>6, <2>1 DEF OrphansDone, Stepping, Waiting
<1>7. ASSUME NEW p \in Procs, BackfillIfEmpty(p) \/ DetectDrift(p) \/ Rewind(p) \/ MarkDirty(p)
      PROVE  Locked'
  BY <1>4, <1>7 DEF BackfillIfEmpty, DetectDrift, Rewind, MarkDirty, Stepping, Waiting
<1>8. ASSUME NEW p \in Procs, RecordStarted(p) \/ ForceVersion(p) PROVE Locked'
  BY <1>4, <1>8 DEF RecordStarted, ForceVersion, Stepping, Waiting
<1>9. ASSUME NEW p \in Procs, RecoverOrphans(p) \/ ResolveOrphan(p) \/ CountHistory(p) PROVE Locked'
  <2>1. UNCHANGED <<lock, drvLock, severed>> /\ proc[p].pc \in {"orphans", "resolve", "count"}
    BY <1>9 DEF RecoverOrphans, ResolveOrphan, CountHistory
  <2>2. /\ Others(p) /\ proc'[p].conn = proc[p].conn
        /\ proc'[p].pc \in {"resolve", "backfill", "drift"}
    BY <1>9, RecoverDoes, ResolveDoes, CountDoes DEF Same
  <2> QED BY <2>1, <2>2, LockedOn DEF Stepping, Waiting
<1>10. ASSUME NEW p \in Procs, ReapplyDirty(p) \/ NextPendingUp(p) \/ NextDown(p) PROVE Locked'
  <2>1. UNCHANGED severed /\ proc[p].pc \in {"dirty", "loop", "down"}
    BY <1>10 DEF ReapplyDirty, NextPendingUp, NextDown
  <2>2. CASE End(p) BY <2>1, <2>2, LockedEnd
  <2>3. CASE ~End(p)
    <3>1. /\ Others(p) /\ proc'[p].conn = proc[p].conn /\ UNCHANGED <<lock, drvLock>>
          /\ proc'[p].pc \in {"loop", "record"}
      BY <1>10, <2>3, TurnsDoes
    <3> QED BY <2>1, <3>1, LockedOn DEF Stepping, Waiting
  <2> QED BY <2>2, <2>3
<1>11. ASSUME NEW p \in Procs, Steps(p) PROVE Locked'
  <2>1. /\ UNCHANGED <<lock, severed>> /\ proc[p].pc = "take" /\ drvLock = NoProc
        /\ Others(p) /\ proc'[p].conn = proc[p].conn
    BY <1>11, StepsDoes DEF Steps, Same
  <2>2. CASE proc'[p].pc = "complete" /\ UNCHANGED drvLock
    BY <2>1, <2>2, LockedOn DEF Stepping, Waiting
  <2>3. CASE proc'[p].pc = "mark" /\ drvLock' = p
    <3>1. \A r \in Procs \ {p} : (lock' = r <=> lock = r) /\ (drvLock' = r <=> drvLock = r)
      BY <2>1, <2>3, Bounds
    <3>2. /\ proc[p].conn <=> lock = p
          /\ ~severed => proc[p].conn
      BY <2>1 DEF Locked, Waiting
    <3> QED BY <2>1, <2>3, <3>1, <3>2, LockedKept DEF Stepping, Waiting
  <2> QED BY <1>11, <2>2, <2>3, StepsDoes
<1>12. ASSUME NEW p \in Procs, Others(p), Same(p), UNCHANGED <<lock, severed>>,
              drvLock' = IF drvLock = p THEN NoProc ELSE drvLock,
              proc'[p].pc = "complete", proc[p].pc \notin Waiting
       PROVE  Locked'
  <2>1. /\ \A r \in Procs \ {p} : (lock' = r <=> lock = r) /\ (drvLock' = r <=> drvLock = r)
        /\ drvLock' # p
    BY <1>12, Bounds
  <2>2. /\ proc[p].conn <=> lock = p
        /\ ~severed => proc[p].conn
    BY <1>12 DEF Locked
  <2> QED BY <1>12, <2>1, <2>2, LockedKept DEF Stepping, Waiting, Same
<1>13. ASSUME NEW p \in Procs, RunScript(p) PROVE Locked'
  <2>1. UNCHANGED <<lock, severed>> /\ proc[p].pc = "exec" /\ Others(p) /\ Same(p)
    BY <1>13, RunDoes DEF RunScript
  <2>2. drvLock = p BY <2>1 DEF Locked, Stepping
  <2>3. CASE proc'[p].pc = "clean" /\ UNCHANGED drvLock
    BY <2>1, <2>3, LockedOn DEF Stepping, Waiting, Same
  <2>4. CASE proc'[p].pc = "complete" /\ drvLock' = NoProc
    BY <1>12, <2>1, <2>2, <2>4 DEF Waiting
  <2> QED BY <1>13, <2>3, <2>4, RunDoes
<1>14. ASSUME NEW p \in Procs, MarkClean(p) PROVE Locked'
  <2>1. UNCHANGED <<lock, severed>> /\ proc[p].pc = "clean" /\ drvLock' = NoProc
    BY <1>14 DEF MarkClean
  <2>2. Others(p) /\ Same(p) /\ proc'[p].pc = "complete" BY <1>14, StepEndDoes DEF MarkClean
  <2>3. drvLock = p BY <2>1 DEF Locked, Stepping
  <2> QED BY <1>12, <2>1, <2>2, <2>3 DEF Waiting
<1>15. ASSUME NEW p \in Procs, StepFails(p) PROVE Locked'
  <2>1. /\ UNCHANGED <<lock, severed>> /\ drvLock' = IF drvLock = p THEN NoProc ELSE drvLock
        /\ proc[p].pc \notin Waiting
    BY <1>15 DEF StepFails, Waiting
  <2>2. Others(p) /\ Same(p) /\ proc'[p].pc = "complete" BY <1>15, StepEndDoes DEF StepFails
  <2> QED BY <1>12, <2>1, <2>2
<1>16. ASSUME NEW p \in Procs, CompleteRow(p) PROVE Locked'
  <2>1. UNCHANGED severed /\ proc[p].pc = "complete" BY <1>16 DEF CompleteRow
  <2>2. CASE End(p) BY <2>1, <2>2, LockedEnd
  <2>3. CASE ~End(p)
    <3>1. /\ Others(p) /\ Same(p) /\ UNCHANGED <<lock, drvLock>>
          /\ proc'[p].pc \in {"loop", "down"}
      BY <1>16, <2>3, CompleteDoes
    <3> QED BY <2>1, <3>1, LockedOn DEF Stepping, Waiting, Same
  <2> QED BY <2>2, <2>3
<1>17. ASSUME NEW p \in Procs,
              \/ ForceNothing(p) \/ RecordForce(p) \/ Disconnected(p) \/ DriftRefused(p) \/ Crash(p)
       PROVE  Locked'
  BY <1>17, LockedEnd DEF ForceNothing, RecordForce, Disconnected, DriftRefused, Crash
<1>18. ASSUME NEW p \in Procs, LoseConn(p) PROVE Locked'
  <2>1. /\ lock' = IF lock = p THEN NoProc ELSE lock
        /\ UNCHANGED drvLock /\ severed'
    BY <1>18 DEF LoseConn
  <2>2. /\ \A r \in Procs \ {p} : (lock' = r <=> lock = r) /\ (drvLock' = r <=> drvLock = r)
        /\ lock' # p
    BY <2>1, Bounds
  <2>3. drvLock' = p <=> proc'[p].pc \in Stepping BY <1>18, <2>1, LoseDoes DEF Locked
  <2> QED BY <1>18, <2>1, <2>2, <2>3, LoseDoes, LockedKept
<1> QED
  BY <1>1, <1>2, <1>3, <1>5, <1>6, <1>7, <1>8, <1>9, <1>10, <1>11, <1>13, <1>14, <1>15, <1>16,
     <1>17, <1>18 DEF Next, Step

\* So the locks are held as told.
LEMMA LockedInvariant == Spec => [](TypeOK /\ Commanded /\ Locked)
<1>1. TypeOK /\ Commanded /\ Locked /\ [Next]_vars => Locked' BY NextLocked
<1> QED BY <1>1, InitLocked, TypedInvariant, PTL DEF Spec

\* Who closes a row is at it: a step that removes a row of a process that has its
\* connection is made where rows are resolved or completed.
LEMMA RowClosedAtIt ==
    ASSUME TypeOK, Commanded, Locked, [Next]_vars,
           NEW o \in open, o \notin open', proc[o.by].conn
    PROVE  proc[o.by].pc \in {"resolve", "complete"}
<1>1. o.by \in Procs BY DEF TypeOK, Rows
<1>2. open' # open OBVIOUS
<1>3. Next BY <1>2 DEF vars, history
<1>4. PICK p \in Procs : ResolveOrphan(p) \/ CompleteRow(p)
  <2>1. PICK p \in Procs :
           \/ Up(p) \/ Operate(p) \/ Step(p)
           \/ DriftRefused(p) \/ StepFails(p) \/ LoseConn(p) \/ Crash(p)
    BY <1>3 DEF Next
  <2>2. \/ ResolveOrphan(p) \/ CompleteRow(p) \/ RecordStarted(p) \/ UNCHANGED open
    BY <2>1 DEF history, Up, Operate, Step, Bootstrap, AcquireLock, RecoverOrphans, OrphansDone,
       CountHistory, BackfillIfEmpty, DetectDrift, ReapplyDirty, NextPendingUp, NextDown,
       Rewind, Steps, MarkDirty, RunScript, MarkClean, ForceVersion,
       ForceNothing, RecordForce, Disconnected, DriftRefused, StepFails, LoseConn, Crash
  <2>3. ~RecordStarted(p) BY DEF RecordStarted
  <2> QED BY <1>2, <2>2, <2>3
<1>5. CASE ResolveOrphan(p)
  <2>1. proc[p].conn /\ proc[p].pc = "resolve" BY <1>5 DEF ResolveOrphan
  <2>2. o.by = p BY <1>1, <2>1 DEF Locked
  <2> QED BY <2>1, <2>2
<1>6. CASE CompleteRow(p)
  <2>1. o.by = p BY <1>6 DEF CompleteRow, Row
  <2> QED BY <1>6, <2>1 DEF CompleteRow
<1> QED BY <1>4, <1>5, <1>6

\* While a process has its connection, nobody else completes or resolves the row of the step
\* it is at: no two processes that have one are ever past the wrapper's lock.
THEOREM LiveRowsKept == Spec => LiveRowKept
<1>1. TypeOK /\ Commanded /\ Locked /\ [Next]_vars =>
          [\A o \in open \ open' : proc[o.by].conn => proc[o.by].pc \in {"resolve", "complete"}]_vars
  BY RowClosedAtIt
<1>2. Spec => [][Next]_vars BY PTL DEF Spec
<1> QED BY <1>1, <1>2, LockedInvariant, PTL DEF LiveRowKept

------------------------------------------------------------------------------
(* What the version row claims *)

\* A process that holds golang-migrate's lock, or finds it free, is alone in a step.
LEMMA Alone ==
    ASSUME TypeOK, Locked, NEW p \in Procs, drvLock \in {NoProc, p}, NEW r \in Procs, r # p
    PROVE  proc[r].pc \notin Stepping
BY Bounds DEF Locked

\* While no connection has been lost, a process that is past the wrapper's lock is alone there.
LEMMA AlonePast ==
    ASSUME Locked, ~severed, NEW p \in Procs, proc[p].pc \notin Waiting, NEW r \in Procs, r # p
    PROVE  proc[r].pc \in Waiting
BY DEF Locked

\* A step of p that leaves the version row and the schema alone.
LEMMA MarkedKept ==
    ASSUME Marked, NEW p \in Procs, Others(p), UNCHANGED <<sm, schema>>,
           \/ proc'[p].pc \notin Stepping
           \/ /\ proc'[p].pc = proc[p].pc /\ proc'[p].cmd = proc[p].cmd
              /\ proc'[p].to = proc[p].to
    PROVE  Marked'
<1> SUFFICES ASSUME NEW r \in Procs
             PROVE  /\ proc'[r].pc = "mark" =>
                         sm' = [version |-> IF proc'[r].cmd = "up" THEN proc'[r].to - 1
                                            ELSE proc'[r].to,
                                dirty |-> FALSE]
                    /\ proc'[r].pc \in {"exec", "clean"} =>
                         sm' = [version |-> Target(r)', dirty |-> TRUE]
                    /\ proc'[r].pc = "clean" => (proc'[r].to \in schema' <=> proc'[r].cmd = "up")
  BY DEF Marked
<1>1. CASE r # p
  <2>1. proc'[r] = proc[r] BY <1>1 DEF Others
  <2>2. Target(r)' = Target(r) BY <2>1 DEF Target
  <2> QED BY <2>1, <2>2 DEF Marked
<1>2. CASE r = p /\ proc'[p].pc \notin Stepping BY <1>2 DEF Stepping
<1>3. CASE /\ r = p /\ proc'[p].pc = proc[p].pc /\ proc'[p].cmd = proc[p].cmd
           /\ proc'[p].to = proc[p].to
  <2>1. Target(p)' = Target(p) BY <1>3 DEF Target
  <2> QED BY <1>3, <2>1 DEF Marked
<1> QED BY <1>1, <1>2, <1>3

\* A step of p, alone in one, that changes them.
LEMMA MarkedAlone ==
    ASSUME TypeOK, Locked, NEW p \in Procs, Others(p), drvLock \in {NoProc, p},
           proc'[p].pc = "mark" =>
               sm' = [version |-> IF proc'[p].cmd = "up" THEN proc'[p].to - 1 ELSE proc'[p].to,
                      dirty |-> FALSE],
           proc'[p].pc \in {"exec", "clean"} => sm' = [version |-> Target(p)', dirty |-> TRUE],
           proc'[p].pc = "clean" => (proc'[p].to \in schema' <=> proc'[p].cmd = "up")
    PROVE  Marked'
<1>1. ASSUME NEW r \in Procs, r # p PROVE proc'[r].pc \notin Stepping
  BY <1>1, Alone DEF Others
<1> QED BY <1>1 DEF Marked, Stepping

\* No process runs a step at the start.
LEMMA InitMarked == Init => Marked
BY InitFresh, GoneTyped DEF Marked

\* What does not touch the version row or the schema.
LEMMA Untouched ==
    ASSUME NEW p \in Procs,
           \/ Up(p) \/ Operate(p) \/ Step(p)
           \/ DriftRefused(p) \/ StepFails(p) \/ LoseConn(p) \/ Crash(p)
    PROVE  \/ Rewind(p) \/ MarkDirty(p) \/ RunScript(p) \/ MarkClean(p) \/ ForceVersion(p)
           \/ UNCHANGED <<sm, schema>>
BY DEF Step, Up, Operate, Bootstrap, AcquireLock, RecoverOrphans, ResolveOrphan, OrphansDone,
   CountHistory, BackfillIfEmpty, DetectDrift, ReapplyDirty, NextPendingUp, NextDown,
   RecordStarted, Steps, CompleteRow, ForceNothing, RecordForce, Disconnected, DriftRefused,
   StepFails, LoseConn, Crash

\* Where a step leaves its process that neither begins nor goes on with a script.
LEMMA StepsElsewhere ==
    ASSUME TypeOK, Commanded, NEW p \in Procs,
           \/ Up(p) \/ Operate(p) \/ Step(p)
           \/ DriftRefused(p) \/ StepFails(p) \/ LoseConn(p) \/ Crash(p),
           ~(Steps(p) \/ MarkDirty(p) \/ RunScript(p))
    PROVE  /\ Others(p)
           /\ \/ proc'[p].pc \notin Stepping
              \/ /\ proc'[p].pc = proc[p].pc /\ proc'[p].cmd = proc[p].cmd
                 /\ proc'[p].to = proc[p].to
<1>1. CASE Up(p) \/ Operate(p) BY <1>1, StartDoes DEF Stepping
<1>2. CASE End(p) BY <1>2, Ends, GoneTyped DEF Others, Stepping
<1>3. CASE AcquireLock(p) BY <1>3, AcquireDoes DEF Stepping
<1>4. CASE RecoverOrphans(p) \/ ResolveOrphan(p) \/ CountHistory(p)
  BY <1>4, RecoverDoes, ResolveDoes, CountDoes DEF Stepping
<1>5. CASE Bootstrap(p) \/ BackfillIfEmpty(p) \/ DetectDrift(p) \/ RecordStarted(p)
           \/ Rewind(p) \/ ForceVersion(p)
  <2>1. ASSUME NEW x, Goto(p, x), x \notin Stepping PROVE Others(p) /\ proc'[p].pc \notin Stepping
    BY <2>1, GotoDoes
  <2>2. CASE RecordStarted(p) BY <2>1, <2>2 DEF RecordStarted, Stepping
  <2>3. CASE ~RecordStarted(p)
    BY <1>5, <2>1, <2>3
       DEF Bootstrap, BackfillIfEmpty, DetectDrift, Rewind, ForceVersion, Stepping
  <2> QED BY <2>2, <2>3
<1>6. CASE OrphansDone(p)
  <2>1. proc[p].cmd \in {"up", "down", "force"}
    BY <1>6 DEF OrphansDone, Commanded, TypeOK, ProcType, Commands
  <2> QED BY <1>6, <2>1, GotoDoes DEF OrphansDone, Stepping
<1>7. CASE ReapplyDirty(p) \/ NextPendingUp(p) \/ NextDown(p)
  BY <1>7, TurnsDoes, GoneTyped DEF Stepping
<1>8. CASE CompleteRow(p) BY <1>8, CompleteDoes, GoneTyped DEF Stepping
<1>9. CASE MarkClean(p) \/ StepFails(p)
  BY <1>9, StepEndDoes DEF MarkClean, StepFails, Stepping
<1>10. CASE LoseConn(p) BY <1>10, LoseDoes
<1> QED
  BY <1>1, <1>2, <1>3, <1>4, <1>5, <1>6, <1>7, <1>8, <1>9, <1>10
     DEF Step, DriftRefused, Crash, ForceNothing, RecordForce, Disconnected

\* Every step leaves the version row to who runs a step.
LEMMA NextMarked ==
    ASSUME TypeOK, Commanded, Locked, Marked, [Next]_vars PROVE Marked'
<1>1. CASE UNCHANGED vars BY <1>1 DEF vars, Marked, Target
<1>2. ASSUME NEW p \in Procs, Steps(p) PROVE Marked'
  <2>1. Others(p) /\ Same(p) /\ UNCHANGED <<sm, schema>> /\ drvLock = NoProc /\ sm \in State
    BY <1>2, StepsDoes DEF Steps, TypeOK
  <2>2. CASE proc'[p].pc = "complete" BY <2>1, <2>2, MarkedKept DEF Stepping
  <2>3. CASE /\ proc'[p].pc = "mark" /\ ~sm.dirty
             /\ proc'[p].to = IF proc[p].cmd = "up" THEN sm.version + 1 ELSE sm.version
    <3>1. sm = [version |-> sm.version, dirty |-> sm.dirty] /\ sm.version \in Int
          /\ sm.dirty \in BOOLEAN
      BY <2>1, Bounds DEF State
    <3>2. proc'[p].cmd = proc[p].cmd BY <2>1 DEF Same
    <3>3. (IF proc'[p].cmd = "up" THEN proc'[p].to - 1 ELSE proc'[p].to) = sm.version
      BY <2>3, <3>1, <3>2
    <3> QED BY <2>1, <2>3, <3>1, <3>3, MarkedAlone
  <2> QED BY <1>2, <2>2, <2>3, StepsDoes
<1>3. ASSUME NEW p \in Procs, MarkDirty(p) PROVE Marked'
  <2>1. /\ Others(p) /\ proc'[p].pc = "exec" /\ proc'[p].to = proc[p].to
        /\ proc'[p].cmd = proc[p].cmd /\ proc[p].pc = "mark"
        /\ sm' = [version |-> Target(p), dirty |-> TRUE]
    BY <1>3, GotoDoes DEF MarkDirty, Same
  <2>2. drvLock = p BY <2>1 DEF Locked, Stepping
  <2>3. Target(p)' = Target(p) BY <2>1 DEF Target
  <2> QED BY <2>1, <2>2, <2>3, MarkedAlone
<1>4. ASSUME NEW p \in Procs, RunScript(p) PROVE Marked'
  <2>1. Others(p) /\ Same(p) /\ proc[p].pc = "exec" /\ UNCHANGED sm
    BY <1>4, RunDoes DEF RunScript
  <2>2. drvLock = p BY <2>1 DEF Locked, Stepping
  <2>3. CASE proc'[p].pc = "complete" BY <2>1, <2>2, <2>3, MarkedAlone
  <2>4. CASE /\ proc'[p].pc = "clean" /\ proc'[p].to = proc[p].to
             /\ schema' = IF proc[p].cmd = "up" THEN schema \cup {proc[p].to}
                          ELSE schema \ {proc[p].to}
    <3>1. Target(p)' = Target(p) BY <2>1, <2>4 DEF Target, Same
    <3>2. sm = [version |-> Target(p), dirty |-> TRUE] BY <2>1 DEF Marked
    <3>3. proc'[p].cmd = proc[p].cmd BY <2>1 DEF Same
    <3>4. proc'[p].to \in schema' <=> proc'[p].cmd = "up" BY <2>4, <3>3
    <3> QED BY <2>1, <2>2, <2>4, <3>1, <3>2, <3>4, MarkedAlone
  <2> QED BY <1>4, <2>3, <2>4, RunDoes
<1>5. ASSUME NEW p \in Procs, Rewind(p) \/ MarkClean(p) \/ ForceVersion(p) PROVE Marked'
  <2>1. drvLock \in {NoProc, p}
    BY <1>5 DEF Rewind, MarkClean, ForceVersion, Locked, Stepping
  <2>2. Others(p) /\ proc'[p].pc \in {"take", "complete", "recordforce"}
    BY <1>5, GotoDoes, StepEndDoes DEF Rewind, MarkClean, ForceVersion
  <2> QED BY <2>1, <2>2, MarkedAlone
<1>6. ASSUME NEW p \in Procs,
             \/ Up(p) \/ Operate(p) \/ Step(p)
             \/ DriftRefused(p) \/ StepFails(p) \/ LoseConn(p) \/ Crash(p),
             ~(\/ Steps(p) \/ MarkDirty(p) \/ RunScript(p)
               \/ Rewind(p) \/ MarkClean(p) \/ ForceVersion(p))
      PROVE  Marked'
  <2>1. UNCHANGED <<sm, schema>> BY <1>6, Untouched
  <2> QED BY <1>6, <2>1, StepsElsewhere, MarkedKept
<1> QED BY <1>1, <1>2, <1>3, <1>4, <1>5, <1>6 DEF Next

\* So it is found as it was left.
LEMMA MarkedInvariant == Spec => [](TypeOK /\ Commanded /\ Locked /\ Marked)
<1>1. TypeOK /\ Commanded /\ Locked /\ Marked /\ [Next]_vars => Marked' BY NextMarked
<1> QED BY <1>1, InitMarked, LockedInvariant, PTL DEF Spec

\* AppliedBelow, in the terms of StepsBelow.
LEMMA ClaimCovered ==
    ASSUME TypeOK
    PROVE  AppliedBelow <=> \/ severed /\ ops > 0
                            \/ Covered(sm.version) /\ (~sm.dirty => Covered(sm.version + 1))
<1>1. sm.version \in Int /\ sm.dirty \in BOOLEAN BY Bounds DEF TypeOK, State
<1>2. \A v \in Versions : v < sm.version + 1 <=> v < sm.version \/ v = sm.version
  BY <1>1, Bounds
<1> QED BY <1>1, <1>2 DEF AppliedBelow, Covered

LEMMA ClaimCoveredNext ==
    ASSUME TypeOK'
    PROVE  AppliedBelow' <=> \/ severed' /\ ops' > 0
                             \/ /\ \A v \in Versions : v < sm'.version => v \in schema'
                                /\ ~sm'.dirty => \A v \in Versions : v < sm'.version + 1 => v \in schema'
<1>1. sm'.version \in Int /\ sm'.dirty \in BOOLEAN BY Bounds DEF TypeOK, State
<1>2. \A v \in Versions : v < sm'.version + 1 <=> v < sm'.version \/ v = sm'.version
  BY <1>1, Bounds
<1> QED BY <1>1, <1>2 DEF AppliedBelow

\* What a step of p has to show of p, when it takes nothing away from the schema.
LEMMA StepsBelowKept ==
    ASSUME TypeOK, StepsBelow, NEW p \in Procs, Others(p), schema \subseteq schema',
           severed /\ ops > 0 => severed' /\ ops' > 0,
           ~(severed /\ ops > 0) =>
               /\ proc'[p].pc \in Stepping => Covered(proc'[p].to)
               /\ proc'[p].redo /\ proc'[p].pc \in {"record", "rewind"} => Covered(proc'[p].v)
    PROVE  StepsBelow'
<1>1. CASE severed /\ ops > 0 BY <1>1 DEF StepsBelow
<1>2. CASE ~(severed /\ ops > 0)
  <2> SUFFICES ASSUME NEW r \in Procs
               PROVE  /\ proc'[r].pc \in Stepping =>
                             \A v \in Versions : v < proc'[r].to => v \in schema'
                      /\ proc'[r].redo /\ proc'[r].pc \in {"record", "rewind"} =>
                             \A v \in Versions : v < proc'[r].v => v \in schema'
    BY DEF StepsBelow, Covered
  <2>1. /\ proc'[r].pc \in Stepping => Covered(proc'[r].to)
        /\ proc'[r].redo /\ proc'[r].pc \in {"record", "rewind"} => Covered(proc'[r].v)
    <3>1. CASE r = p BY <1>2, <3>1
    <3>2. CASE r # p BY <1>2, <3>2 DEF StepsBelow, Others
    <3> QED BY <3>1, <3>2
  <2> QED BY <2>1 DEF Covered
<1> QED BY <1>1, <1>2

\* A process that neither begins a step nor turns to a dirty version shows it from before.
LEMMA StepsBelowOn ==
    ASSUME TypeOK, StepsBelow, NEW p \in Procs, Others(p), schema \subseteq schema',
           severed /\ ops > 0 => severed' /\ ops' > 0,
           proc'[p].pc \in Stepping => proc[p].pc \in Stepping /\ proc'[p].to = proc[p].to,
           proc'[p].redo /\ proc'[p].pc \in {"record", "rewind"} =>
               proc[p].redo /\ proc[p].pc \in {"record", "rewind"} /\ proc'[p].v = proc[p].v
    PROVE  StepsBelow'
BY StepsBelowKept DEF StepsBelow

\* At the start what is below the version is applied.
LEMMA InitBelow == Init => StepsBelow /\ AppliedBelow
<1> SUFFICES ASSUME Init PROVE StepsBelow /\ AppliedBelow OBVIOUS
<1>1. StepsBelow BY InitFresh, GoneTyped DEF StepsBelow, Stepping
<1>2. TypeOK BY InitTyped
<1>3. sm.version \in Int /\ sm.dirty \in BOOLEAN /\ sm.version >= -1
  BY <1>2, Bounds DEF TypeOK, State
<1>4. schema = 0 .. sm.version \/ (sm.dirty /\ schema = 0 .. sm.version - 1) BY DEF Init
<1>5. \A v \in Versions : v \in Int /\ v >= 0 BY Bounds
<1>6. Covered(sm.version) /\ (~sm.dirty => Covered(sm.version + 1))
  BY <1>3, <1>4, <1>5 DEF Covered
<1> QED BY <1>1, <1>2, <1>6, ClaimCovered

Below == TypeOK /\ Commanded /\ Locked /\ Marked /\ StepsBelow /\ AppliedBelow

\* A lost connection together with an operator's command is for ever.
LEMMA ExcusedOn ==
    ASSUME TypeOK, NEW p \in Procs,
           \/ Up(p) \/ Operate(p) \/ Step(p)
           \/ DriftRefused(p) \/ StepFails(p) \/ LoseConn(p) \/ Crash(p)
    PROVE  severed /\ ops > 0 => severed' /\ ops' > 0
<1>1. CASE Operate(p) BY <1>1, Bounds DEF Operate, TypeOK
<1>2. CASE LoseConn(p) BY <1>2 DEF LoseConn
<1>3. CASE ~Operate(p) /\ ~LoseConn(p)
  BY <1>3 DEF Step, Up, Bootstrap, AcquireLock, RecoverOrphans, ResolveOrphan, OrphansDone,
     CountHistory, BackfillIfEmpty, DetectDrift, ReapplyDirty, NextPendingUp, NextDown,
     RecordStarted, Rewind, Steps, MarkDirty, RunScript, MarkClean, CompleteRow, ForceVersion,
     ForceNothing, RecordForce, Disconnected, DriftRefused, StepFails, Crash
<1> QED BY <1>1, <1>2, <1>3

\* What is known of a step under way.
LEMMA StepCovered ==
    ASSUME StepsBelow, ~(severed /\ ops > 0), NEW p \in Procs
    PROVE  /\ proc[p].pc \in Stepping => Covered(proc[p].to)
           /\ proc[p].redo /\ proc[p].pc \in {"record", "rewind"} => Covered(proc[p].v)
BY DEF StepsBelow

\* The steps that leave the version row and the schema alone.
LEMMA ClaimElsewhere ==
    ASSUME Below, TypeOK', NEW p \in Procs,
           \/ Up(p) \/ Operate(p) \/ Step(p)
           \/ DriftRefused(p) \/ StepFails(p) \/ LoseConn(p) \/ Crash(p),
           UNCHANGED <<sm, schema>>
    PROVE  AppliedBelow'
<1> USE DEF Below
<1>1. severed /\ ops > 0 => severed' /\ ops' > 0 BY ExcusedOn
<1> QED BY <1>1 DEF AppliedBelow

\* The steps that leave the version row and the schema alone.
LEMMA BelowElsewhere ==
    ASSUME Below, TypeOK', NEW p \in Procs,
           \/ Up(p) \/ Operate(p) \/ Step(p)
           \/ DriftRefused(p) \/ StepFails(p) \/ LoseConn(p) \/ Crash(p),
           UNCHANGED <<sm, schema>>
    PROVE  StepsBelow'
<1> USE DEF Below
<1>1. severed /\ ops > 0 => severed' /\ ops' > 0 BY ExcusedOn
<1>3. sm.version \in Int /\ sm.dirty \in BOOLEAN BY Bounds DEF TypeOK, State
<1>4. CASE Steps(p)
  <2>1. Others(p) /\ Same(p) /\ proc[p].pc = "take" BY <1>4, StepsDoes DEF Steps
  <2>2. CASE proc'[p].pc = "complete" BY <1>1, <2>1, <2>2, StepsBelowOn DEF Stepping
  <2>3. CASE /\ proc'[p].pc = "mark" /\ ~sm.dirty
             /\ proc'[p].to = IF proc[p].cmd = "up" THEN sm.version + 1 ELSE sm.version
    <3>1. ~(severed /\ ops > 0) => Covered(proc'[p].to) BY <2>3, ClaimCovered
    <3> QED BY <1>1, <2>1, <2>3, <3>1, StepsBelowKept DEF Stepping
  <2> QED BY <1>4, <2>2, <2>3, StepsDoes
<1>5. CASE ReapplyDirty(p) \/ NextPendingUp(p) \/ NextDown(p)
  <2>1. Others(p) /\ proc'[p].pc \notin Stepping
    BY <1>5, TurnsDoes, GoneTyped DEF Stepping
  <2>2. CASE ReapplyDirty(p) /\ proc'[p].pc = "record" /\ proc'[p].v = sm.version
    <3>1. ~(severed /\ ops > 0) => Covered(proc'[p].v) BY <2>2, ClaimCovered
    <3> QED BY <1>1, <2>1, <3>1, StepsBelowKept
  <2>3. CASE proc'[p].pc # "record" \/ ~proc'[p].redo
    <3>1. proc'[p].pc # "rewind" BY <1>5, TurnsDoes, GoneTyped
    <3> QED BY <1>1, <2>1, <2>3, <3>1, StepsBelowOn
  <2> QED BY <1>5, <2>2, <2>3, TurnsDoes, GoneTyped
<1>6. CASE RecordStarted(p)
  <2>1. /\ Others(p) /\ Same(p) /\ proc[p].pc = "record" /\ proc'[p].pc \in {"rewind", "take"}
    BY <1>6, GotoDoes DEF RecordStarted
  <2> QED BY <1>1, <2>1, StepsBelowOn DEF Same, Stepping
<1>7. CASE LoseConn(p)
  <2>1. /\ Others(p) /\ proc'[p].pc = proc[p].pc /\ proc'[p].to = proc[p].to
        /\ proc'[p].v = proc[p].v /\ proc'[p].redo = proc[p].redo
    BY <1>7, LoseDoes
  <2> QED BY <1>1, <2>1, StepsBelowOn
<1>8. ASSUME Others(p), proc'[p].pc \notin Stepping \cup {"record", "rewind"}
      PROVE  StepsBelow'
  BY <1>1, <1>8, StepsBelowOn
<1>9. CASE End(p) BY <1>8, <1>9, Ends, GoneTyped DEF Others, Stepping
<1>10. CASE Up(p) \/ Operate(p) \/ AcquireLock(p)
  BY <1>8, <1>10, StartDoes, AcquireDoes DEF Stepping
<1>11. CASE RecoverOrphans(p) \/ ResolveOrphan(p) \/ CountHistory(p)
  BY <1>8, <1>11, RecoverDoes, ResolveDoes, CountDoes DEF Stepping
<1>12. CASE Bootstrap(p) \/ BackfillIfEmpty(p) \/ DetectDrift(p) \/ Rewind(p) \/ ForceVersion(p)
  <2>1. ASSUME NEW x, Goto(p, x), x \notin Stepping \cup {"record", "rewind"} PROVE StepsBelow'
    BY <1>8, <2>1, GotoDoes
  <2> QED
    BY <1>12, <2>1 DEF Bootstrap, BackfillIfEmpty, DetectDrift, Rewind, ForceVersion, Stepping
<1>13. CASE OrphansDone(p)
  <2>1. proc[p].cmd \in {"up", "down", "force"}
    BY <1>13 DEF OrphansDone, Commanded, TypeOK, ProcType, Commands
  <2> QED BY <1>8, <1>13, <2>1, GotoDoes DEF OrphansDone, Stepping
<1>14. CASE CompleteRow(p) BY <1>8, <1>14, CompleteDoes, GoneTyped DEF Stepping
<1>15. CASE MarkClean(p) \/ StepFails(p)
  BY <1>8, <1>15, StepEndDoes DEF MarkClean, StepFails, Stepping
<1>16. CASE MarkDirty(p) \/ RunScript(p)
  <2>1. /\ Others(p) /\ Same(p) /\ proc[p].pc \in Stepping /\ proc'[p].pc \in {"exec", "clean", "complete"}
        /\ proc'[p].pc \in Stepping => proc'[p].to = proc[p].to
    BY <1>16, GotoDoes, RunDoes DEF MarkDirty, RunScript, Stepping
  <2> QED BY <1>1, <2>1, StepsBelowOn
<1> QED
  BY <1>4, <1>5, <1>6, <1>7, <1>9, <1>10, <1>11, <1>12, <1>13, <1>14, <1>15, <1>16
     DEF Step, DriftRefused, Crash, ForceNothing, RecordForce, Disconnected

\* Every step keeps what is below a version applied.
LEMMA NextBelow == ASSUME Below, TypeOK', [Next]_vars PROVE StepsBelow' /\ AppliedBelow'
<1> USE DEF Below
<1>1. CASE UNCHANGED vars BY <1>1 DEF vars, StepsBelow, AppliedBelow, Covered
<1>2. ASSUME NEW p \in Procs,
             \/ Up(p) \/ Operate(p) \/ Step(p)
             \/ DriftRefused(p) \/ StepFails(p) \/ LoseConn(p) \/ Crash(p)
      PROVE  StepsBelow' /\ AppliedBelow'
  <2> DEFINE Free == ~(severed /\ ops > 0)
  <2>1. severed /\ ops > 0 => severed' /\ ops' > 0 BY <1>2, ExcusedOn
  <2>2. /\ proc[p].to \in Int /\ proc[p].v \in Int
        /\ \A v \in Versions : v \in Int /\ v >= 0
    <3>1. proc[p] \in ProcType BY DEF TypeOK
    <3>2. proc[p].to \in Versions /\ proc[p].v \in Versions BY <3>1 DEF ProcType
    <3>3. \A v \in Versions : v \in Int /\ v >= 0 BY Bounds
    <3> QED BY <3>2, <3>3
  <2>3. Free => /\ proc[p].pc \in Stepping => Covered(proc[p].to)
                /\ proc[p].redo /\ proc[p].pc \in {"record", "rewind"} => Covered(proc[p].v)
                /\ Covered(sm.version)
    BY StepCovered, ClaimCovered
  <2>4. CASE Rewind(p)
    <3>1. /\ proc[p].pc = "rewind" /\ UNCHANGED <<schema, severed, ops>>
          /\ sm' = [version |-> proc[p].v - 1, dirty |-> FALSE]
          /\ Others(p) /\ proc'[p].pc = "take"
      BY <2>4, GotoDoes DEF Rewind
    <3>2. proc[p].redo BY <3>1 DEF Commanded
    <3>3. Free => Covered(proc[p].v) BY <2>3, <3>1, <3>2
    <3>4. AppliedBelow' BY <2>2, <3>1, <3>3, ClaimCoveredNext DEF Covered
    <3> QED BY <2>1, <3>1, <3>4, StepsBelowOn DEF Stepping
  <2>5. CASE MarkDirty(p)
    <3>1. /\ proc[p].pc = "mark" /\ UNCHANGED <<schema, severed, ops>>
          /\ sm' = [version |-> Target(p), dirty |-> TRUE]
          /\ Others(p) /\ proc'[p].pc = "exec" /\ proc'[p].to = proc[p].to
      BY <2>5, GotoDoes DEF MarkDirty
    <3>2. Free => Covered(proc[p].to) BY <2>3, <3>1 DEF Stepping
    <3>3. Target(p) \in Int /\ Target(p) <= proc[p].to BY <2>2 DEF Target
    <3>4. AppliedBelow' BY <2>2, <3>1, <3>2, <3>3, ClaimCoveredNext DEF Covered
    <3> QED BY <2>1, <3>1, <3>4, StepsBelowOn DEF Stepping
  <2>6. CASE MarkClean(p)
    <3>1. /\ proc[p].pc = "clean" /\ UNCHANGED <<schema, severed, ops>>
          /\ sm' = [version |-> Target(p), dirty |-> FALSE]
          /\ Others(p) /\ proc'[p].pc = "complete"
      BY <2>6, StepEndDoes DEF MarkClean
    <3>2. Free => Covered(proc[p].to) BY <2>3, <3>1 DEF Stepping
    <3>3. Free => \A v \in Versions : v < Target(p) + 1 => v \in schema
      <4>1. CASE proc[p].cmd = "up"
        <5>1. proc[p].to \in schema BY <3>1, <4>1 DEF Marked
        <5> QED BY <2>2, <3>2, <4>1, <5>1 DEF Target, Covered
      <4>2. CASE proc[p].cmd # "up" BY <2>2, <3>2, <4>2 DEF Target, Covered
      <4> QED BY <4>1, <4>2
    <3>4. Target(p) \in Int BY <2>2 DEF Target
    <3>5. AppliedBelow' BY <2>2, <3>1, <3>3, <3>4, ClaimCoveredNext
    <3> QED BY <2>1, <3>1, <3>5, StepsBelowOn DEF Stepping
  <2>7. CASE ForceVersion(p)
    <3>1. PICK n \in Versions : schema = 0 .. n /\ sm' = [version |-> n, dirty |-> FALSE]
      BY <2>7 DEF ForceVersion
    <3>2. /\ UNCHANGED <<schema, severed, ops>>
          /\ Others(p) /\ proc'[p].pc = "recordforce"
      BY <2>7, GotoDoes DEF ForceVersion
    <3>3. \A v \in Versions : v < n + 1 => v \in schema BY <2>2, <3>1
    <3>4. AppliedBelow' BY <2>2, <3>1, <3>2, <3>3, ClaimCoveredNext
    <3> QED BY <2>1, <3>2, <3>4, StepsBelowOn DEF Stepping
  <2>8. CASE RunScript(p)
    <3>1. /\ proc[p].pc = "exec" /\ UNCHANGED <<sm, severed, ops>> /\ Others(p) /\ Same(p)
      BY <2>8, RunDoes DEF RunScript
    <3>2. sm = [version |-> Target(p), dirty |-> TRUE] BY <3>1 DEF Marked
    <3>3. CASE UNCHANGED schema BY <1>2, <3>1, <3>3, ClaimElsewhere, BelowElsewhere
    <3>4. CASE /\ proc'[p].pc = "clean" /\ proc'[p].to = proc[p].to
               /\ proc[p].cmd = "up" /\ schema' = schema \cup {proc[p].to}
      <4>1. AppliedBelow' BY <2>3, <3>1, <3>2, <3>4, ClaimCoveredNext DEF Covered
      <4> QED BY <2>1, <3>1, <3>4, <4>1, StepsBelowOn DEF Stepping
    <3>5. CASE /\ proc'[p].pc = "clean" /\ proc'[p].to = proc[p].to
               /\ proc[p].cmd # "up" /\ schema' = schema \ {proc[p].to}
      <4>1. Target(p) = proc[p].to - 1 BY <3>5 DEF Target
      <4>2. AppliedBelow' BY <2>2, <2>3, <3>1, <3>2, <3>5, <4>1, ClaimCoveredNext DEF Covered
      <4>3. CASE severed /\ ops > 0 BY <2>1, <4>2, <4>3 DEF StepsBelow
      <4>4. CASE ~(severed /\ ops > 0)
        <5>1. ~severed
          <6>1. ops # 0 BY <3>1, <3>5 DEF Commanded, Working, Stepping
          <6> QED BY <4>4, <6>1, Bounds DEF TypeOK
        <5>2. proc[p].pc \notin Waiting BY <3>1 DEF Waiting
        <5>3. ASSUME NEW r \in Procs, r # p
              PROVE  proc'[r].pc \notin Stepping \cup {"record", "rewind"}
          <6>1. proc[r].pc \in Waiting BY <5>1, <5>2, <5>3, AlonePast
          <6> QED BY <3>1, <5>3, <6>1 DEF Others, Waiting, Stepping
        <5>4. \A v \in Versions : v < proc'[p].to => v \in schema'
          BY <2>2, <2>3, <3>1, <3>5, <4>4 DEF Covered, Stepping
        <5>5. proc'[p].pc \notin {"record", "rewind"} BY <3>5
        <5> QED BY <4>2, <5>3, <5>4, <5>5 DEF StepsBelow, Covered
      <4> QED BY <4>2, <4>3, <4>4
    <3> QED BY <2>8, <3>3, <3>4, <3>5, RunDoes
  <2>9. CASE UNCHANGED <<sm, schema>> BY <1>2, <2>9, ClaimElsewhere, BelowElsewhere
  <2> QED BY <1>2, <2>4, <2>5, <2>6, <2>7, <2>8, <2>9, Untouched
<1> QED BY <1>1, <1>2 DEF Next

\* So it holds in every reachable state.
LEMMA BelowInvariant == Spec => []Below
<1>1. Init => Below BY InitTyped, InitLocked, InitMarked, InitBelow DEF Below
<1>2. Below /\ [Next]_vars => Below'
  BY NextTyped, NextLocked, NextMarked, NextBelow DEF Below
<1> QED BY <1>1, <1>2, PTL DEF Spec

\* The version row never claims a migration that is not applied, whatever dies, fails or
\* overlaps, as long as no connection was lost or no operator's command given.
THEOREM VersionTrue == Spec => []AppliedBelow
<1>1. Below => AppliedBelow BY DEF Below
<1> QED BY <1>1, BelowInvariant, PTL

------------------------------------------------------------------------------
(* What the history says *)

\* No version is backfilled twice: who backfills holds the wrapper's lock since it counted.
LEMMA NextBackfilled ==
    ASSUME TypeOK, Commanded, Locked, Backfilled, [Next]_vars PROVE Backfilled'
<1>1. CASE UNCHANGED vars BY <1>1 DEF vars, history, Backfilled
<1>2. ASSUME NEW p \in Procs, Others(p), UNCHANGED backfills, rows => rows',
             rows' = rows \/ proc[p].conn, proc'[p].pc = "backfill" /\ proc'[p].conn => ~rows'
      PROVE  Backfilled'
  <2>1. ASSUME NEW r \in Procs, proc'[r].pc = "backfill", proc'[r].conn PROVE ~rows'
    <3>1. CASE r = p BY <1>2, <2>1, <3>1
    <3>2. CASE r # p
      <4>1. proc[r].pc = "backfill" /\ proc[r].conn BY <1>2, <2>1, <3>2 DEF Others
      <4>2. ~rows /\ ~proc[p].conn BY <1>2, <3>2, <4>1 DEF Backfilled, Locked
      <4> QED BY <1>2, <4>2
    <3> QED BY <3>1, <3>2
  <2>2. \A v \in Versions : backfills'[v] <= 1 /\ (~rows' => backfills'[v] = 0)
    BY <1>2 DEF Backfilled
  <2> QED BY <2>1, <2>2 DEF Backfilled
<1>3. ASSUME NEW p \in Procs, BackfillIfEmpty(p) PROVE Backfilled'
  <2> DEFINE applied == 0 .. proc[p].seen.version
  <2>1. /\ proc[p].pc = "backfill" /\ proc[p].conn /\ rows' = (rows \/ applied # {})
        /\ backfills' = [v \in Versions |-> backfills[v] + IF v \in applied THEN 1 ELSE 0]
        /\ Others(p) /\ proc'[p].pc = "drift"
    BY <1>3, GotoDoes DEF BackfillIfEmpty
  <2> HIDE DEF applied
  <2>2. ~rows /\ \A v \in Versions : backfills[v] = 0 BY <2>1 DEF Backfilled
  <2>3. ASSUME NEW v \in Versions PROVE backfills'[v] <= 1 /\ (~rows' => backfills'[v] = 0)
    <3>1. backfills'[v] = 0 + IF v \in applied THEN 1 ELSE 0 BY <2>1, <2>2
    <3>2. CASE v \in applied
      <4>1. rows' BY <2>1, <3>2
      <4> QED BY <3>1, <3>2, <4>1
    <3>3. CASE v \notin applied BY <3>1, <3>3
    <3> QED BY <3>2, <3>3
  <2>4. ASSUME NEW r \in Procs, proc'[r].pc = "backfill", proc'[r].conn PROVE FALSE
    <3>1. r # p BY <2>1, <2>4
    <3>2. proc[r].conn BY <2>1, <2>4, <3>1 DEF Others
    <3> QED BY <2>1, <3>1, <3>2 DEF Locked
  <2> QED BY <2>3, <2>4 DEF Backfilled
<1>4. ASSUME NEW p \in Procs, RecordStarted(p) \/ RecordForce(p) PROVE Backfilled'
  <2>1. UNCHANGED backfills /\ proc[p].conn /\ rows' = TRUE
    BY <1>4 DEF RecordStarted, RecordForce
  <2>2. CASE RecordStarted(p)
    <3>1. Others(p) /\ proc'[p].pc \in {"rewind", "take"} BY <2>2, GotoDoes DEF RecordStarted
    <3> QED BY <1>2, <2>1, <3>1
  <2>3. CASE RecordForce(p)
    <3>1. Others(p) /\ proc'[p].pc = "idle" BY <2>3, Ends, GoneTyped DEF RecordForce, Others
    <3> QED BY <1>2, <2>1, <3>1
  <2> QED BY <1>4, <2>2, <2>3
<1>5. ASSUME NEW p \in Procs,
             \/ Up(p) \/ Operate(p) \/ Step(p)
             \/ DriftRefused(p) \/ StepFails(p) \/ LoseConn(p) \/ Crash(p),
             ~(BackfillIfEmpty(p) \/ RecordStarted(p) \/ RecordForce(p))
      PROVE  Backfilled'
  <2>1. UNCHANGED <<rows, backfills>>
    BY <1>5 DEF history, Step, Up, Operate, Bootstrap, AcquireLock, RecoverOrphans, ResolveOrphan,
       OrphansDone, CountHistory, DetectDrift, ReapplyDirty, NextPendingUp, NextDown, Rewind,
       Steps, MarkDirty, RunScript, MarkClean, CompleteRow, ForceVersion, ForceNothing,
       Disconnected, DriftRefused, StepFails, LoseConn, Crash
  <2>2. rows \in BOOLEAN BY DEF TypeOK
  <2>3. ASSUME Others(p), proc'[p].pc = "backfill" /\ proc'[p].conn => ~rows
        PROVE  Backfilled'
    BY <1>2, <2>1, <2>2, <2>3
  <2>4. CASE CountHistory(p) BY <2>3, <2>4, CountDoes
  <2>5. CASE End(p) BY <2>3, <2>5, Ends, GoneTyped DEF Others
  <2>6. CASE \/ Up(p) \/ Operate(p) \/ AcquireLock(p) \/ RecoverOrphans(p) \/ ResolveOrphan(p)
             \/ Bootstrap(p) \/ DetectDrift(p) \/ Rewind(p) \/ ForceVersion(p) \/ MarkDirty(p)
    BY <2>3, <2>6, StartDoes, AcquireDoes, RecoverDoes, ResolveDoes, GotoDoes
       DEF Bootstrap, DetectDrift, Rewind, ForceVersion, MarkDirty
  <2>7. CASE OrphansDone(p)
    <3>1. proc[p].cmd \in {"up", "down", "force"}
      BY <2>7 DEF OrphansDone, Commanded, TypeOK, ProcType, Commands
    <3> QED BY <2>3, <2>7, <3>1, GotoDoes DEF OrphansDone
  <2>8. CASE ReapplyDirty(p) \/ NextPendingUp(p) \/ NextDown(p) \/ CompleteRow(p)
    BY <2>3, <2>8, TurnsDoes, CompleteDoes, GoneTyped
  <2>9. CASE Steps(p) \/ RunScript(p) \/ MarkClean(p) \/ StepFails(p)
    BY <2>3, <2>9, StepsDoes, RunDoes, StepEndDoes DEF MarkClean, StepFails
  <2>10. CASE LoseConn(p) BY <2>3, <2>10, LoseDoes
  <2> QED
    BY <1>5, <2>4, <2>5, <2>6, <2>7, <2>8, <2>9, <2>10
       DEF Step, DriftRefused, Crash, ForceNothing, Disconnected
<1> QED BY <1>1, <1>3, <1>4, <1>5 DEF Next

\* At the start there is no history.
LEMMA InitRecorded == Init => Backfilled /\ Recorded
<1> SUFFICES ASSUME Init PROVE Backfilled /\ Recorded OBVIOUS
<1>1. Backfilled BY InitFresh, GoneTyped DEF Init, Backfilled
<1>2. \A v \in Versions : Right(v) BY DEF Init, Right
<1>3. \A p \in Procs : Knows(p) BY InitFresh, GoneTyped DEF Knows, Waiting, Working, Stepping
<1> QED BY <1>1, <1>2, <1>3, InitFresh DEF Recorded

\* A process that waits, or has just got the lock, need not know anything.
LEMMA KnowsNothing ==
    ASSUME NEW r \in Procs, proc'[r].pc \in Waiting \cup {"orphans"} PROVE Knows(r)'
BY DEF Knows, Waiting, Working, Stepping

\* What is right of a version stays so while its row and the schema do.
LEMMA RightKept ==
    ASSUME NEW v \in Versions, told'[v] = told[v], v \in schema' <=> v \in schema, Right(v)
    PROVE  Right(v)'
BY DEF Right

LEMMA ResolvableKept ==
    ASSUME NEW o, UNCHANGED <<sm, schema, told>>, Resolvable(o) PROVE Resolvable(o)'
BY DEF Resolvable, Right

\* A step that leaves the rows, the version row and the schema alone.
LEMMA RecordedQuiet ==
    ASSUME TypeOK, Recorded, NEW p \in Procs, Others(p), UNCHANGED <<sm, schema, open, told>>,
           severed => severed', ~severed' => Knows(p)'
    PROVE  Recorded'
<1> SUFFICES ASSUME ~severed' PROVE Recorded' BY DEF Recorded
<1>1. /\ \A o \in open : Resolvable(o) /\ \A q \in open : q = o
      /\ \A v \in Versions : (\A o \in open : o.v # v) => Right(v)
      /\ \A r \in Procs : Knows(r)
  BY DEF Recorded
<1>2. \A o \in open : Resolvable(o)' BY <1>1, ResolvableKept
<1>3. \A v \in Versions : (\A o \in open' : o.v # v) => Right(v)' BY <1>1, RightKept
<1>4. ASSUME NEW r \in Procs, r # p PROVE Knows(r)'
  <2>1. proc'[r] = proc[r] BY <1>4 DEF Others
  <2>2. Row(r)' = Row(r) BY <2>1 DEF Row
  <2>3. Right(proc[r].v) => Right(proc[r].v)'
    BY <2>1, RightKept DEF Right
  <2> QED BY <1>1, <2>1, <2>2, <2>3 DEF Knows
<1>5. \A r \in Procs : Knows(r)' BY <1>4
<1> QED BY <1>1, <1>2, <1>3, <1>5 DEF Recorded

\* A step of a process past the lock, where it is alone.
LEMMA RecordedAlone ==
    ASSUME TypeOK, Locked, NEW p \in Procs, Others(p), proc[p].pc \notin Waiting,
           severed => severed',
           ~severed' => /\ \A o \in open' : Resolvable(o)' /\ \A q \in open' : q = o
                        /\ \A v \in Versions : (\A o \in open' : o.v # v) => Right(v)'
                        /\ Knows(p)'
    PROVE  Recorded'
<1> SUFFICES ASSUME ~severed' PROVE Recorded' BY DEF Recorded
<1>1. ASSUME NEW r \in Procs, r # p PROVE Knows(r)'
  <2>1. proc[r].pc \in Waiting BY <1>1, AlonePast
  <2>2. proc'[r] = proc[r] BY <1>1 DEF Others
  <2> QED BY <2>1, <2>2, KnowsNothing
<1>2. \A r \in Procs : Knows(r)' BY <1>1
<1> QED BY <1>2 DEF Recorded

\* What a process past the lock can rely on.
LEMMA Knowing ==
    ASSUME Recorded, ~severed, NEW p \in Procs
    PROVE  /\ Knows(p)
           /\ \A o \in open : Resolvable(o) /\ \A q \in open : q = o
           /\ \A v \in Versions : (\A o \in open : o.v # v) => Right(v)
BY DEF Recorded

\* The row of a step says so when the step has not touched its version.
LEMMA NotBegun ==
    ASSUME TypeOK, NEW p \in Procs, Resolvable(Row(p)),
           sm.version = IF proc[p].cmd = "up" THEN proc[p].v - 1 ELSE proc[p].v
    PROVE  sm.dirty \/ Right(proc[p].v)
<1>1. proc[p].v \in Int BY Bounds DEF TypeOK, ProcType
<1>2. Row(p).v = proc[p].v /\ (Row(p).dir = "up" <=> proc[p].cmd = "up") BY DEF Row
<1>3. CASE proc[p].cmd = "up" BY <1>1, <1>2, <1>3 DEF Resolvable
<1>4. CASE proc[p].cmd # "up" BY <1>1, <1>2, <1>4 DEF Resolvable
<1> QED BY <1>3, <1>4

\* A process that ends, or has not reached the lock yet, changes nothing the history says.
LEMMA RecordedEnd ==
    ASSUME TypeOK, Recorded, NEW p \in Procs, End(p), UNCHANGED <<sm, schema, open, told, severed>>
    PROVE  Recorded'
BY Ends, GoneTyped, KnowsNothing, RecordedQuiet DEF Others, Waiting

\* Before the steps of a command.
LEMMA PreludeRecorded ==
    ASSUME Below, Backfilled, Recorded, NEW p \in Procs,
           \/ Up(p) \/ Operate(p) \/ Bootstrap(p) \/ AcquireLock(p) \/ RecoverOrphans(p)
           \/ OrphansDone(p) \/ CountHistory(p) \/ DetectDrift(p)
    PROVE  Recorded'
<1> USE DEF Below
<1>1. UNCHANGED <<sm, schema, open, told, severed>>
  BY DEF history, Up, Operate, Bootstrap, AcquireLock, RecoverOrphans, OrphansDone, CountHistory,
     DetectDrift
<1>2. CASE Up(p) \/ Operate(p) \/ AcquireLock(p)
  BY <1>1, <1>2, StartDoes, AcquireDoes, KnowsNothing, RecordedQuiet DEF Waiting
<1>3. CASE Bootstrap(p)
  BY <1>1, <1>3, GotoDoes, KnowsNothing, RecordedQuiet DEF Bootstrap, Waiting
<1>4. CASE RecoverOrphans(p)
  <2>1. /\ Others(p) /\ proc'[p].pc = "resolve" /\ proc'[p].orphans = open /\ proc'[p].seen = sm
    BY <1>4, RecoverDoes
  <2>2. Knows(p)' BY <1>1, <2>1 DEF Knows, Waiting, Working, Stepping
  <2> QED BY <1>1, <2>1, <2>2, RecordedQuiet
<1>5. CASE OrphansDone(p)
  <2>1. proc[p].pc = "resolve" /\ proc[p].orphans = {} /\ proc[p].cmd \in {"up", "down", "force"}
    BY <1>5 DEF OrphansDone, Commanded, TypeOK, ProcType, Commands
  <2>2. Others(p) /\ proc'[p].pc \in {"count", "down", "force"}
    BY <1>5, <2>1, GotoDoes DEF OrphansDone
  <2>3. ASSUME ~severed' PROVE Knows(p)'
    <3>1. open = {} BY <1>1, <2>1, <2>3, Knowing DEF Knows
    <3> QED BY <1>1, <2>2, <3>1 DEF Knows, Waiting, Working, Stepping
  <2> QED BY <1>1, <2>2, <2>3, RecordedQuiet
<1>6. CASE CountHistory(p) \/ DetectDrift(p)
  <2>1. proc[p].pc \in {"count", "drift"} BY <1>6 DEF CountHistory, DetectDrift
  <2>2. /\ Others(p) /\ proc'[p].pc \in {"backfill", "drift", "dirty"}
        /\ proc'[p].pc = "backfill" => proc'[p].seen = sm
    BY <1>6, CountDoes, GotoDoes DEF DetectDrift
  <2>3. ASSUME ~severed' PROVE Knows(p)'
    <3>1. open = {} BY <1>1, <2>1, <2>3, Knowing DEF Knows, Waiting, Working, Stepping
    <3> QED BY <1>1, <2>2, <3>1 DEF Knows, Waiting, Working, Stepping
  <2> QED BY <1>1, <2>2, <2>3, RecordedQuiet
<1> QED BY <1>2, <1>3, <1>4, <1>5, <1>6

\* resolveOrphan's verdict on what the version row can be.
LEMMA VerdictIs ==
    ASSUME NEW o \in Rows, NEW v \in -1 .. Top, NEW dirty \in BOOLEAN,
           sm = [version |-> v, dirty |-> dirty]
    PROVE  /\ o.dir = "up" /\ v = o.v - 1 /\ ~dirty => Verdict(o, sm) \in {"failed", "lost up"}
           /\ o.dir = "up" /\ v = o.v /\ dirty => Verdict(o, sm) = "dirty"
           /\ o.dir = "up" /\ v = o.v /\ ~dirty => Verdict(o, sm) = "up"
           /\ o.dir = "down" /\ v = o.v /\ ~dirty => Verdict(o, sm) = "failed"
           /\ o.dir = "down" /\ v = o.v /\ dirty => Verdict(o, sm) = "dirty"
           /\ o.dir = "down" /\ v = o.v - 1 /\ dirty => Verdict(o, sm) = "lost down"
           /\ o.dir = "down" /\ v = o.v - 1 /\ ~dirty => Verdict(o, sm) \in {"down", "lost down"}
<1>1. o.v \in Int /\ o.v >= 0 /\ v \in Int BY Bounds DEF Rows
<1>2. sm.version = v /\ sm.dirty = dirty OBVIOUS
<1>3. HasRow(sm) <=> v # -1 \/ dirty BY <1>2 DEF HasRow
<1>4. CASE o.dir = "up"
  <2>1. CASE v = o.v - 1 /\ ~dirty BY <1>1, <1>2, <1>3, <1>4, <2>1 DEF Verdict
  <2>2. CASE v = o.v /\ dirty BY <1>1, <1>2, <1>3, <1>4, <2>2 DEF Verdict
  <2>3. CASE v = o.v /\ ~dirty BY <1>1, <1>2, <1>3, <1>4, <2>3 DEF Verdict
  <2> QED BY <1>1, <1>4, <2>1, <2>2, <2>3
<1>5. CASE o.dir = "down"
  <2>1. CASE v = o.v /\ ~dirty BY <1>1, <1>2, <1>3, <1>5, <2>1 DEF Verdict
  <2>2. CASE v = o.v /\ dirty BY <1>1, <1>2, <1>3, <1>5, <2>2 DEF Verdict
  <2>3. CASE v = o.v - 1 /\ dirty BY <1>1, <1>2, <1>3, <1>5, <2>3 DEF Verdict
  <2>4. CASE v = o.v - 1 /\ ~dirty BY <1>1, <1>2, <1>3, <1>5, <2>4 DEF Verdict
  <2> QED BY <1>1, <1>5, <2>1, <2>2, <2>3, <2>4
<1> QED BY <1>4, <1>5 DEF Rows

\* What an orphan is told fits the schema.
LEMMA VerdictRight ==
    ASSUME TypeOK, AppliedBelow, ~severed, NEW o \in Rows, Resolvable(o), UNCHANGED schema,
           Tell(o.v, Verdict(o, sm))
    PROVE  Right(o.v)'
<1>1. o.v \in Versions /\ o.v \in Int /\ o.v >= 0 /\ o.dir \in {"up", "down"} BY Bounds DEF Rows
<1>0. o.v \in -1 .. Top /\ o.v - 1 \in -1 .. Top BY Bounds DEF Rows
<1>2. told \in [Versions -> Verdicts] BY DEF TypeOK
<1>3. ASSUME Verdict(o, sm) = "failed", Right(o.v) PROVE Right(o.v)'
  BY <1>1, <1>3, RightKept DEF Tell
<1>4. Verdict(o, sm) # "failed" => told'[o.v] = Verdict(o, sm)
  BY <1>1, <1>2 DEF Tell
<1>5. ASSUME Verdict(o, sm) \in {"lost up", "lost down", "dirty"} PROVE Right(o.v)'
  BY <1>4, <1>5 DEF Right
<1>6. CASE o.dir = "up"
  <2>1. CASE sm = [version |-> o.v - 1, dirty |-> FALSE] /\ Right(o.v)
    <3>1. Verdict(o, sm) \in {"failed", "lost up"} BY <1>6, <1>0, <2>1, VerdictIs
    <3> QED BY <1>3, <1>5, <2>1, <3>1
  <2>2. CASE sm = [version |-> o.v, dirty |-> TRUE]
    <3>1. Verdict(o, sm) = "dirty" BY <1>6, <1>0, <2>2, VerdictIs
    <3> QED BY <1>5, <3>1
  <2>3. CASE sm = [version |-> o.v, dirty |-> FALSE]
    <3>1. Verdict(o, sm) = "up" BY <1>6, <1>0, <2>3, VerdictIs
    <3>2. o.v \in schema BY <1>1, <2>3 DEF AppliedBelow
    <3> QED BY <1>4, <3>1, <3>2 DEF Right
  <2> QED BY <1>6, <2>1, <2>2, <2>3 DEF Resolvable
<1>7. CASE o.dir = "down"
  <2>1. CASE sm = [version |-> o.v, dirty |-> FALSE] /\ Right(o.v)
    <3>1. Verdict(o, sm) = "failed" BY <1>7, <1>0, <2>1, VerdictIs
    <3> QED BY <1>3, <2>1, <3>1
  <2>2. CASE sm = [version |-> o.v, dirty |-> TRUE] \/ sm = [version |-> o.v - 1, dirty |-> TRUE]
    <3>1. Verdict(o, sm) \in {"dirty", "lost down"} BY <1>7, <1>0, <2>2, VerdictIs
    <3> QED BY <1>5, <3>1
  <2>3. CASE sm = [version |-> o.v - 1, dirty |-> FALSE] /\ o.v \notin schema
    <3>1. Verdict(o, sm) \in {"down", "lost down"} BY <1>7, <1>0, <2>3, VerdictIs
    <3> QED BY <1>4, <1>5, <2>3, <3>1 DEF Right
  <2> QED BY <1>7, <2>1, <2>2, <2>3 DEF Resolvable
<1> QED BY <1>1, <1>6, <1>7

\* The resolution of an orphan writes what is true of the version.
LEMMA ResolveRecorded ==
    ASSUME Below, Backfilled, Recorded, NEW p \in Procs, ResolveOrphan(p) PROVE Recorded'
<1> USE DEF Below
<1>1. PICK o \in proc[p].orphans :
         /\ Tell(o.v, Verdict(o, proc[p].seen))
         /\ open' = open \ {o} /\ proc'[p].orphans = proc[p].orphans \ {o}
  BY ResolveDoes
<1>2. /\ Others(p) /\ proc'[p].pc = "resolve" /\ proc'[p].seen = proc[p].seen
      /\ proc[p].pc = "resolve" /\ UNCHANGED <<sm, schema, severed>>
  BY ResolveDoes DEF ResolveOrphan
<1>3. ASSUME ~severed'
      PROVE  /\ open' = {} /\ Knows(p)' /\ \A v \in Versions : Right(v)'
  <2>1. proc[p].orphans = open /\ proc[p].seen = sm BY <1>2, <1>3, Knowing DEF Knows
  <2>2. o \in open /\ o \in Rows /\ Resolvable(o) /\ open' = {}
    BY <1>1, <1>2, <1>3, <2>1, Knowing DEF TypeOK
  <2>3. Right(o.v)' BY <1>1, <1>2, <1>3, <2>1, <2>2, VerdictRight
  <2>4. ASSUME NEW v \in Versions, v # o.v PROVE Right(v)'
    <3>1. Right(v) BY <1>2, <1>3, <2>2, <2>4, Knowing
    <3>2. told'[v] = told[v] BY <1>1, <2>4 DEF Tell, TypeOK
    <3> QED BY <1>2, <3>1, <3>2, RightKept
  <2>5. Knows(p)'
    BY <1>1, <1>2, <2>1, <2>2 DEF Knows, Waiting, Working, Stepping
  <2> QED BY <2>2, <2>3, <2>4, <2>5
<1> QED BY <1>2, <1>3, RecordedAlone DEF Waiting

\* The backfill tells of a clean version that it is applied.
LEMMA BackfillRecorded ==
    ASSUME Below, Backfilled, Recorded, NEW p \in Procs, BackfillIfEmpty(p) PROVE Recorded'
<1> USE DEF Below
<1> DEFINE applied == 0 .. proc[p].seen.version
<1>1. /\ proc[p].pc = "backfill" /\ UNCHANGED <<sm, schema, open, severed>>
      /\ told' = [v \in Versions |->
               IF v \notin applied THEN told[v]
               ELSE IF proc[p].seen.dirty /\ v = proc[p].seen.version THEN "backfilled dirty"
               ELSE "backfilled"]
      /\ Others(p) /\ proc'[p].pc = "drift"
  BY GotoDoes DEF BackfillIfEmpty
<1>2. ASSUME ~severed' PROVE open' = {} /\ Knows(p)' /\ \A v \in Versions : Right(v)'
  <2>1. proc[p].seen = sm /\ open = {}
    BY <1>1, <1>2, Knowing DEF Knows, Waiting, Working, Stepping
  <2>2. \A v \in Versions : Right(v) BY <1>1, <1>2, <2>1, Knowing
  <2>3. ASSUME NEW v \in Versions PROVE Right(v)'
    <3>1. CASE v \notin applied BY <1>1, <2>2, <3>1, RightKept
    <3>2. CASE v \in applied /\ sm.dirty /\ v = sm.version
      BY <1>1, <2>1, <3>2 DEF Right
    <3>3. CASE v \in applied /\ ~(sm.dirty /\ v = sm.version)
      <4>1. told'[v] = "backfilled" BY <1>1, <2>1, <3>3
      <4>2. v < sm.version \/ (v = sm.version /\ ~sm.dirty)
        BY <2>1, <3>3, Bounds DEF TypeOK, State
      <4>3. v \in schema BY <1>1, <1>2, <4>2 DEF AppliedBelow
      <4> QED BY <1>1, <4>1, <4>3 DEF Right
    <3> QED BY <3>1, <3>2, <3>3
  <2>4. Knows(p)' BY <1>1, <2>1 DEF Knows, Waiting, Working, Stepping
  <2> QED BY <1>1, <2>1, <2>3, <2>4
<1> QED BY <1>1, <1>2, RecordedAlone DEF Waiting

\* A process turns to its next step, or ends.
LEMMA TurnRecorded ==
    ASSUME Below, Backfilled, Recorded, NEW p \in Procs,
           ReapplyDirty(p) \/ NextPendingUp(p) \/ NextDown(p)
    PROVE  Recorded'
<1> USE DEF Below
<1>1. /\ UNCHANGED <<sm, schema, open, told, severed>> /\ proc[p].pc \in {"dirty", "loop", "down"}
      /\ proc[p].cmd = IF NextDown(p) THEN "down" ELSE "up"
  BY DEF history, ReapplyDirty, NextPendingUp, NextDown, Commanded
<1>2. CASE End(p) BY <1>1, <1>2, RecordedEnd
<1>3. CASE ~End(p)
  <2>1. /\ Others(p) /\ proc'[p].cmd = proc[p].cmd
        /\ \/ ReapplyDirty(p) /\ ~sm.dirty /\ proc'[p].pc = "loop"
           \/ /\ ReapplyDirty(p) /\ sm.dirty /\ proc'[p].pc = "record"
              /\ proc'[p].v = sm.version /\ proc'[p].redo
           \/ /\ NextPendingUp(p) /\ proc'[p].pc = "record"
              /\ proc'[p].v = sm.version + 1 /\ ~proc'[p].redo /\ sm.version < Top
           \/ /\ NextDown(p) /\ proc'[p].pc = "record"
              /\ proc'[p].v = sm.version /\ ~proc'[p].redo /\ sm.version # -1
    BY <1>3, TurnsDoes
  <2>2. /\ sm = [version |-> sm.version, dirty |-> sm.dirty] /\ sm.version \in Int
        /\ sm.dirty \in BOOLEAN
    BY Bounds DEF TypeOK, State
  <2>3. ASSUME ~severed' PROVE Knows(p)'
    <3>1. open = {} /\ (proc[p].pc = "loop" => ~sm.dirty)
      BY <1>1, <2>3, Knowing DEF Knows, Waiting, Working, Stepping
    <3>2. CASE ~sm.dirty /\ proc'[p].pc = "loop"
      BY <1>1, <3>1, <3>2 DEF Knows, Waiting, Working, Stepping
    <3>3. CASE /\ ReapplyDirty(p) /\ sm.dirty /\ proc'[p].pc = "record"
               /\ proc'[p].v = sm.version /\ proc'[p].redo
      <4>1. proc'[p].cmd = "up" BY <2>1, <3>3 DEF ReapplyDirty, Commanded
      <4>2. sm = [version |-> proc'[p].v, dirty |-> TRUE] BY <2>2, <3>3
      <4> QED BY <1>1, <3>1, <3>3, <4>1, <4>2 DEF Knows, Waiting, Working, Stepping
    <3>4. CASE /\ NextPendingUp(p) /\ proc'[p].pc = "record"
               /\ proc'[p].v = sm.version + 1 /\ ~proc'[p].redo
      <4>1. proc'[p].cmd = "up" /\ ~sm.dirty BY <2>1, <3>1, <3>4 DEF NextPendingUp, Commanded
      <4>2. sm = [version |-> proc'[p].v - 1, dirty |-> FALSE] BY <2>2, <3>4, <4>1
      <4> QED BY <1>1, <3>1, <3>4, <4>1, <4>2 DEF Knows, Waiting, Working, Stepping
    <3>5. CASE /\ NextDown(p) /\ proc'[p].pc = "record"
               /\ proc'[p].v = sm.version /\ ~proc'[p].redo
      <4>1. proc'[p].cmd = "down" BY <1>1, <2>1, <3>5
      <4> QED BY <1>1, <3>1, <3>5, <4>1 DEF Knows, Waiting, Working, Stepping
    <3> QED BY <2>1, <3>2, <3>3, <3>4, <3>5
  <2> QED BY <1>1, <2>1, <2>3, RecordedQuiet
<1> QED BY <1>2, <1>3

\* The row of a step is opened.
LEMMA StartRecorded ==
    ASSUME Below, Backfilled, Recorded, NEW p \in Procs, RecordStarted(p) PROVE Recorded'
<1> USE DEF Below
<1>1. /\ proc[p].pc = "record" /\ open' = open \cup {Row(p)}
      /\ UNCHANGED <<sm, schema, told, severed>>
      /\ Others(p) /\ Same(p) /\ proc'[p].pc = IF proc[p].redo THEN "rewind" ELSE "take"
  BY GotoDoes DEF RecordStarted
<1>2. /\ proc'[p].cmd = proc[p].cmd /\ proc'[p].v = proc[p].v /\ proc'[p].redo = proc[p].redo
      /\ Row(p)' = Row(p) /\ Row(p).v = proc[p].v /\ (Row(p).dir = "up" <=> proc[p].cmd = "up")
  BY <1>1 DEF Same, Row
<1>3. /\ sm = [version |-> sm.version, dirty |-> sm.dirty] /\ sm.version \in Int
      /\ sm.dirty \in BOOLEAN /\ proc[p].v \in Versions
  BY Bounds DEF TypeOK, State, ProcType
<1>4. ASSUME ~severed'
      PROVE  /\ \A o \in open' : Resolvable(o)' /\ \A q \in open' : q = o
             /\ \A v \in Versions : (\A o \in open' : o.v # v) => Right(v)'
             /\ Knows(p)'
  <2>1. /\ open' = {Row(p)} /\ \A v \in Versions : Right(v)
        /\ proc[p].redo => sm = [version |-> proc[p].v, dirty |-> TRUE]
        /\ ~proc[p].redo /\ proc[p].cmd = "up" =>
               sm = [version |-> proc[p].v - 1, dirty |-> FALSE]
        /\ proc[p].cmd # "up" => sm.version = proc[p].v
    <3>1. open = {} BY <1>1, <1>4, Knowing DEF Knows
    <3>2. \A v \in Versions : Right(v) BY <1>1, <1>4, <3>1, Knowing
    <3>3. Knows(p) BY <1>1, <1>4, Knowing
    <3> QED BY <1>1, <3>1, <3>2, <3>3 DEF Knows
  <2>2. \A v \in Versions : Right(v)' BY <1>1, <2>1, RightKept
  <2>3. proc[p].redo => proc[p].cmd = "up" BY DEF Commanded
  <2>4. Resolvable(Row(p))
    <3>1. CASE proc[p].redo BY <1>2, <2>1, <2>3, <3>1 DEF Resolvable
    <3>2. CASE ~proc[p].redo /\ proc[p].cmd = "up" BY <1>2, <1>3, <2>1, <3>2 DEF Resolvable
    <3>3. CASE proc[p].cmd # "up"
      <4>1. sm = [version |-> proc[p].v, dirty |-> sm.dirty] BY <1>3, <2>1, <3>3
      <4>2. CASE sm.dirty BY <1>2, <1>3, <3>3, <4>1, <4>2 DEF Resolvable
      <4>3. CASE ~sm.dirty BY <1>2, <1>3, <2>1, <3>3, <4>1, <4>3 DEF Resolvable
      <4> QED BY <4>2, <4>3
    <3> QED BY <3>1, <3>2, <3>3
  <2>5. PICK o : o = Row(p) OBVIOUS
  <2>6. Resolvable(o)' BY <1>1, <2>4, <2>5, ResolvableKept
  <2>7. Knows(p)'
    <3>1. CASE proc[p].redo
      <4>1. proc'[p].pc = "rewind" BY <1>1, <3>1
      <4>2. (Right(proc[p].v))' BY <1>2, <1>3, <2>1, <1>1 DEF Right
      <4> QED BY <1>1, <1>2, <2>1, <2>3, <3>1, <4>1, <4>2
            DEF Knows, Waiting, Working, Stepping
    <3>2. CASE ~proc[p].redo
      <4>1. proc'[p].pc = "take" BY <1>1, <3>2
      <4> QED BY <1>1, <1>2, <2>1, <3>2, <4>1 DEF Knows, Waiting, Working, Stepping
    <3> QED BY <3>1, <3>2
  <2> QED BY <2>1, <2>2, <2>5, <2>6, <2>7
<1> QED BY <1>1, <1>4, RecordedAlone DEF Waiting

\* What a process at a step knows of its row.
LEMMA AtStep ==
    ASSUME Recorded, ~severed, NEW p \in Procs, proc[p].pc \in Working \ {"record"}
    PROVE  /\ open = {Row(p)} /\ Resolvable(Row(p))
           /\ \A v \in Versions : v # proc[p].v => Right(v)
<1>1. open = {Row(p)} BY Knowing DEF Knows
<1>2. Row(p).v = proc[p].v BY DEF Row
<1> QED BY <1>1, <1>2, Knowing

\* What a step has to show when it goes on at the version of its row.
LEMMA StepRecorded ==
    ASSUME TypeOK, Locked, Recorded, NEW p \in Procs, Others(p), NEW o, o = Row(p),
           proc[p].pc \in Working \ {"record"}, UNCHANGED <<open, told>>, severed => severed',
           ~severed' => /\ \A v \in Versions : v # proc[p].v => (v \in schema' <=> v \in schema)
                        /\ Resolvable(o)' /\ Knows(p)'
    PROVE  Recorded'
<1>1. ASSUME ~severed'
      PROVE  /\ \A q \in open' : Resolvable(q)' /\ \A r \in open' : r = q
             /\ \A v \in Versions : (\A q \in open' : q.v # v) => Right(v)'
             /\ Knows(p)'
  <2>1. open' = {o} /\ \A v \in Versions : v # proc[p].v => Right(v) BY <1>1, AtStep
  <2>2. o.v = proc[p].v BY DEF Row
  <2>3. ASSUME NEW v \in Versions, v # proc[p].v PROVE Right(v)' BY <1>1, <2>1, <2>3, RightKept
  <2> QED BY <1>1, <2>1, <2>2, <2>3
<1>2. proc[p].pc \notin Waiting BY DEF Waiting, Working, Stepping
<1> QED BY <1>1, <1>2, RecordedAlone

\* The row of a step, as the step goes on.
LEMMA RowStays ==
    ASSUME TypeOK, NEW p \in Procs, Same(p), NEW o, o = Row(p)
    PROVE  /\ Row(p)' = o /\ o.v = proc[p].v /\ proc'[p].v = proc[p].v
           /\ proc'[p].cmd = proc[p].cmd
           /\ o.v \in Versions /\ o.v \in Int /\ o.v >= 0 /\ o.v <= Top
           /\ o.dir = (IF proc[p].cmd = "up" THEN "up" ELSE "down")
<1>1. proc[p].v \in Versions BY DEF TypeOK, ProcType
<1> QED BY <1>1, Bounds DEF Row, Same

\* The steps of a command keep the record ...
LEMMA RewindRecorded ==
    ASSUME Below, Backfilled, Recorded, NEW p \in Procs, Rewind(p) PROVE Recorded'
<1> USE DEF Below
<1>1. /\ proc[p].pc = "rewind" /\ UNCHANGED <<schema, open, told, severed>>
      /\ sm' = [version |-> proc[p].v - 1, dirty |-> FALSE]
      /\ Others(p) /\ Same(p) /\ proc'[p].pc = "take"
  BY GotoDoes DEF Rewind, history
<1>2. proc[p].cmd = "up" BY <1>1 DEF Commanded
<1>3. PICK o : o = Row(p) OBVIOUS
<1>4. ASSUME ~severed' PROVE Resolvable(o)' /\ Knows(p)'
  <2>1. Right(o.v) /\ open = {o}
    BY <1>1, <1>3, <1>4, Knowing, AtStep, RowStays DEF Knows, Working
  <2>2. Right(o.v)' BY <1>1, <1>3, <2>1, RightKept, RowStays
  <2>3. Resolvable(o)' BY <1>1, <1>2, <1>3, <2>2, RowStays DEF Resolvable
  <2>4. Knows(p)'
    BY <1>1, <1>2, <1>3, <2>1, RowStays DEF Knows, Waiting, Working, Stepping
  <2> QED BY <2>3, <2>4
<1> QED BY <1>1, <1>3, <1>4, StepRecorded DEF Working

LEMMA TakeRecorded ==
    ASSUME Below, Backfilled, Recorded, NEW p \in Procs, Steps(p) PROVE Recorded'
<1> USE DEF Below
<1>1. /\ proc[p].pc = "take" /\ UNCHANGED <<sm, schema, open, told, severed>>
      /\ Others(p) /\ Same(p)
  BY StepsDoes DEF Steps, history
<1>2. PICK o : o = Row(p) OBVIOUS
<1>3. sm.version \in Int /\ sm.dirty \in BOOLEAN BY Bounds DEF TypeOK, State
<1>4. ASSUME ~severed' PROVE Resolvable(o)' /\ Knows(p)'
  <2>1. Resolvable(o) /\ open = {o} BY <1>1, <1>2, <1>4, AtStep DEF Working
  <2>2. sm.version = IF proc[p].cmd = "up" THEN o.v - 1 ELSE o.v
    BY <1>1, <1>2, <1>4, Knowing, RowStays DEF Knows
  <2>3. Knows(p)'
    <3>1. CASE proc'[p].pc = "mark" /\ proc'[p].to = (IF proc[p].cmd = "up" THEN sm.version + 1
                                                      ELSE sm.version)
      <4>1. proc'[p].to = o.v BY <1>2, <1>3, <2>2, <3>1, <1>1, RowStays
      <4> QED BY <1>1, <1>2, <2>1, <3>1, <4>1, RowStays DEF Knows, Waiting, Working, Stepping
    <3>2. CASE /\ proc'[p].pc = "complete" /\ ~proc'[p].ok
               /\ \/ sm.dirty
                  \/ proc[p].cmd = "up" /\ sm.version = Top
                  \/ proc[p].cmd # "up" /\ sm.version = -1
      <4>1. sm.dirty BY <1>1, <1>2, <1>3, <2>2, <3>2, RowStays, Bounds
      <4> QED BY <1>1, <1>2, <2>1, <3>2, <4>1, RowStays DEF Knows, Waiting, Working, Stepping
    <3> QED BY <3>1, <3>2, StepsDoes
  <2> QED BY <1>1, <2>1, <2>3, ResolvableKept
<1> QED BY <1>1, <1>2, <1>4, StepRecorded DEF Working

\* golang-migrate at its step.
LEMMA MarkRecorded ==
    ASSUME Below, Backfilled, Recorded, NEW p \in Procs, MarkDirty(p) PROVE Recorded'
<1> USE DEF Below
<1>1. /\ proc[p].pc = "mark" /\ UNCHANGED <<schema, open, told, severed>>
      /\ sm' = [version |-> Target(p), dirty |-> TRUE]
      /\ Others(p) /\ Same(p) /\ proc'[p].pc = "exec" /\ proc'[p].to = proc[p].to
  BY GotoDoes DEF MarkDirty, history
<1>2. PICK o : o = Row(p) OBVIOUS
<1>3. ASSUME ~severed' PROVE Resolvable(o)' /\ Knows(p)'
  <2>1. open = {o} /\ proc[p].to = o.v
    BY <1>1, <1>2, <1>3, Knowing, AtStep, RowStays DEF Knows, Working, Stepping
  <2>2. Target(p) = IF proc[p].cmd = "up" THEN o.v ELSE o.v - 1 BY <2>1 DEF Target
  <2>3. Resolvable(o)' BY <1>1, <1>2, <2>2, RowStays DEF Resolvable
  <2>4. Knows(p)' BY <1>1, <1>2, <2>1, RowStays DEF Knows, Waiting, Working, Stepping
  <2> QED BY <2>3, <2>4
<1> QED BY <1>1, <1>2, <1>3, StepRecorded DEF Working, Stepping

LEMMA RunRecorded ==
    ASSUME Below, Backfilled, Recorded, NEW p \in Procs, RunScript(p) PROVE Recorded'
<1> USE DEF Below
<1>1. /\ proc[p].pc = "exec" /\ UNCHANGED <<sm, open, told, severed>> /\ Others(p) /\ Same(p)
      /\ sm = [version |-> Target(p), dirty |-> TRUE]
  BY RunDoes DEF RunScript, history, Marked
<1>2. PICK o : o = Row(p) OBVIOUS
<1>3. ASSUME ~severed'
      PROVE  /\ \A v \in Versions : v # proc[p].v => (v \in schema' <=> v \in schema)
             /\ Resolvable(o)' /\ Knows(p)'
  <2>1. open = {o} /\ proc[p].to = o.v
    BY <1>1, <1>2, <1>3, Knowing, AtStep, RowStays DEF Knows, Working, Stepping
  <2>2. Target(p) = IF proc[p].cmd = "up" THEN o.v ELSE o.v - 1 BY <2>1 DEF Target
  <2>3. Resolvable(o)' BY <1>1, <1>2, <2>2, RowStays DEF Resolvable
  <2>4. /\ \A v \in Versions : v # proc[p].v => (v \in schema' <=> v \in schema)
        /\ \/ proc'[p].pc = "clean" /\ proc'[p].to = proc[p].to
           \/ proc'[p].pc = "complete" /\ ~proc'[p].ok
    BY <1>1, <1>2, <2>1, RunDoes, RowStays
  <2>5. Knows(p)' BY <1>1, <1>2, <2>1, <2>4, RowStays DEF Knows, Waiting, Working, Stepping
  <2> QED BY <2>3, <2>4, <2>5
<1> QED BY <1>1, <1>2, <1>3, StepRecorded DEF Working, Stepping

LEMMA CleanRecorded ==
    ASSUME Below, Backfilled, Recorded, NEW p \in Procs, MarkClean(p) PROVE Recorded'
<1> USE DEF Below
<1>1. /\ proc[p].pc = "clean" /\ UNCHANGED <<schema, open, told, severed>>
      /\ sm' = [version |-> Target(p), dirty |-> FALSE]
      /\ Others(p) /\ Same(p) /\ proc'[p].pc = "complete" /\ proc'[p].ok
      /\ proc[p].to \in schema <=> proc[p].cmd = "up"
  BY StepEndDoes DEF MarkClean, history, Marked
<1>2. PICK o : o = Row(p) OBVIOUS
<1>3. ASSUME ~severed' PROVE Resolvable(o)' /\ Knows(p)'
  <2>1. open = {o} /\ proc[p].to = o.v
    BY <1>1, <1>2, <1>3, Knowing, AtStep, RowStays DEF Knows, Working, Stepping
  <2>2. Target(p) = IF proc[p].cmd = "up" THEN o.v ELSE o.v - 1 BY <2>1 DEF Target
  <2>3. Resolvable(o)' BY <1>1, <1>2, <2>1, <2>2, RowStays DEF Resolvable
  <2>4. ~sm'.dirty BY <1>1
  <2>5. Knows(p)' BY <1>1, <1>2, <2>1, <2>4, RowStays DEF Knows, Waiting, Working, Stepping
  <2> QED BY <2>3, <2>5
<1> QED BY <1>1, <1>2, <1>3, StepRecorded DEF Working, Stepping

\* ... so do the failures and the end of a process ...
LEMMA FailRecorded ==
    ASSUME Below, Backfilled, Recorded, NEW p \in Procs, StepFails(p) PROVE Recorded'
<1> USE DEF Below
<1>1. /\ proc[p].pc \in {"rewind", "take", "mark", "exec", "clean"}
      /\ UNCHANGED <<sm, schema, open, told, severed>>
      /\ Others(p) /\ Same(p) /\ proc'[p].pc = "complete" /\ ~proc'[p].ok
  BY StepEndDoes DEF StepFails, history
<1>2. PICK o : o = Row(p) OBVIOUS
<1>3. ASSUME ~severed' PROVE Resolvable(o)' /\ Knows(p)'
  <2>1. Resolvable(o) /\ open = {o} BY <1>1, <1>2, <1>3, AtStep DEF Working, Stepping
  <2>2. Knows(p) BY <1>1, <1>3, Knowing
  <2>3. sm.dirty \/ Right(o.v)
    <3>1. CASE proc[p].pc = "rewind" BY <1>1, <1>2, <2>2, <3>1, RowStays DEF Knows
    <3>2. CASE proc[p].pc = "take"
      <4>1. sm.version = IF proc[p].cmd = "up" THEN proc[p].v - 1 ELSE proc[p].v
        BY <2>2, <3>2 DEF Knows
      <4> QED BY <1>1, <1>2, <2>1, <4>1, NotBegun, RowStays
    <3>3. CASE proc[p].pc = "mark"
      <4>1. proc[p].to = proc[p].v BY <2>2, <3>3 DEF Knows, Stepping
      <4>2. sm.version = IF proc[p].cmd = "up" THEN proc[p].v - 1 ELSE proc[p].v
        BY <3>3, <4>1 DEF Marked
      <4> QED BY <1>1, <1>2, <2>1, <4>2, NotBegun, RowStays
    <3>4. CASE proc[p].pc \in {"exec", "clean"}
      <4>1. sm = [version |-> Target(p), dirty |-> TRUE] BY <3>4 DEF Marked
      <4> QED BY <4>1
    <3> QED BY <1>1, <3>1, <3>2, <3>3, <3>4
  <2>4. sm'.dirty \/ Right(o.v)' BY <1>1, <1>2, <2>3, RightKept, RowStays
  <2>5. (sm.dirty \/ Right(proc[p].v))' BY <1>1, <1>2, <2>4, RowStays DEF Right
  <2>6. Knows(p)' BY <1>1, <1>2, <2>1, <2>5, RowStays DEF Knows, Waiting, Working, Stepping
  <2> QED BY <1>1, <2>1, <2>6, ResolvableKept
<1> QED BY <1>1, <1>2, <1>3, StepRecorded DEF Working, Stepping

\* The row is completed.
LEMMA CompleteRecorded ==
    ASSUME Below, Backfilled, Recorded, NEW p \in Procs, CompleteRow(p) PROVE Recorded'
<1> USE DEF Below
<1> DEFINE verdict == CASE proc[p].ok -> Row(p).dir
                        [] ~proc[p].ok /\ sm.dirty -> "dirty"
                        [] ~proc[p].ok /\ ~sm.dirty -> "failed"
<1>1. /\ proc[p].pc = "complete" /\ open' = open \ {Row(p)} /\ Tell(proc[p].v, verdict)
      /\ UNCHANGED <<sm, schema, severed>> /\ Others(p)
      /\ proc'[p].pc \in {"idle", "loop", "down"}
      /\ proc'[p].pc = "loop" => proc[p].ok
  BY CompleteDoes, GoneTyped DEF CompleteRow
<1>2. /\ proc[p].v \in Versions /\ proc[p].ok \in BOOLEAN /\ sm.dirty \in BOOLEAN
      /\ told \in [Versions -> Verdicts]
  BY DEF TypeOK, ProcType, State
<1>3. /\ proc[p].ok /\ proc[p].cmd = "up" => verdict = "up"
      /\ proc[p].ok /\ proc[p].cmd # "up" => verdict = "down"
      /\ ~proc[p].ok /\ sm.dirty => verdict = "dirty"
      /\ ~proc[p].ok /\ ~sm.dirty => verdict = "failed"
  BY <1>2 DEF Row
<1> HIDE DEF verdict
<1>4. PICK w : w = proc[p].v OBVIOUS
<1>5. ASSUME ~severed' PROVE open' = {} /\ Knows(p)' /\ \A v \in Versions : Right(v)'
  <2>1. /\ open' = {} /\ \A v \in Versions : v # w => Right(v)
        /\ proc[p].ok => ~sm.dirty /\ (w \in schema <=> proc[p].cmd = "up")
        /\ ~proc[p].ok => sm.dirty \/ Right(w)
    <3>1. open' = {} /\ \A v \in Versions : v # w => Right(v)
      BY <1>1, <1>4, <1>5, AtStep DEF Working
    <3>2. Knows(p) BY <1>1, <1>5, Knowing
    <3> QED BY <1>1, <1>4, <3>1, <3>2 DEF Knows
  <2>2. ASSUME NEW v \in Versions, v # w PROVE Right(v)'
    <3>1. told'[v] = told[v] BY <1>1, <1>2, <1>4, <2>2 DEF Tell
    <3> QED BY <1>1, <2>1, <2>2, <3>1, RightKept
  <2>3. Right(w)'
    <3>1. CASE proc[p].ok
      <4>1. told'[w] = IF proc[p].cmd = "up" THEN "up" ELSE "down"
        BY <1>1, <1>2, <1>3, <1>4, <3>1 DEF Tell
      <4> QED BY <1>1, <2>1, <3>1, <4>1 DEF Right
    <3>2. CASE ~proc[p].ok /\ sm.dirty
      <4>1. told'[w] = "dirty" BY <1>1, <1>2, <1>3, <1>4, <3>2 DEF Tell
      <4> QED BY <4>1 DEF Right
    <3>3. CASE ~proc[p].ok /\ ~sm.dirty
      <4>1. told' = told BY <1>1, <1>3, <3>3 DEF Tell
      <4> QED BY <1>1, <1>2, <1>4, <2>1, <3>3, <4>1, RightKept
    <3> QED BY <1>2, <3>1, <3>2, <3>3
  <2>4. Knows(p)' BY <1>1, <2>1 DEF Knows, Waiting, Working, Stepping
  <2> QED BY <2>1, <2>2, <2>3, <2>4
<1> QED BY <1>1, <1>5, RecordedAlone DEF Waiting

\* ... and so does a force.
LEMMA ForceRecorded ==
    ASSUME Below, Backfilled, Recorded, NEW p \in Procs, ForceVersion(p) PROVE Recorded'
<1> USE DEF Below
<1>1. /\ proc[p].pc = "force" /\ UNCHANGED <<schema, open, told, severed>>
      /\ Others(p) /\ proc'[p].pc = "recordforce"
  BY GotoDoes DEF ForceVersion, history
<1>2. ASSUME ~severed' PROVE open' = {} /\ Knows(p)' /\ \A v \in Versions : Right(v)'
  <2>1. open = {} BY <1>1, <1>2, Knowing DEF Knows, Waiting, Working, Stepping
  <2>2. \A v \in Versions : Right(v) BY <1>1, <1>2, <2>1, Knowing
  <2>3. \A v \in Versions : Right(v)' BY <1>1, <2>2, RightKept
  <2>4. Knows(p)' BY <1>1, <2>1 DEF Knows, Waiting, Working, Stepping
  <2> QED BY <1>1, <2>1, <2>3, <2>4
<1> QED BY <1>1, <1>2, RecordedAlone DEF Waiting

\* So does every step.
LEMMA NextRecorded ==
    ASSUME Below, Backfilled, Recorded, [Next]_vars PROVE Recorded'
<1> USE DEF Below
<1>1. CASE UNCHANGED vars
  BY <1>1 DEF vars, history, Recorded, Resolvable, Right, Knows, Row
<1>2. ASSUME NEW p \in Procs,
             \/ ForceNothing(p) \/ RecordForce(p) \/ Disconnected(p) \/ DriftRefused(p) \/ Crash(p)
      PROVE  Recorded'
  BY <1>2, RecordedEnd DEF history, ForceNothing, RecordForce, Disconnected, DriftRefused, Crash
<1>3. ASSUME NEW p \in Procs, LoseConn(p) PROVE Recorded' BY <1>3 DEF LoseConn, Recorded
<1> QED
  BY <1>1, <1>2, <1>3, PreludeRecorded, ResolveRecorded, BackfillRecorded, TurnRecorded,
     StartRecorded, RewindRecorded, TakeRecorded, MarkRecorded, RunRecorded, CleanRecorded,
     FailRecorded, CompleteRecorded, ForceRecorded DEF Next, Step

\* So the history is true in every reachable state.
LEMMA RecordedInvariant == Spec => [](Below /\ Backfilled /\ Recorded)
<1>1. Init => Below /\ Backfilled /\ Recorded
  BY InitTyped, InitLocked, InitMarked, InitBelow, InitRecorded DEF Below
<1>2. Below /\ Backfilled /\ Recorded /\ [Next]_vars => (Below /\ Backfilled /\ Recorded)'
  BY NextTyped, NextLocked, NextMarked, NextBelow, NextBackfilled, NextRecorded DEF Below
<1> QED BY <1>1, <1>2, PTL DEF Spec

\* Once everybody has ended, with nothing left started or dirty, the last row of a version
\* tells whether it is applied; and no version is ever backfilled twice.
THEOREM HistoryKept == Spec => []HistoryTrue
<1>1. Below /\ Backfilled /\ Recorded => HistoryTrue
  BY DEF Below, Backfilled, Recorded, HistoryTrue
<1> QED BY <1>1, RecordedInvariant, PTL
=============================================================================
