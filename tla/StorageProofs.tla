------------------------------ MODULE StorageProofs ------------------------------
(***************************************************************************)
(* Proofs about what the tables keep: the results of scans (ScanResults),  *)
(* what users do with them (Findings), and the audit log (AuditTrail), for *)
(* any number of accounts, resources, channels and scans, of writers and   *)
(* walks, and any number of faults, requests and rows.                     *)
(***************************************************************************)
EXTENDS Findings, AuditTrail, FiniteSetTheorems, TLAPS

\* What a scan under way knows of: finitely many zombies, a channel only while a row is
\* written for it, and in what it will delete only rows of its account.  A request is of
\* some channel.
Bookkeeping ==
    /\ \A s \in Scans :
           /\ IsFiniteSet(scan[s].found)
           /\ scan[s].at # NoChannel <=> At(s, "record")
           /\ \A row \in scan[s].seen : row.acct = scan[s].acct
    /\ request.op # "none" => request.channel # NoChannel

\* The tables by themselves: what changes them does not look at the summaries.
TablesSpec == TablesInit /\ [][TablesNext]_tableVars

\* A scan that has been alone still is.
Solo ==
    \A s \in Scans : scan[s].alone =>
        /\ scan[s].pc # "idle"
        /\ \A t \in Scans \ {s} : scan[t].acct = scan[s].acct => scan[t].pc \notin Running

ZombiesSaved == {"snapshot", "breakdown", "list", "dispatch", "record", "insertresources", "done"}

MarkedOf(a) == {row.res : row \in {row \in Of(resources, a) : row.isZombie}}

\* What a scan that is alone has seen of the tables, and what it has written, is there.
Replaces ==
    \A s \in Scans : scan[s].alone /\ scan[s].acct \in account =>
        /\ At(s, "insertzombies") => scan[s].seen = Of(zombies, scan[s].acct)
        /\ scan[s].pc \in ZombiesSaved /\ scan[s].found # {} =>
              Of(zombies, scan[s].acct) = ZombiesOf(s)
        /\ At(s, "insertresources") => scan[s].seen = Of(resources, scan[s].acct)
        /\ At(s, "done") /\ scan[s].found # {} => MarkedOf(scan[s].acct) = scan[s].found

\* A snapshot is of a scan that has begun, and counts what that has found.
Counted ==
    \A n \in snapshots : scan[n.scan].pc # "idle" /\ n.count = Cardinality(scan[n.scan].found)

CountOf(s) == IF s = NoScan THEN 0 ELSE Cardinality(scan[s].found)

\* A message was sent to a channel that is still there, and says what the scan has found.
Told ==
    /\ IsFiniteSet(messages)
    /\ \A m \in messages : /\ There(m.channel) /\ m.count = CountOf(m.scan)
                           /\ m.scan # NoScan => scan[m.scan].pc # "idle"

------------------------------------------------------------------------------
(* Types *)

\* The assumptions on the constants, in the form the proofs use them.
LEMMA Bounds ==
    /\ MaxFaults \in Nat /\ MaxEvents \in Nat
    /\ NoScan \notin Scans /\ NoChannel \notin Channels
BY ResultsAssumption DEF ResultsAssumption

\* The rows of an account are rows, and of that account.
LEMMA OfRows ==
    ASSUME NEW rows, NEW a PROVE Of(rows, a) \subseteq rows /\ \A r \in Of(rows, a) : r.acct = a
BY DEF Of

\* A scan saves rows of its account.
LEMMA SavedRows ==
    ASSUME ResultsTypeOK, NEW s \in Scans
    PROVE  /\ scan[s].acct \in Accounts
           /\ ZombiesOf(s) \subseteq ZombieRow /\ AnnotateAll(s) \subseteq ResourceRow
           /\ \A row \in ZombiesOf(s) \cup AnnotateAll(s) : row.acct = scan[s].acct
<1>1. scan[s] \in ScanType BY DEF ResultsTypeOK
<1>2. scan[s].acct \in Accounts /\ scan[s].found \subseteq Resources
      /\ scan[s].billed \subseteq Resources
  BY <1>1 DEF ScanType
<1>3. ZombiesOf(s) \subseteq ZombieRow /\ \A row \in ZombiesOf(s) : row.acct = scan[s].acct
  BY <1>2 DEF ZombiesOf, ZombieRow
<1>4. ASSUME NEW row \in AnnotateAll(s)
      PROVE  row \in ResourceRow /\ row.acct = scan[s].acct
  <2>1. PICK r \in scan[s].billed \cup scan[s].found :
           row = [acct |-> scan[s].acct, res |-> r, scan |-> s, isZombie |-> r \in scan[s].found]
    BY DEF AnnotateAll
  <2>2. r \in Resources /\ (r \in scan[s].found) \in BOOLEAN BY <1>2
  <2> QED BY <1>2, <2>1, <2>2 DEF ResourceRow
<1> QED BY <1>2, <1>3, <1>4

\* The start is typed.
LEMMA InitTyped == TablesInit => TablesTypeOK
<1> SUFFICES ASSUME TablesInit PROVE TablesTypeOK OBVIOUS
<1>1. DismissedType BY DEF TablesInit, DismissedType
<1>2. scan \in [Scans -> ScanType]
  <2>1. \A a \in Accounts : [pc |-> "idle", acct |-> a, billed |-> {}, found |-> {}, seen |-> {},
                             todo |-> {}, at |-> NoChannel, sent |-> FALSE, alone |-> FALSE]
                               \in ScanType
    BY DEF ScanType
  <2> QED BY <2>1 DEF TablesInit, ResultsInit
<1>3. request \in RequestType BY DEF TablesInit, ResultsInit, NoRequest, RequestType
<1> QED BY <1>1, <1>2, <1>3, Bounds DEF TablesInit, ResultsInit, TablesTypeOK, ResultsTypeOK

\* The steps of a scan that write no table keep the types.
LEMMA QuietStepTyped ==
    ASSUME ResultsTypeOK, NEW s \in Scans,
           Begin(s) \/ ClearZombies(s) \/ DispatchForScan(s) \/ ClearResources(s)
    PROVE  ResultsTypeOK'
<1>1. scan \in [Scans -> ScanType] /\ scan[s] \in ScanType BY DEF ResultsTypeOK
<1>2. Of(zombies, scan[s].acct) \subseteq ZombieRow /\ Of(resources, scan[s].acct) \subseteq ResourceRow
  BY OfRows DEF ResultsTypeOK
<1>3. scan' \in [Scans -> ScanType]
  <2>1. CASE Begin(s)
    <3> DEFINE others == {t \in Scans \ {s} : scan[t].acct = scan[s].acct /\ scan[t].pc # "idle"}
    <3>1. PICK billed \in Billed, found \in Discovered :
             scan' = [t \in Scans |->
                CASE t = s -> [scan[s] EXCEPT !.pc = "costs", !.billed = billed, !.found = found,
                                   !.alone = \A o \in others : scan[o].pc \notin Running]
                  [] t \in others -> [scan[t] EXCEPT !.alone = FALSE]
                  [] OTHER -> scan[t]]
      BY <2>1 DEF Begin
    <3>2. \A b \in BOOLEAN : [scan[s] EXCEPT !.pc = "costs", !.billed = billed, !.found = found,
                                             !.alone = b] \in ScanType
      BY <1>1 DEF ScanType, Running, Billed, Discovered
    <3>3. (\A o \in others : scan[o].pc \notin Running) \in BOOLEAN OBVIOUS
    <3>4. \A t \in Scans : [scan[t] EXCEPT !.alone = FALSE] \in ScanType /\ scan[t] \in ScanType
      BY <1>1 DEF ScanType
    <3> HIDE DEF others
    <3> QED BY <3>1, <3>2, <3>3, <3>4
  <2>2. CASE ClearZombies(s)
    BY <1>1, <1>2, <2>2 DEF ClearZombies, ScanType, Running
  <2>3. CASE DispatchForScan(s)
    <3>1. {c \in Channels : channel[c] = "on" /\ Cardinality(scan[s].found) >= Gate[c]}
             \subseteq Channels
      OBVIOUS
    <3> QED BY <1>1, <2>3, <3>1 DEF DispatchForScan, ScanType, Running
  <2>4. CASE ClearResources(s)
    <3>1. (IF AnnotateAll(s) = {} THEN {} ELSE Of(resources, scan[s].acct))
             \in SUBSET (ZombieRow \cup ResourceRow)
      BY <1>2
    <3>2. (IF AnnotateAll(s) = {} THEN "done" ELSE "insertresources")
             \in Running \cup {"idle", "done", "failed"}
      BY DEF Running
    <3>3. \A pc \in Running \cup {"idle", "done", "failed"}, seen \in SUBSET (ZombieRow \cup ResourceRow) :
             [scan[s] EXCEPT !.pc = pc, !.seen = seen] \in ScanType
      BY <1>1 DEF ScanType
    <3> QED BY <1>1, <2>4, <3>1, <3>2, <3>3 DEF ClearResources
  <2> QED BY <2>1, <2>2, <2>3, <2>4
<1> QED BY <1>3 DEF ResultsTypeOK, tables, Begin, ClearZombies, DispatchForScan, ClearResources

\* So do those that write one, of a scan that keeps its books ...
LEMMA WriteStepTyped ==
    ASSUME ResultsTypeOK, Bookkeeping, NEW s \in Scans,
           \/ SaveCosts(s) \/ SaveZombies(s) \/ SaveSnapshot(s) \/ SaveSnapshotServices(s)
           \/ Send(s) \/ Record(s) \/ SaveResources(s)
    PROVE  ResultsTypeOK'
<1>1. scan \in [Scans -> ScanType] /\ scan[s] \in ScanType BY DEF ResultsTypeOK
<1>2. scan[s].acct \in Accounts /\ scan[s].billed \subseteq Resources
  BY <1>1 DEF ScanType
<1>3. Cardinality(scan[s].found) \in Nat BY FS_CardinalityType DEF Bookkeeping
<1>4. CASE SaveCosts(s)
  <2>1. [acct : {scan[s].acct}, res : scan[s].billed] \subseteq CostRow BY <1>2 DEF CostRow
  <2>2. \A pc \in {"snapshot", "zombies"} : [scan[s] EXCEPT !.pc = pc] \in ScanType
    BY <1>1 DEF ScanType, Running
  <2> QED BY <1>1, <1>4, <2>1, <2>2 DEF SaveCosts, Goto, ResultsTypeOK
<1>5. CASE SaveZombies(s)
  <2>1. scan' \in [Scans -> ScanType] BY <1>1, <1>5 DEF SaveZombies, ScanType, Running
  <2> QED BY <1>5, <2>1, SavedRows DEF SaveZombies, ResultsTypeOK
<1>6. CASE SaveSnapshot(s)
  <2>1. [scan |-> s, acct |-> scan[s].acct, count |-> Cardinality(scan[s].found)] \in Snapshot
    BY <1>2, <1>3 DEF Snapshot
  <2>2. scan' \in [Scans -> ScanType] BY <1>1, <1>6 DEF SaveSnapshot, Goto, ScanType, Running
  <2> QED BY <1>6, <2>1, <2>2 DEF SaveSnapshot, ResultsTypeOK
<1>7. CASE SaveSnapshotServices(s)
  <2>1. scan' \in [Scans -> ScanType]
    BY <1>1, <1>7 DEF SaveSnapshotServices, Goto, ScanType, Running
  <2> QED BY <1>7, <2>1 DEF SaveSnapshotServices, ResultsTypeOK
<1>8. CASE Send(s)
  <2>1. PICK c \in scan[s].todo, sent \in BOOLEAN, arrives \in BOOLEAN :
           /\ messages' = Sent(c, s, Cardinality(scan[s].found), arrives)
           /\ scan' = [scan EXCEPT ![s].pc = "record", ![s].todo = @ \ {c}, ![s].at = c,
                                   ![s].sent = sent]
    BY <1>8 DEF Send
  <2>2. c \in Channels BY <1>1 DEF ScanType
  <2>3. scan' \in [Scans -> ScanType] BY <1>1, <2>1, <2>2 DEF ScanType, Running
  <2>4. [channel |-> c, scan |-> s, count |-> Cardinality(scan[s].found)] \in Message
    BY <1>3, <2>2 DEF Message
  <2>5. messages' \subseteq Message BY <2>1, <2>4 DEF Sent, ResultsTypeOK
  <2> QED BY <1>8, <2>3, <2>5 DEF Send, ResultsTypeOK, tables
<1>9. CASE Record(s)
  <2>1. scan[s].at \in Channels /\ scan[s].sent \in BOOLEAN
    BY <1>1, <1>9 DEF Record, Bookkeeping, ScanType
  <2>2. [channel |-> scan[s].at, scan |-> s, sent |-> scan[s].sent] \in Dispatch
    BY <2>1 DEF Dispatch
  <2>3. scan' \in [Scans -> ScanType] BY <1>1, <1>9 DEF Record, ScanType, Running
  <2> QED BY <1>9, <2>2, <2>3 DEF Record, ResultsTypeOK
<1>10. CASE SaveResources(s)
  <2>1. scan' \in [Scans -> ScanType] BY <1>1, <1>10 DEF SaveResources, ScanType
  <2> QED BY <1>10, <2>1, SavedRows DEF SaveResources, ResultsTypeOK
<1> QED BY <1>4, <1>5, <1>6, <1>7, <1>8, <1>9, <1>10

\* ... and those that end in a failure, of the scan or of a statement of it ...
LEMMA FailStepTyped ==
    ASSUME ResultsTypeOK, NEW s \in Scans, ScanFails(s) \/ StepFails(s)
    PROVE  ResultsTypeOK'
<1>1. scan \in [Scans -> ScanType] /\ scan[s] \in ScanType BY DEF ResultsTypeOK
<1>2. scan' \in [Scans -> ScanType]
  BY <1>1 DEF ScanFails, StepFails, Goto, ScanType, Running
<1>3. faults' \in 0 .. MaxFaults BY Bounds DEF ScanFails, StepFails, Fault, ResultsTypeOK
<1> QED BY <1>2, <1>3 DEF ScanFails, StepFails, ResultsTypeOK, tables

\* ... and those of a channel's administration ...
LEMMA ChannelStepTyped == ASSUME ResultsTypeOK, Bookkeeping, ChannelStep PROVE ResultsTypeOK'
<1> USE DEF ResultsTypeOK
<1>1. ASSUME NEW c \in Channels, CreateChannel(c) \/ ReadChannel(c) \/ DeleteChannel(c)
      PROVE  ResultsTypeOK'
  <2>1. requests' \in 0 .. MaxEvents
    BY <1>1, Bounds DEF CreateChannel, ReadChannel, DeleteChannel, Request
  <2>2. request' \in RequestType
    BY <1>1 DEF CreateChannel, ReadChannel, DeleteChannel, RequestType
  <2>3. channel' \in [Channels -> {"none", "off", "on", "deleted"}]
    BY <1>1 DEF CreateChannel, ReadChannel, DeleteChannel
  <2> QED BY <1>1, <2>1, <2>2, <2>3 DEF CreateChannel, ReadChannel, DeleteChannel, tables
<1>2. ASSUME NEW c \in Channels, TestChannel(c) PROVE ResultsTypeOK'
  <2>1. requests' \in 0 .. MaxEvents BY <1>2, Bounds DEF TestChannel, Request
  <2>2. [channel |-> c, scan |-> NoScan, count |-> 0] \in Message BY DEF Message
  <2>3. messages' \subseteq Message BY <1>2, <2>2 DEF TestChannel, Sent
  <2>4. request' \in RequestType BY <1>2 DEF TestChannel, RequestType
  <2> QED BY <1>2, <2>1, <2>3, <2>4 DEF TestChannel, tables
<1>3. NoRequest \in RequestType BY DEF NoRequest, RequestType
<1>4. CASE UpdateChannel BY <1>3, <1>4 DEF UpdateChannel, tables
<1>5. CASE RecordTest
  <2>1. request.channel \in Channels /\ request.on \in BOOLEAN
    BY <1>5 DEF RecordTest, RequestType, Bookkeeping
  <2>2. [channel |-> request.channel, scan |-> NoScan, sent |-> request.on] \in Dispatch
    BY <2>1 DEF Dispatch
  <2> QED BY <1>3, <1>5, <2>2 DEF RecordTest
<1>6. CASE RequestFails BY <1>3, <1>6, Bounds DEF RequestFails, tables
<1> QED BY <1>1, <1>2, <1>4, <1>5, <1>6 DEF ChannelStep

\* ... and the deletion of an account.
LEMMA DeleteAccountTyped ==
    ASSUME ResultsTypeOK, NEW a \in Accounts, DeleteAccount(a) PROVE ResultsTypeOK'
BY Bounds DEF ResultsTypeOK, DeleteAccount, Request

\* Every step keeps the types.
LEMMA NextTyped == ASSUME TablesTypeOK, Bookkeeping, [TablesNext]_tableVars PROVE TablesTypeOK'
<1> USE DEF TablesTypeOK
<1>1. ResultsTypeOK'
  <2>1. CASE UNCHANGED resultVars BY <2>1 DEF resultVars, tables, ResultsTypeOK
  <2>2. ASSUME NEW s \in Scans, ScanStep(s) PROVE ResultsTypeOK'
    BY <2>2, QuietStepTyped, WriteStepTyped, FailStepTyped DEF ScanStep
  <2>3. CASE ChannelStep BY <2>3, ChannelStepTyped
  <2>4. ASSUME NEW a \in Accounts, DeleteAccountCascade(a) PROVE ResultsTypeOK'
    BY <2>4, DeleteAccountTyped DEF DeleteAccountCascade
  <2>5. ASSUME NEW a \in Accounts, NEW r \in Resources,
               DismissZombie(a, r) \/ RevokeDismissal(a, r)
        PROVE  ResultsTypeOK'
    BY <2>5, Bounds DEF DismissZombie, RevokeDismissal, Request, tables, ResultsTypeOK
  <2> QED BY <2>1, <2>2, <2>3, <2>4, <2>5 DEF TablesNext, SnoozeRunsOut, ExpireSnoozes, tableVars
<1>2. DismissedType'
  <2> USE DEF DismissedType
  <2>1. CASE UNCHANGED dismissed BY <2>1
  <2>2. ASSUME NEW a \in Accounts, DeleteAccountCascade(a) PROVE DismissedType'
    BY <2>2 DEF DeleteAccountCascade
  <2>3. ASSUME NEW a \in Accounts, NEW r \in Resources,
               DismissZombie(a, r) \/ RevokeDismissal(a, r) \/ SnoozeRunsOut(a, r)
        PROVE  DismissedType'
    BY <2>3 DEF DismissZombie, RevokeDismissal, SnoozeRunsOut
  <2>4. CASE ExpireSnoozes BY <2>4 DEF ExpireSnoozes
  <2> QED BY <2>1, <2>2, <2>3, <2>4 DEF TablesNext, tableVars
<1> QED BY <1>1, <1>2

\* Nothing is known at the start.
LEMMA InitBooks == TablesInit => Bookkeeping
<1> SUFFICES ASSUME TablesInit PROVE Bookkeeping OBVIOUS
<1>1. \A s \in Scans : /\ scan[s].found = {} /\ scan[s].seen = {} /\ scan[s].at = NoChannel
                       /\ scan[s].pc = "idle"
  BY DEF TablesInit, ResultsInit
<1>2. request.op = "none" BY DEF TablesInit, ResultsInit, NoRequest
<1> QED BY <1>1, <1>2, FS_EmptySet DEF Bookkeeping, At

\* What the beginning of a scan does to the scans: the others of its account have not
\* been alone.
LEMMA BeginScans ==
    ASSUME ResultsTypeOK, NEW s \in Scans, Begin(s)
    PROVE  /\ scan'[s].pc = "costs" /\ IsFiniteSet(scan'[s].found)
           /\ scan'[s].acct = scan[s].acct /\ scan'[s].at = scan[s].at
           /\ scan'[s].seen = scan[s].seen
           /\ scan'[s].alone => \A t \in Scans \ {s} :
                 scan[t].acct = scan[s].acct => scan[t].pc \notin Running
           /\ \A t \in Scans \ {s} :
                 \/ scan'[t] = scan[t] /\ (scan[t].acct = scan[s].acct => scan[t].pc = "idle")
                 \/ scan'[t] = [scan[t] EXCEPT !.alone = FALSE] /\ scan[t].pc # "idle"
<1> DEFINE others == {t \in Scans \ {s} : scan[t].acct = scan[s].acct /\ scan[t].pc # "idle"}
<1>1. PICK billed \in Billed, found \in Discovered :
         scan' = [t \in Scans |->
            CASE t = s -> [scan[s] EXCEPT !.pc = "costs", !.billed = billed, !.found = found,
                               !.alone = \A o \in others : scan[o].pc \notin Running]
              [] t \in others -> [scan[t] EXCEPT !.alone = FALSE]
              [] OTHER -> scan[t]]
  BY DEF Begin
<1>2. scan[s] \in ScanType /\ IsFiniteSet(found) BY DEF ResultsTypeOK, Discovered
<1>3. scan'[s] = [scan[s] EXCEPT !.pc = "costs", !.billed = billed, !.found = found,
                               !.alone = \A o \in others : scan[o].pc \notin Running]
  BY <1>1
<1>4. /\ scan'[s].pc = "costs" /\ scan'[s].found = found /\ scan'[s].acct = scan[s].acct
      /\ scan'[s].at = scan[s].at /\ scan'[s].seen = scan[s].seen
      /\ scan'[s].alone = \A o \in others : scan[o].pc \notin Running
  BY <1>2, <1>3 DEF ScanType
<1>5. ASSUME scan'[s].alone, NEW t \in Scans \ {s}, scan[t].acct = scan[s].acct
      PROVE  scan[t].pc \notin Running
  <2>1. \A o \in others : scan[o].pc \notin Running BY <1>4, <1>5
  <2>2. scan[t].pc # "idle" => t \in others BY <1>5
  <2> QED BY <2>1, <2>2 DEF Running
<1>6. ASSUME NEW t \in Scans \ {s}
      PROVE  \/ scan'[t] = scan[t] /\ (scan[t].acct = scan[s].acct => scan[t].pc = "idle")
             \/ scan'[t] = [scan[t] EXCEPT !.alone = FALSE] /\ scan[t].pc # "idle"
  <2>1. CASE t \in others BY <1>1, <2>1
  <2>2. CASE t \notin others BY <1>1, <2>2
  <2> QED BY <2>1, <2>2
<1> QED BY <1>2, <1>4, <1>5, <1>6

\* Every other step of a scan is one of that scan only, which keeps what it has found and
\* whether it has been alone.
LEMMA StepScans ==
    ASSUME ResultsTypeOK, NEW s \in Scans, ScanStep(s), ~Begin(s)
    PROVE  /\ scan'[s].found = scan[s].found /\ scan'[s].acct = scan[s].acct
           /\ scan'[s].alone = scan[s].alone /\ scan[s].pc \in Running
           /\ scan'[s].pc \in Running \cup {"done", "failed"}
           /\ \A t \in Scans \ {s} : scan'[t] = scan[t]
<1>1. scan \in [Scans -> ScanType] /\ scan[s] \in ScanType BY DEF ResultsTypeOK
<1>2. CASE SaveCosts(s) \/ SaveSnapshot(s) \/ SaveSnapshotServices(s) \/ DispatchForScan(s)
           \/ ClearZombies(s) \/ SaveZombies(s)
  BY <1>1, <1>2 DEF SaveCosts, SaveSnapshot, SaveSnapshotServices, DispatchForScan,
                    ClearZombies, SaveZombies, Goto, ScanType, At, Running
<1>3. CASE Record(s) \/ SaveResources(s)
  BY <1>1, <1>3 DEF Record, SaveResources, ScanType, At, Running
<1>6. CASE Send(s)
  <2>1. PICK c \in scan[s].todo, sent \in BOOLEAN :
           scan' = [scan EXCEPT ![s].pc = "record", ![s].todo = scan[s].todo \ {c},
                                ![s].at = c, ![s].sent = sent]
    BY <1>6 DEF Send
  <2> QED BY <1>1, <1>6, <2>1 DEF Send, ScanType, At, Running
<1>5. CASE ClearResources(s)
  <2>1. /\ scan'[s].found = scan[s].found /\ scan'[s].acct = scan[s].acct
        /\ scan'[s].alone = scan[s].alone /\ scan[s].pc = "dispatch"
        /\ scan'[s].pc \in {"done", "insertresources"}
        /\ \A t \in Scans \ {s} : scan'[t] = scan[t]
    BY <1>1, <1>5 DEF ClearResources, ScanType, At
  <2> QED BY <2>1 DEF Running
<1>4. CASE ScanFails(s) \/ StepFails(s)
  BY <1>1, <1>4 DEF ScanFails, StepFails, Goto, ScanType, At, Running
<1> QED BY <1>2, <1>3, <1>4, <1>5, <1>6 DEF ScanStep

\* The steps of a scan keep its books ...
LEMMA ScanStepBooks == ASSUME ResultsTypeOK, Bookkeeping, NEW s \in Scans, ScanStep(s) PROVE Bookkeeping'
<1> DEFINE Kept(q) == /\ IsFiniteSet(q.found) /\ q.acct = scan[s].acct
                      /\ q.at # NoChannel <=> q.pc = "record"
                      /\ \A row \in q.seen : row.acct = q.acct
<1>1. /\ scan \in [Scans -> ScanType] /\ scan[s] \in ScanType /\ Kept(scan[s])
      /\ NoChannel \notin Channels
  BY Bounds DEF ResultsTypeOK, Bookkeeping, At
<1>2. \A row \in Of(zombies, scan[s].acct) \cup Of(resources, scan[s].acct) :
         row.acct = scan[s].acct
  BY OfRows
<1>3. UNCHANGED request
  BY DEF ScanStep, Begin, SaveCosts, ClearZombies, SaveZombies, SaveSnapshot,
         SaveSnapshotServices, DispatchForScan, Send, Record, ClearResources, SaveResources,
         ScanFails, StepFails
<1>4. \A t \in Scans \ {s} : /\ scan'[t].found = scan[t].found /\ scan'[t].at = scan[t].at
                              /\ scan'[t].pc = scan[t].pc /\ scan'[t].seen = scan[t].seen
                              /\ scan'[t].acct = scan[t].acct
  <2>1. CASE Begin(s)
    <3> TAKE t \in Scans \ {s}
    <3>1. scan'[t] = scan[t] \/ scan'[t] = [scan[t] EXCEPT !.alone = FALSE]
      BY <2>1, BeginScans
    <3> QED BY <1>1, <3>1 DEF ScanType
  <2>2. CASE ~Begin(s) BY <2>2, StepScans
  <2> QED BY <2>1, <2>2
<1>5. Kept(scan'[s])
  <2>1. CASE Begin(s)
    BY <1>1, <2>1, BeginScans DEF Begin, At
  <2>2. CASE SaveCosts(s) \/ SaveSnapshot(s) \/ SaveSnapshotServices(s) \/ DispatchForScan(s)
    BY <1>1, <2>2
    DEF SaveCosts, SaveSnapshot, SaveSnapshotServices, DispatchForScan, Goto, ScanType, At
  <2>3. CASE ClearZombies(s) \/ SaveZombies(s) \/ SaveResources(s)
    BY <1>1, <1>2, <2>3 DEF ClearZombies, SaveZombies, SaveResources, ScanType, At
  <2>4. CASE ClearResources(s)
    <3>1. /\ scan'[s].found = scan[s].found /\ scan'[s].acct = scan[s].acct
          /\ scan'[s].at = scan[s].at /\ scan'[s].pc \in {"done", "insertresources"}
          /\ scan'[s].seen \subseteq Of(resources, scan[s].acct)
      BY <1>1, <2>4 DEF ClearResources, ScanType
    <3> QED BY <1>1, <1>2, <2>4, <3>1 DEF ClearResources, At
  <2>5. CASE Send(s) BY <1>1, <2>5 DEF Send, ScanType
  <2>6. CASE Record(s) \/ ScanFails(s) BY <1>1, <2>6 DEF Record, ScanFails, ScanType
  <2>7. CASE StepFails(s) BY <1>1, <2>7 DEF StepFails, Goto, ScanType, At
  <2> QED BY <2>1, <2>2, <2>3, <2>4, <2>5, <2>6, <2>7 DEF ScanStep
<1> HIDE DEF Kept
<1>6. ASSUME NEW t \in Scans
      PROVE  (/\ IsFiniteSet(scan[t].found)
              /\ scan[t].at # NoChannel <=> At(t, "record")
              /\ \A row \in scan[t].seen : row.acct = scan[t].acct)'
  <2>1. CASE t = s BY <1>5, <2>1 DEF Kept, At
  <2>2. CASE t # s BY <1>4, <2>2 DEF Bookkeeping, At
  <2> QED BY <2>1, <2>2
<1> QED BY <1>3, <1>6 DEF Bookkeeping

\* ... and so does every step.
LEMMA NextBooks == ASSUME TablesTypeOK, Bookkeeping, [TablesNext]_tableVars PROVE Bookkeeping'
<1>1. CASE UNCHANGED <<scan, request>> BY <1>1 DEF Bookkeeping, At
<1>2. ASSUME NEW s \in Scans, ScanStep(s) PROVE Bookkeeping'
  BY <1>2, ScanStepBooks DEF TablesTypeOK
<1>3. CASE ChannelStep
  <2>1. UNCHANGED scan
    BY <1>3 DEF ChannelStep, CreateChannel, ReadChannel, DeleteChannel, TestChannel,
                UpdateChannel, RecordTest, RequestFails
  <2>2. (request.op # "none" => request.channel # NoChannel)'
    BY <1>3, Bounds DEF ChannelStep, CreateChannel, ReadChannel, DeleteChannel, TestChannel,
                        UpdateChannel, RecordTest, RequestFails, NoRequest, Bookkeeping
  <2> QED BY <2>1, <2>2 DEF Bookkeeping, At
<1>4. CASE \E a \in Accounts : DeleteAccountCascade(a)
  BY <1>1, <1>4 DEF DeleteAccountCascade, DeleteAccount
<1>5. ASSUME NEW a \in Accounts, NEW r \in Resources,
             DismissZombie(a, r) \/ RevokeDismissal(a, r) \/ SnoozeRunsOut(a, r)
      PROVE  Bookkeeping'
  BY <1>1, <1>5 DEF DismissZombie, RevokeDismissal, SnoozeRunsOut, resultVars
<1>6. CASE ExpireSnoozes \/ UNCHANGED tableVars BY <1>1, <1>6 DEF ExpireSnoozes, tableVars, resultVars
<1> QED BY <1>2, <1>3, <1>4, <1>5, <1>6 DEF TablesNext

\* The tables, channels and scans are typed in every reachable state.
LEMMA BooksInvariant == TablesSpec => [](TablesTypeOK /\ Bookkeeping)
BY InitTyped, NextTyped, InitBooks, NextBooks, PTL DEF TablesSpec

\* Every behaviour of the findings is one of the tables.
LEMMA OfTables == FindingsSpec => TablesSpec
<1>1. FindingsInit => TablesInit BY DEF FindingsInit
<1>2. [FindingsNext]_findingsVars => [TablesNext]_tableVars
  BY DEF FindingsNext, findingsVars, ReadZombies, ReadDismissals
<1> QED BY <1>1, <1>2, PTL DEF FindingsSpec, TablesSpec

\* What a summary knows, and the pairs, are typed at the start ...
LEMMA InitReader == FindingsInit => reader \in ReaderType /\ crossed \subseteq SUBSET Scans
BY DEF FindingsInit, NoReader, ReaderType

\* ... and after every step.
LEMMA NextReader ==
    ASSUME FindingsTypeOK, [FindingsNext]_findingsVars
    PROVE  (reader \in ReaderType /\ crossed \subseteq SUBSET Scans)'
<1>1. reader \in ReaderType /\ crossed \subseteq SUBSET Scans BY DEF FindingsTypeOK
<1>2. CASE TablesNext /\ Watch
  <2>1. crossed' \subseteq SUBSET Scans BY <1>1, <1>2 DEF Watch, Crossing
  <2>2. reader' \in ReaderType BY <1>1, <1>2 DEF Watch, ReaderType
  <2> QED BY <2>1, <2>2
<1>3. CASE ReadZombies
  <2>1. zombies \subseteq ZombieRow BY DEF FindingsTypeOK, TablesTypeOK, ResultsTypeOK
  <2>2. PICK accts \in Views :
           reader' = [pc |-> "loaded", accts |-> accts, rows |-> LoadZombies(accts),
                      clear |-> {row \in LoadZombies(accts) : ~IsDismissed(row)},
                      hidden |-> {row \in LoadZombies(accts) : IsDismissed(row)}]
    BY <1>3 DEF ReadZombies
  <2>3. accts \subseteq Accounts /\ LoadZombies(accts) \subseteq ZombieRow
    BY <2>1, FindingsAssumption DEF FindingsAssumption, LoadZombies
  <2> QED BY <1>1, <1>3, <2>2, <2>3 DEF ReadZombies, ReaderType
<1>4. CASE ReadDismissals BY <1>1, <1>4 DEF ReadDismissals, NoReader, ReaderType
<1>5. CASE UNCHANGED findingsVars BY <1>1, <1>5 DEF findingsVars
<1> QED BY <1>2, <1>3, <1>4, <1>5 DEF FindingsNext

\* Type correctness.
THEOREM TypeCorrect == FindingsSpec => []FindingsTypeOK
<1>1. TablesTypeOK /\ TablesTypeOK' /\ FindingsTypeOK /\ [FindingsNext]_findingsVars
         => FindingsTypeOK'
  BY NextReader DEF FindingsTypeOK
<1>2. TablesTypeOK /\ FindingsInit => FindingsTypeOK BY InitReader DEF FindingsTypeOK
<1> QED BY <1>1, <1>2, OfTables, BooksInvariant, PTL DEF FindingsSpec

------------------------------------------------------------------------------
(* Which steps write what *)

\* The channels' steps, the users' and the ticker's leave the scans and what they saved.
LEMMA OthersLeave ==
    ASSUME [TablesNext]_tableVars, \A s \in Scans : ~ScanStep(s),
           \A a \in Accounts : ~DeleteAccountCascade(a)
    PROVE  UNCHANGED <<account, costs, zombies, resources, snapshots, breakdowns>> /\
           \A s \in Scans : scan'[s] = scan[s]
<1>1. CASE ChannelStep
  BY <1>1 DEF ChannelStep, CreateChannel, ReadChannel, DeleteChannel, TestChannel,
              UpdateChannel, RecordTest, RequestFails, tables
<1>2. ASSUME NEW a \in Accounts, NEW r \in Resources,
             DismissZombie(a, r) \/ RevokeDismissal(a, r) \/ SnoozeRunsOut(a, r)
      PROVE  UNCHANGED <<account, costs, zombies, resources, snapshots, breakdowns, scan>>
  BY <1>2 DEF DismissZombie, RevokeDismissal, SnoozeRunsOut, resultVars, tables
<1>3. CASE ExpireSnoozes \/ UNCHANGED tableVars
  BY <1>3 DEF ExpireSnoozes, tableVars, resultVars, tables
<1> QED BY <1>1, <1>2, <1>3 DEF TablesNext

\* A scan adds rows of its account, and only while that is there; a replacing transaction
\* deletes rows of its account.
LEMMA ScanWrites ==
    ASSUME ResultsTypeOK, Bookkeeping, NEW s \in Scans, ScanStep(s)
    PROVE  /\ UNCHANGED account
           /\ \A row \in costs' \ costs : row.acct = scan[s].acct /\ row.acct \in account
           /\ \A row \in zombies' \ zombies : row.acct = scan[s].acct /\ row.acct \in account
           /\ \A row \in resources' \ resources : row.acct = scan[s].acct /\ row.acct \in account
           /\ \A n \in snapshots' \ snapshots : n.acct = scan[s].acct /\ n.acct \in account
           /\ \A t \in breakdowns' \ breakdowns : t = s /\ scan[s].acct \in account
           /\ \A row \in (zombies \ zombies') \cup (resources \ resources') : row.acct = scan[s].acct
<1> DEFINE quiet == UNCHANGED <<account, costs, zombies, resources, snapshots, breakdowns>>
<1>1. CASE Begin(s) \/ ClearZombies(s) \/ DispatchForScan(s) \/ ClearResources(s)
  <2>1. quiet BY <1>1 DEF Begin, ClearZombies, DispatchForScan, ClearResources, tables
  <2> QED BY <2>1
<1>2. CASE Send(s) \/ Record(s) \/ ScanFails(s) \/ StepFails(s)
  <2>1. quiet BY <1>2 DEF Send, Record, ScanFails, StepFails, tables
  <2> QED BY <2>1
<1>3. CASE SaveCosts(s)
  <2>1. \A row \in [acct : {scan[s].acct}, res : scan[s].billed] :
           row.acct = scan[s].acct /\ scan[s].billed # {}
    OBVIOUS
  <2>2. scan[s].billed # {} => scan[s].acct \in account BY <1>3 DEF SaveCosts, Dangling
  <2> QED BY <1>3, <2>1, <2>2 DEF SaveCosts
<1>4. CASE SaveZombies(s)
  <2>1. scan[s].acct \in account BY <1>4 DEF SaveZombies, Dangling, At
  <2> QED BY <1>4, <2>1, SavedRows DEF SaveZombies, Bookkeeping
<1>5. CASE SaveSnapshot(s)
  <2>1. scan[s].acct \in account BY <1>5 DEF SaveSnapshot, Dangling, At
  <2> QED BY <1>5, <2>1 DEF SaveSnapshot
<1>6. CASE SaveSnapshotServices(s)
  <2>1. scan[s].found # {} => scan[s].acct \in account BY <1>6 DEF SaveSnapshotServices, Dangling
  <2> QED BY <1>6, <2>1 DEF SaveSnapshotServices
<1>7. CASE SaveResources(s)
  <2>1. scan[s].acct \in account BY <1>7 DEF SaveResources, Dangling, At
  <2> QED BY <1>7, <2>1, SavedRows DEF SaveResources, Bookkeeping
<1> QED BY <1>1, <1>2, <1>3, <1>4, <1>5, <1>6, <1>7 DEF ScanStep

\* No step changes the account of a scan.
LEMMA ScanAccountKept ==
    ASSUME ResultsTypeOK, NEW s \in Scans, ScanStep(s), NEW t \in Scans
    PROVE  scan'[t].acct = scan[t].acct
<1>1. scan[t] \in ScanType BY DEF ResultsTypeOK
<1>2. CASE Begin(s)
  <2>1. t # s => scan'[t] = scan[t] \/ scan'[t] = [scan[t] EXCEPT !.alone = FALSE]
    BY <1>2, BeginScans
  <2> QED BY <1>1, <1>2, <2>1, BeginScans DEF ScanType
<1>3. CASE ~Begin(s) BY <1>3, StepScans
<1> QED BY <1>2, <1>3

------------------------------------------------------------------------------
(* Deleted accounts *)

\* Nothing is deleted at the start.
LEMMA InitDeleted == TablesInit => DeletedLeavesNothing
BY DEF TablesInit, ResultsInit, DeletedLeavesNothing

\* The foreign keys keep rows of a deleted account out, and its deletion takes all there are.
LEMMA NextDeleted ==
    ASSUME TablesTypeOK, Bookkeeping, DeletedLeavesNothing, [TablesNext]_tableVars
    PROVE  DeletedLeavesNothing'
<1> USE DEF TablesTypeOK
<1>1. ASSUME NEW s \in Scans, ScanStep(s) PROVE DeletedLeavesNothing'
  <2> SUFFICES ASSUME NEW a \in Accounts \ account
               PROVE  /\ Of(costs', a) = {} /\ Of(zombies', a) = {} /\ Of(resources', a) = {}
                      /\ Of(snapshots', a) = {} /\ \A t \in breakdowns' : scan'[t].acct # a
    BY <1>1, ScanWrites DEF DeletedLeavesNothing, Of
  <2>1. /\ Of(costs, a) = {} /\ Of(zombies, a) = {} /\ Of(resources, a) = {}
        /\ Of(snapshots, a) = {} /\ \A t \in breakdowns : scan[t].acct # a
    BY DEF DeletedLeavesNothing
  <2>2. Of(costs', a) = {} /\ Of(zombies', a) = {} BY <1>1, <2>1, ScanWrites DEF Of
  <2>3. Of(resources', a) = {} /\ Of(snapshots', a) = {} BY <1>1, <2>1, ScanWrites DEF Of
  <2>4. ASSUME NEW t \in breakdowns' PROVE scan'[t].acct # a
    <3>1. t \in Scans /\ scan[t].acct # a
      BY <1>1, <2>1, <2>4, ScanWrites DEF ResultsTypeOK
    <3> QED BY <1>1, <3>1, ScanAccountKept
  <2> QED BY <2>2, <2>3, <2>4
<1>2. ASSUME NEW a \in Accounts, DeleteAccountCascade(a) PROVE DeletedLeavesNothing'
  BY <1>2 DEF DeleteAccountCascade, DeleteAccount, DeletedLeavesNothing, Of
<1>3. CASE /\ UNCHANGED <<account, costs, zombies, resources, snapshots, breakdowns>>
           /\ \A s \in Scans : scan'[s] = scan[s]
  BY <1>3 DEF DeletedLeavesNothing, Of, ResultsTypeOK
<1> QED BY <1>1, <1>2, <1>3, OthersLeave

\* A deleted account leaves no cost, zombie, resource, snapshot or breakdown behind, and
\* no scan that was under way brings one back, however many scans are.
LEMMA NothingIsLeft == TablesSpec => []DeletedLeavesNothing
<1>1. TablesTypeOK /\ Bookkeeping /\ DeletedLeavesNothing /\ [TablesNext]_tableVars
         => DeletedLeavesNothing'
  BY NextDeleted
<1> QED BY <1>1, InitDeleted, BooksInvariant, PTL DEF TablesSpec

------------------------------------------------------------------------------
(* What a scan that nothing overlapped leaves in the tables *)

Undisturbed == Solo /\ Replaces /\ Counted

\* No scan has begun at the start.
LEMMA InitUndisturbed == TablesInit => Undisturbed
<1> SUFFICES ASSUME TablesInit PROVE Undisturbed OBVIOUS
<1>1. (\A s \in Scans : scan[s].alone = FALSE) /\ snapshots = {} BY DEF TablesInit, ResultsInit
<1> QED BY <1>1 DEF Undisturbed, Solo, Replaces, Counted

\* What the tables show of a scan stays as long as the scan and its account's rows do.
LEMMA ReplacesKept ==
    ASSUME Undisturbed, NEW q \in Scans, scan'[q] = scan[q], scan'[q].alone,
           scan'[q].acct \in account', account' \subseteq account,
           Of(zombies', scan'[q].acct) = Of(zombies, scan[q].acct),
           Of(resources', scan'[q].acct) = Of(resources, scan[q].acct)
    PROVE  (/\ At(q, "insertzombies") => scan[q].seen = Of(zombies, scan[q].acct)
            /\ scan[q].pc \in ZombiesSaved /\ scan[q].found # {} =>
                  Of(zombies, scan[q].acct) = ZombiesOf(q)
            /\ At(q, "insertresources") => scan[q].seen = Of(resources, scan[q].acct)
            /\ At(q, "done") /\ scan[q].found # {} =>
                  MarkedOf(scan[q].acct) = scan[q].found)'
<1>1. scan[q].alone /\ scan[q].acct \in account OBVIOUS
<1>2. /\ scan[q].pc = "insertzombies" => scan[q].seen = Of(zombies, scan[q].acct)
      /\ scan[q].pc \in ZombiesSaved /\ scan[q].found # {} =>
            Of(zombies, scan[q].acct) = ZombiesOf(q)
      /\ scan[q].pc = "insertresources" => scan[q].seen = Of(resources, scan[q].acct)
      /\ scan[q].pc = "done" /\ scan[q].found # {} => MarkedOf(scan[q].acct) = scan[q].found
  BY <1>1 DEF Undisturbed, Replaces, At
<1>3. /\ Of(zombies, scan[q].acct)' = Of(zombies, scan[q].acct)
      /\ Of(resources, scan[q].acct)' = Of(resources, scan[q].acct)
  BY DEF Of
<1>4. ZombiesOf(q)' = ZombiesOf(q) BY DEF ZombiesOf
<1>5. MarkedOf(scan[q].acct)' = MarkedOf(scan[q].acct) BY <1>3 DEF MarkedOf
<1> QED BY <1>2, <1>3, <1>4, <1>5 DEF At

\* The beginning of a scan changes nothing of another, except that it was alone.
LEMMA BeginOther ==
    ASSUME ResultsTypeOK, NEW s \in Scans, Begin(s), NEW t \in Scans \ {s}
    PROVE  /\ scan'[t].pc = scan[t].pc /\ scan'[t].acct = scan[t].acct
           /\ scan'[t].found = scan[t].found
           /\ scan'[t].alone => scan'[t] = scan[t]
           /\ scan'[t].alone => (scan[t].acct = scan[s].acct => scan[t].pc = "idle")
<1>1. scan[t] \in ScanType BY DEF ResultsTypeOK
<1>2. CASE scan'[t] = scan[t] /\ (scan[t].acct = scan[s].acct => scan[t].pc = "idle")
  BY <1>2
<1>3. CASE scan'[t] = [scan[t] EXCEPT !.alone = FALSE]
  <2>1. /\ scan'[t].pc = scan[t].pc /\ scan'[t].acct = scan[t].acct
        /\ scan'[t].found = scan[t].found /\ ~scan'[t].alone
    BY <1>1, <1>3 DEF ScanType
  <2> QED BY <2>1
<1> QED BY <1>2, <1>3, BeginScans

\* The beginning of a scan ends the being alone of the others of its account.
LEMMA BeginUndisturbed ==
    ASSUME ResultsTypeOK, Undisturbed, NEW s \in Scans, Begin(s) PROVE Undisturbed'
<1>3. /\ scan'[s].pc = "costs" /\ scan'[s].acct = scan[s].acct /\ scan[s].pc = "idle"
      /\ scan'[s].alone => \A t \in Scans \ {s} :
            scan[t].acct = scan[s].acct => scan[t].pc \notin Running
  BY BeginScans DEF Begin, At
<1>4. Solo'
  <2> SUFFICES ASSUME NEW q \in Scans, scan'[q].alone
               PROVE  /\ scan'[q].pc # "idle"
                      /\ \A t \in Scans \ {q} :
                            scan'[t].acct = scan'[q].acct => scan'[t].pc \notin Running
    BY DEF Solo
  <2>1. CASE q = s
    <3>1. \A t \in Scans \ {s} : scan[t].acct = scan[s].acct => scan[t].pc \notin Running
      BY <1>3, <2>1
    <3>2. ASSUME NEW t \in Scans \ {s}, scan'[t].acct = scan'[s].acct
          PROVE  scan'[t].pc \notin Running
      <4>1. scan'[t].pc = scan[t].pc /\ scan'[t].acct = scan[t].acct BY BeginOther
      <4>2. scan[t].acct = scan[s].acct BY <1>3, <3>2, <4>1
      <4> QED BY <3>1, <4>1, <4>2
    <3> QED BY <1>3, <2>1, <3>2
  <2>2. CASE q # s
    <3>1. scan'[q] = scan[q] /\ (scan[q].acct = scan[s].acct => scan[q].pc = "idle")
      BY BeginOther, <2>2
    <3>2. scan[q].alone BY <3>1
    <3>3. /\ scan[q].pc # "idle"
          /\ \A t \in Scans \ {q} : scan[t].acct = scan[q].acct => scan[t].pc \notin Running
      BY <3>2 DEF Undisturbed, Solo
    <3>4. ASSUME NEW t \in Scans \ {q}, scan'[t].acct = scan'[q].acct
          PROVE  scan'[t].pc \notin Running
      <4>1. CASE t = s BY <1>3, <3>1, <3>3, <3>4, <4>1
      <4>2. CASE t # s
        <5>1. scan'[t].pc = scan[t].pc /\ scan'[t].acct = scan[t].acct BY BeginOther, <4>2
        <5> QED BY <3>1, <3>3, <3>4, <5>1
      <4> QED BY <4>1, <4>2
    <3> QED BY <3>1, <3>3, <3>4
  <2> QED BY <2>1, <2>2
<1>5. Replaces'
  <2> SUFFICES ASSUME NEW q \in Scans, scan'[q].alone, scan'[q].acct \in account'
               PROVE  (/\ At(q, "insertzombies") => scan[q].seen = Of(zombies, scan[q].acct)
                       /\ scan[q].pc \in ZombiesSaved /\ scan[q].found # {} =>
                             Of(zombies, scan[q].acct) = ZombiesOf(q)
                       /\ At(q, "insertresources") => scan[q].seen = Of(resources, scan[q].acct)
                       /\ At(q, "done") /\ scan[q].found # {} =>
                             MarkedOf(scan[q].acct) = scan[q].found)'
    BY DEF Replaces
  <2>1. CASE q = s BY <1>3, <2>1 DEF At, ZombiesSaved
  <2>2. CASE q # s
    <3>1. UNCHANGED <<account, zombies, resources>> BY DEF Begin, tables
    <3>2. scan'[q] = scan[q] BY BeginOther, <2>2
    <3>3. /\ Of(zombies', scan'[q].acct) = Of(zombies, scan[q].acct)
          /\ Of(resources', scan'[q].acct) = Of(resources, scan[q].acct)
      BY <3>1, <3>2
    <3> QED BY <3>1, <3>2, <3>3, ReplacesKept
  <2> QED BY <2>1, <2>2
<1>6. Counted'
  <2> SUFFICES ASSUME NEW n \in snapshots
               PROVE  scan'[n.scan].pc # "idle" /\ n.count = Cardinality(scan'[n.scan].found)
    BY DEF Counted, Begin, tables
  <2>1. n.scan \in Scans /\ scan[n.scan].pc # "idle" /\ n.count = Cardinality(scan[n.scan].found)
    BY DEF Undisturbed, Counted, ResultsTypeOK, Snapshot
  <2>2. n.scan # s BY <1>3, <2>1
  <2>3. scan'[n.scan].pc = scan[n.scan].pc /\ scan'[n.scan].found = scan[n.scan].found
    BY BeginOther, <2>1, <2>2
  <2> QED BY <2>1, <2>3
<1> QED BY <1>4, <1>5, <1>6 DEF Undisturbed

\* What the steps of a scan that is alone do to its part of the tables.
LEMMA AloneReplaces ==
    ASSUME ResultsTypeOK, Bookkeeping, Undisturbed, NEW s \in Scans, ScanStep(s), ~Begin(s),
           scan'[s].alone, scan'[s].acct \in account'
    PROVE  (/\ At(s, "insertzombies") => scan[s].seen = Of(zombies, scan[s].acct)
            /\ scan[s].pc \in ZombiesSaved /\ scan[s].found # {} =>
                  Of(zombies, scan[s].acct) = ZombiesOf(s)
            /\ At(s, "insertresources") => scan[s].seen = Of(resources, scan[s].acct)
            /\ At(s, "done") /\ scan[s].found # {} => MarkedOf(scan[s].acct) = scan[s].found)'
<1> DEFINE a == scan[s].acct
<1>1. /\ scan \in [Scans -> ScanType] /\ scan[s] \in ScanType
      /\ scan'[s].found = scan[s].found /\ scan'[s].acct = a /\ scan[s].alone
      /\ UNCHANGED account /\ a \in account
  BY StepScans, ScanWrites DEF ResultsTypeOK
<1>2. ZombiesOf(s)' = ZombiesOf(s) BY <1>1 DEF ZombiesOf
<1>3. /\ At(s, "insertzombies") => scan[s].seen = Of(zombies, a)
      /\ scan[s].pc \in ZombiesSaved /\ scan[s].found # {} => Of(zombies, a) = ZombiesOf(s)
      /\ At(s, "insertresources") => scan[s].seen = Of(resources, a)
  BY <1>1 DEF Undisturbed, Replaces
<1>4. CASE SaveCosts(s)
  <2>1. scan'[s].pc = IF scan[s].found = {} THEN "snapshot" ELSE "zombies"
    BY <1>1, <1>4 DEF SaveCosts, Goto
  <2> QED BY <1>1, <2>1 DEF At, ZombiesSaved
<1>5. CASE ClearZombies(s)
  <2>1. scan'[s].pc = "insertzombies" /\ scan'[s].seen = Of(zombies, a) /\ UNCHANGED zombies
    BY <1>1, <1>5 DEF ClearZombies, ScanType, tables
  <2> QED BY <1>1, <2>1 DEF At, ZombiesSaved, Of
<1>6. CASE SaveZombies(s)
  <2>1. scan'[s].pc = "snapshot" /\ zombies' = (zombies \ Of(zombies, a)) \cup ZombiesOf(s)
    BY <1>1, <1>3, <1>6 DEF SaveZombies, ScanType
  <2>2. Of(zombies', a) = ZombiesOf(s) BY <2>1, SavedRows DEF Of
  <2> QED BY <1>1, <1>2, <2>1, <2>2 DEF At, Of
<1>7. CASE SaveSnapshot(s) \/ SaveSnapshotServices(s) \/ DispatchForScan(s) \/ Send(s) \/ Record(s)
           \/ StepFails(s)
  <2>1. /\ scan[s].pc \in ZombiesSaved
        /\ scan'[s].pc \in {"breakdown", "list", "dispatch", "record"} /\ UNCHANGED zombies
    <3>1. CASE SaveSnapshot(s) \/ SaveSnapshotServices(s) \/ DispatchForScan(s)
      BY <1>1, <3>1 DEF SaveSnapshot, SaveSnapshotServices, DispatchForScan, Goto, ScanType, At,
                        ZombiesSaved, tables
    <3>2. CASE Send(s) BY <1>1, <3>2 DEF Send, ScanType, At, ZombiesSaved, tables
    <3>3. CASE Record(s) BY <1>1, <3>3 DEF Record, ScanType, At, ZombiesSaved
    <3>4. CASE StepFails(s)
      BY <1>1, <3>4 DEF StepFails, Goto, ScanType, At, ZombiesSaved, tables
    <3> QED BY <1>7, <3>1, <3>2, <3>3, <3>4
  <2> QED BY <1>1, <1>2, <1>3, <2>1 DEF At, Of
<1>8. CASE ClearResources(s)
  <2>1. /\ scan[s].pc \in ZombiesSaved /\ UNCHANGED <<zombies, resources>>
        /\ \/ scan'[s].pc = "done" /\ AnnotateAll(s) = {}
           \/ scan'[s].pc = "insertresources" /\ scan'[s].seen = Of(resources, a)
    BY <1>1, <1>8 DEF ClearResources, ScanType, At, ZombiesSaved, tables
  <2>2. AnnotateAll(s) = {} => scan[s].found = {} BY DEF AnnotateAll
  <2> QED BY <1>1, <1>2, <1>3, <2>1, <2>2 DEF At, Of
<1>9. CASE SaveResources(s)
  <2>1. /\ scan[s].pc \in ZombiesSaved /\ UNCHANGED zombies /\ scan'[s].pc = "done"
        /\ resources' = (resources \ Of(resources, a)) \cup AnnotateAll(s)
    BY <1>1, <1>3, <1>9 DEF SaveResources, ScanType, At, ZombiesSaved
  <2>2. Of(resources', a) = AnnotateAll(s) BY <2>1, SavedRows DEF Of
  <2>3. {row.res : row \in {row \in AnnotateAll(s) : row.isZombie}} = scan[s].found
    <3>1. \A r \in scan[s].found : \E row \in AnnotateAll(s) : row.isZombie /\ row.res = r
      <4> TAKE r \in scan[s].found
      <4>1. [acct |-> scan[s].acct, res |-> r, scan |-> s, isZombie |-> r \in scan[s].found]
               \in AnnotateAll(s)
        BY DEF AnnotateAll
      <4> QED BY <4>1
    <3>2. ASSUME NEW row \in AnnotateAll(s), row.isZombie PROVE row.res \in scan[s].found
      <4>1. PICK r \in scan[s].billed \cup scan[s].found :
               row = [acct |-> scan[s].acct, res |-> r, scan |-> s,
                      isZombie |-> r \in scan[s].found]
        BY DEF AnnotateAll
      <4>2. row.isZombie = (r \in scan[s].found) /\ row.res = r BY <4>1
      <4> QED BY <3>2, <4>2
    <3> QED BY <3>1, <3>2
  <2>4. MarkedOf(a)' = scan[s].found BY <1>1, <2>2, <2>3 DEF MarkedOf, Of
  <2> QED BY <1>1, <1>2, <1>3, <2>1, <2>4 DEF At, Of, MarkedOf
<1>10. CASE ScanFails(s)
  <2>1. scan'[s].pc = "failed" BY <1>1, <1>10 DEF ScanFails, ScanType
  <2> QED BY <2>1 DEF At, ZombiesSaved
<1> QED BY <1>4, <1>5, <1>6, <1>7, <1>8, <1>9, <1>10 DEF ScanStep

\* The steps of a scan leave undisturbed what the scans that are alone have done.
LEMMA ScanUndisturbed ==
    ASSUME ResultsTypeOK, Bookkeeping, Undisturbed, NEW s \in Scans, ScanStep(s), ~Begin(s)
    PROVE  Undisturbed'
<1>1. /\ scan'[s].found = scan[s].found /\ scan'[s].acct = scan[s].acct
      /\ scan'[s].alone = scan[s].alone /\ scan[s].pc \in Running
      /\ scan'[s].pc \in Running \cup {"done", "failed"}
      /\ \A t \in Scans \ {s} : scan'[t] = scan[t]
  BY StepScans
<1>2. Solo'
  <2> SUFFICES ASSUME NEW q \in Scans, scan'[q].alone
               PROVE  /\ scan'[q].pc # "idle"
                      /\ \A t \in Scans \ {q} :
                            scan'[t].acct = scan'[q].acct => scan'[t].pc \notin Running
    BY DEF Solo
  <2>1. scan[q].alone /\ scan'[q].acct = scan[q].acct BY <1>1
  <2>2. CASE q = s BY <1>1, <2>1, <2>2 DEF Undisturbed, Solo, Running
  <2>3. CASE q # s
    <3>1. scan[q].pc # "idle" /\ scan[q].acct # scan[s].acct
      BY <1>1, <2>1, <2>3 DEF Undisturbed, Solo
    <3> QED BY <1>1, <2>1, <2>3, <3>1 DEF Undisturbed, Solo
  <2> QED BY <2>2, <2>3
<1>3. Replaces'
  <2> SUFFICES ASSUME NEW q \in Scans, scan'[q].alone, scan'[q].acct \in account'
               PROVE  (/\ At(q, "insertzombies") => scan[q].seen = Of(zombies, scan[q].acct)
                       /\ scan[q].pc \in ZombiesSaved /\ scan[q].found # {} =>
                             Of(zombies, scan[q].acct) = ZombiesOf(q)
                       /\ At(q, "insertresources") => scan[q].seen = Of(resources, scan[q].acct)
                       /\ At(q, "done") /\ scan[q].found # {} =>
                             MarkedOf(scan[q].acct) = scan[q].found)'
    BY DEF Replaces
  <2>1. CASE q = s BY <2>1, AloneReplaces
  <2>2. CASE q # s
    <3>1. scan'[q] = scan[q] /\ scan[q].acct # scan[s].acct
      BY <1>1, <2>2 DEF Undisturbed, Solo
    <3>2. /\ Of(zombies', scan[q].acct) = Of(zombies, scan[q].acct)
          /\ Of(resources', scan[q].acct) = Of(resources, scan[q].acct)
          /\ UNCHANGED account
      BY <3>1, ScanWrites DEF Of
    <3> QED BY <3>1, <3>2, ReplacesKept
  <2> QED BY <2>1, <2>2
<1>4. Counted'
  <2> SUFFICES ASSUME NEW n \in snapshots'
               PROVE  scan'[n.scan].pc # "idle" /\ n.count = Cardinality(scan'[n.scan].found)
    BY DEF Counted
  <2>1. CASE n \in snapshots
    <3>1. n.scan \in Scans /\ scan[n.scan].pc # "idle" /\ n.count = Cardinality(scan[n.scan].found)
      BY <2>1 DEF Undisturbed, Counted, ResultsTypeOK, Snapshot
    <3> QED BY <1>1, <3>1 DEF Running
  <2>2. CASE n \notin snapshots
    <3>1. SaveSnapshot(s)
      BY <2>2 DEF ScanStep, SaveCosts, ClearZombies, SaveZombies, tables,
                  SaveSnapshotServices, DispatchForScan, Send, Record, ClearResources,
                  SaveResources, ScanFails, StepFails
    <3>2. n.scan = s /\ n.count = Cardinality(scan[s].found) BY <2>2, <3>1 DEF SaveSnapshot
    <3> QED BY <1>1, <3>2 DEF Running
  <2> QED BY <2>1, <2>2
<1> QED BY <1>2, <1>3, <1>4 DEF Undisturbed

\* So does every step.
LEMMA NextUndisturbed ==
    ASSUME TablesTypeOK, Bookkeeping, Undisturbed, [TablesNext]_tableVars PROVE Undisturbed'
<1> USE DEF TablesTypeOK
<1>1. ASSUME NEW s \in Scans, ScanStep(s) PROVE Undisturbed'
  BY <1>1, BeginUndisturbed, ScanUndisturbed
<1>2. ASSUME NEW a \in Accounts, DeleteAccountCascade(a) PROVE Undisturbed'
  <2>1. /\ UNCHANGED scan /\ account' = account \ {a} /\ snapshots' \subseteq snapshots
        /\ \A b : b # a => Of(zombies', b) = Of(zombies, b) /\ Of(resources', b) = Of(resources, b)
    BY <1>2 DEF DeleteAccountCascade, DeleteAccount, Of
  <2>2. Solo' /\ Counted' BY <2>1 DEF Undisturbed, Solo, Counted
  <2>3. Replaces'
    BY <2>1 DEF Undisturbed, Replaces, At, ZombiesOf, MarkedOf
  <2> QED BY <2>2, <2>3 DEF Undisturbed
<1>3. CASE /\ UNCHANGED <<account, costs, zombies, resources, snapshots, breakdowns>>
           /\ \A s \in Scans : scan'[s] = scan[s]
  <2>1. Solo' /\ Counted' BY <1>3 DEF Undisturbed, Solo, Counted, ResultsTypeOK, Snapshot
  <2>2. Replaces'
    <3> SUFFICES ASSUME NEW q \in Scans, scan'[q].alone, scan'[q].acct \in account'
                 PROVE  (/\ At(q, "insertzombies") => scan[q].seen = Of(zombies, scan[q].acct)
                         /\ scan[q].pc \in ZombiesSaved /\ scan[q].found # {} =>
                               Of(zombies, scan[q].acct) = ZombiesOf(q)
                         /\ At(q, "insertresources") => scan[q].seen = Of(resources, scan[q].acct)
                         /\ At(q, "done") /\ scan[q].found # {} =>
                               MarkedOf(scan[q].acct) = scan[q].found)'
      BY DEF Replaces
    <3> QED BY <1>3, ReplacesKept
  <2> QED BY <2>1, <2>2 DEF Undisturbed
<1> QED BY <1>1, <1>2, <1>3, OthersLeave

\* Once a scan has ended well that found something, and that no other scan of its account
\* overlapped, the zombies, the resources marked as such and the count of its snapshot are
\* what it found, however many scans, transactions and failures there were before.
THEOREM ResultsAgree == FindingsSpec => []TablesAgree
<1>1. /\ TablesTypeOK /\ Bookkeeping /\ Undisturbed /\ [TablesNext]_tableVars => Undisturbed'
      /\ TablesInit => Undisturbed
  BY NextUndisturbed, InitUndisturbed
<1>2. Undisturbed => TablesAgree
  BY DEF Undisturbed, Replaces, Counted, TablesAgree, MarkedOf, ZombiesSaved, At
<1> QED BY <1>1, <1>2, BooksInvariant, OfTables, PTL DEF TablesSpec

------------------------------------------------------------------------------
(* What the channels' deliveries leave out *)

\* A message is of a channel, and of a scan or of a test.
LEMMA Messages ==
    ASSUME ResultsTypeOK, NEW m \in messages
    PROVE  /\ m.channel \in Channels /\ m.channel # NoChannel
           /\ m.scan # NoScan => m.scan \in Scans
           /\ m = [channel |-> m.channel, scan |-> m.scan, count |-> m.count]
BY Bounds DEF ResultsTypeOK, Message

\* Nothing has been sent at the start.
LEMMA InitTold == TablesInit => Told /\ SendsRecorded
<1> SUFFICES ASSUME TablesInit PROVE Told /\ SendsRecorded OBVIOUS
<1>1. messages = {} /\ faults = 0 BY DEF TablesInit, ResultsInit
<1>2. Unrecorded = {} BY <1>1 DEF Unrecorded
<1>3. Cardinality({}) = 0 /\ IsFiniteSet({}) BY FS_EmptySet
<1> QED BY <1>1, <1>2, <1>3 DEF Told, SendsRecorded

\* The messages stay true as long as their channels are there and their scans have found
\* the same.
LEMMA ToldKept ==
    ASSUME ResultsTypeOK, Told, messages' \subseteq messages,
           \A m \in messages' : There(m.channel) => There(m.channel)',
           \A t \in Scans : scan[t].pc # "idle" =>
               scan'[t].pc # "idle" /\ scan'[t].found = scan[t].found
    PROVE  Told'
<1>1. IsFiniteSet(messages') BY FS_Subset DEF Told
<1>2. ASSUME NEW m \in messages'
      PROVE  /\ There(m.channel)' /\ m.count = CountOf(m.scan)'
             /\ m.scan # NoScan => scan'[m.scan].pc # "idle"
  <2>1. /\ There(m.channel) /\ m.count = CountOf(m.scan)
        /\ m.scan # NoScan => scan[m.scan].pc # "idle"
    BY DEF Told
  <2>2. m.scan # NoScan => m.scan \in Scans BY Messages
  <2> QED BY <2>1, <2>2 DEF CountOf
<1> QED BY <1>1, <1>2 DEF Told

\* So they do when one is added that is true.
LEMMA ToldOne ==
    ASSUME ResultsTypeOK, Told, NEW m, messages' = messages \cup {m}, UNCHANGED channel,
           There(m.channel)', m.count = CountOf(m.scan)', m.scan # NoScan => scan'[m.scan].pc # "idle",
           \A t \in Scans : scan'[t].found = scan[t].found /\
               (scan[t].pc # "idle" => scan'[t].pc # "idle")
    PROVE  Told'
<1>1. IsFiniteSet(messages') BY FS_AddElement DEF Told
<1>2. ASSUME NEW n \in messages'
      PROVE  /\ There(n.channel)' /\ n.count = CountOf(n.scan)'
             /\ n.scan # NoScan => scan'[n.scan].pc # "idle"
  <2>1. CASE n = m BY <2>1
  <2>2. CASE n \in messages
    <3>1. /\ There(n.channel) /\ n.count = CountOf(n.scan)
          /\ n.scan # NoScan => scan[n.scan].pc # "idle"
      BY <2>2 DEF Told
    <3>2. n.scan # NoScan => n.scan \in Scans BY <2>2, Messages
    <3>3. There(n.channel)' BY <3>1 DEF There
    <3> QED BY <3>1, <3>2, <3>3 DEF CountOf
  <2> QED BY <2>1, <2>2
<1> QED BY <1>1, <1>2 DEF Told

\* Every step of a scan keeps the messages true.
LEMMA ScanTold == ASSUME ResultsTypeOK, Bookkeeping, Told, NEW s \in Scans, ScanStep(s) PROVE Told'
<1>1. \A t \in Scans : scan[t].pc # "idle" =>
          scan'[t].pc # "idle" /\ scan'[t].found = scan[t].found
  <2>1. CASE Begin(s)
    <3>1. scan[s].pc = "idle" BY <2>1 DEF Begin, At
    <3> QED BY <2>1, <3>1, BeginOther
  <2>2. CASE ~Begin(s) BY <2>2, StepScans DEF Running
  <2> QED BY <2>1, <2>2
<1>2. CASE Send(s)
  <2>1. PICK c \in scan[s].todo, sent \in BOOLEAN, arrives \in BOOLEAN :
          /\ messages' = Sent(c, s, Cardinality(scan[s].found), arrives)
          /\ scan' = [scan EXCEPT ![s].pc = "record", ![s].todo = scan[s].todo \ {c},
                                  ![s].at = c, ![s].sent = sent]
    BY <1>2 DEF Send
  <2>0. PICK m : m = [channel |-> c, scan |-> s, count |-> Cardinality(scan[s].found)]
    OBVIOUS
  <2>2. UNCHANGED channel BY <1>2 DEF Send
  <2>3. CASE messages' = messages BY <1>1, <2>2, <2>3, ToldKept DEF There
  <2>4. CASE There(c) /\ messages' = messages \cup {m}
    <3>1. scan[s].pc = "dispatch" /\ ~Begin(s) BY <1>2 DEF Send, Begin, At
    <3>2. /\ \A t \in Scans : scan'[t].found = scan[t].found /\
                 (scan[t].pc # "idle" => scan'[t].pc # "idle")
          /\ scan'[s].pc # "idle"
      BY <3>1, StepScans DEF Running
    <3>3. m.channel = c /\ m.scan = s /\ m.count = Cardinality(scan[s].found) BY <2>0
    <3>4. There(m.channel)' BY <2>2, <2>4, <3>3 DEF There
    <3>5. m.count = CountOf(m.scan)' BY <3>2, <3>3, Bounds DEF CountOf
    <3>6. m.scan # NoScan => scan'[m.scan].pc # "idle" BY <3>2, <3>3
    <3> QED BY <2>2, <2>4, <3>2, <3>4, <3>5, <3>6, ToldOne
  <2> QED BY <2>0, <2>1, <2>3, <2>4 DEF Sent
<1>3. CASE ~Send(s)
  <2>1. UNCHANGED <<messages, channel>>
    BY <1>3 DEF ScanStep, Begin, SaveCosts, ClearZombies, SaveZombies, SaveSnapshot,
               SaveSnapshotServices, DispatchForScan, Record, ClearResources, SaveResources,
               ScanFails, StepFails
  <2> QED BY <1>1, <2>1, ToldKept DEF There
<1> QED BY <1>2, <1>3

\* So does every step.
LEMMA NextTold == ASSUME TablesTypeOK, Bookkeeping, Told, [TablesNext]_tableVars PROVE Told'
<1> USE DEF TablesTypeOK
<1>1. ASSUME NEW s \in Scans, ScanStep(s) PROVE Told' BY <1>1, ScanTold
<1>2. ASSUME NEW a \in Accounts, DeleteAccountCascade(a) PROVE Told'
  BY <1>2, ToldKept DEF DeleteAccountCascade, DeleteAccount, There
<1>3. CASE UNCHANGED <<scan, messages, channel>> BY <1>3, ToldKept DEF There
<1>4. CASE ChannelStep
  <2>1. ASSUME NEW c \in Channels, CreateChannel(c) PROVE Told'
    <3>1. ~There(c) BY <2>1 DEF CreateChannel, There
    <3>2. UNCHANGED <<scan, messages>> /\ \A k \in Channels \ {c} : channel'[k] = channel[k]
      BY <2>1 DEF CreateChannel, ResultsTypeOK
    <3>3. \A m \in messages : There(m.channel) => There(m.channel)'
      BY <3>1, <3>2, Messages DEF There
    <3> QED BY <3>2, <3>3, ToldKept
  <2>2. ASSUME NEW c \in Channels, DeleteChannel(c) PROVE Told'
    <3>1. /\ UNCHANGED scan /\ messages' = {m \in messages : m.channel # c}
          /\ \A k \in Channels \ {c} : channel'[k] = channel[k]
      BY <2>2 DEF DeleteChannel, ResultsTypeOK
    <3>2. \A m \in messages' : There(m.channel) => There(m.channel)'
      BY <3>1, Messages DEF There
    <3> QED BY <3>1, <3>2, ToldKept
  <2>3. ASSUME NEW c \in Channels, TestChannel(c) PROVE Told'
    <3>0. PICK m : m = [channel |-> c, scan |-> NoScan, count |-> 0] OBVIOUS
    <3>1. UNCHANGED <<channel, scan>> /\ There(c) BY <2>3 DEF TestChannel
    <3>2. CASE messages' = messages BY <3>1, <3>2, ToldKept DEF There
    <3>3. CASE messages' = messages \cup {m}
      <4>1. m.channel = c /\ m.scan = NoScan /\ m.count = 0 BY <3>0
      <4>2. There(m.channel)' /\ m.count = CountOf(m.scan)'
        BY <3>1, <4>1 DEF There, CountOf
      <4> QED BY <3>1, <3>3, <4>1, <4>2, ToldOne
    <3> QED BY <2>3, <3>0, <3>1, <3>2, <3>3 DEF TestChannel, Sent
  <2>4. CASE UpdateChannel
    <3>1. \A k \in Channels : channel'[k] \in {"off", "on"} \/ channel'[k] = channel[k]
      BY <2>4 DEF UpdateChannel, ResultsTypeOK
    <3>2. UNCHANGED <<scan, messages>> BY <2>4 DEF UpdateChannel
    <3>3. \A m \in messages : There(m.channel) => There(m.channel)'
      BY <3>1, Messages DEF There
    <3> QED BY <3>2, <3>3, ToldKept
  <2>5. ASSUME NEW c \in Channels, ReadChannel(c) PROVE Told' BY <1>3, <2>5 DEF ReadChannel
  <2>6. CASE RecordTest \/ RequestFails BY <1>3, <2>6 DEF RecordTest, RequestFails
  <2> QED BY <1>4, <2>1, <2>2, <2>3, <2>4, <2>5, <2>6 DEF ChannelStep
<1>5. ASSUME NEW a \in Accounts, NEW r \in Resources,
             DismissZombie(a, r) \/ RevokeDismissal(a, r) \/ SnoozeRunsOut(a, r)
      PROVE  Told'
  BY <1>3, <1>5 DEF DismissZombie, RevokeDismissal, SnoozeRunsOut, resultVars
<1>6. CASE ExpireSnoozes \/ UNCHANGED tableVars
  BY <1>3, <1>6 DEF ExpireSnoozes, tableVars, resultVars
<1> QED BY <1>1, <1>2, <1>4, <1>5, <1>6 DEF TablesNext

\* No more is lost than there were faults, when a step loses nothing ...
LEMMA NothingLost ==
    ASSUME ResultsTypeOK, ResultsTypeOK', Told, SendsRecorded, Unrecorded' \subseteq Unrecorded, faults' >= faults
    PROVE  SendsRecorded'
<1>1. faults \in Nat /\ faults' \in Nat BY Bounds DEF ResultsTypeOK
<1>2. IsFiniteSet(Unrecorded) BY FS_Subset DEF Told, Unrecorded
<1>3. /\ Cardinality(Unrecorded') <= Cardinality(Unrecorded)
      /\ Cardinality(Unrecorded) \in Nat /\ Cardinality(Unrecorded') \in Nat
  BY <1>2, FS_Subset, FS_CardinalityType
<1> QED BY <1>1, <1>3 DEF SendsRecorded

\* ... and when it loses one message, and that by a fault.
LEMMA OneLost ==
    ASSUME ResultsTypeOK, Told, SendsRecorded, NEW m, Unrecorded' \subseteq Unrecorded \cup {m},
           faults' = faults + 1
    PROVE  SendsRecorded'
<1>1. faults \in Nat BY Bounds DEF ResultsTypeOK
<1>2. IsFiniteSet(Unrecorded) BY FS_Subset DEF Told, Unrecorded
<1>3. /\ IsFiniteSet(Unrecorded \cup {m})
      /\ \/ Cardinality(Unrecorded \cup {m}) = Cardinality(Unrecorded)
         \/ Cardinality(Unrecorded \cup {m}) = Cardinality(Unrecorded) + 1
  BY <1>2, FS_AddElement
<1>4. /\ Cardinality(Unrecorded') <= Cardinality(Unrecorded \cup {m})
      /\ Cardinality(Unrecorded) \in Nat /\ Cardinality(Unrecorded') \in Nat
  BY <1>2, <1>3, FS_Subset, FS_CardinalityType
<1> QED BY <1>1, <1>3, <1>4 DEF SendsRecorded

\* A step loses nothing that leaves the rows, the accounts gone and what is being recorded.
LEMMA KeepsUnrecorded ==
    ASSUME ResultsTypeOK, messages' \subseteq messages, account' \subseteq account,
           \A d \in dispatches : d \in dispatches' \/ \A m \in messages' : m.channel # d.channel,
           \A t \in Scans : scan'[t].at = scan[t].at /\ scan'[t].acct = scan[t].acct,
           request' = request \/ request.op # "test"
    PROVE  Unrecorded' \subseteq Unrecorded
<1> SUFFICES ASSUME NEW m \in Unrecorded' PROVE m \in Unrecorded OBVIOUS
<1>1. /\ m \in messages' /\ m \in messages
      /\ \A d \in dispatches' : <<d.channel, d.scan>> # <<m.channel, m.scan>>
      /\ m.scan # NoScan => scan'[m.scan].at # m.channel /\ scan'[m.scan].acct \in account'
      /\ m.scan = NoScan => ~(request'.op = "test" /\ request'.channel = m.channel)
  BY DEF Unrecorded
<1>2. m.scan # NoScan => m.scan \in Scans BY <1>1, Messages
<1>3. \A d \in dispatches : <<d.channel, d.scan>> # <<m.channel, m.scan>>
  BY <1>1
<1>4. m.scan # NoScan => scan[m.scan].at # m.channel /\ scan[m.scan].acct \in account
  BY <1>1, <1>2
<1>5. m.scan = NoScan => ~(request.op = "test" /\ request.channel = m.channel) BY <1>1
<1> QED BY <1>1, <1>3, <1>4, <1>5 DEF Unrecorded

\* The messages of scan s that are not recorded, as the steps around the recording see them.
LEMMA RecordingUnrecorded ==
    ASSUME ResultsTypeOK, NEW s \in Scans, NEW m \in Unrecorded', m \in messages,
           dispatches \subseteq dispatches', UNCHANGED <<account, request>>,
           scan'[s].acct = scan[s].acct, \A t \in Scans \ {s} : scan'[t] = scan[t],
           m.scan = s => scan[s].at # m.channel
    PROVE  m \in Unrecorded
<1>1. /\ \A d \in dispatches' : <<d.channel, d.scan>> # <<m.channel, m.scan>>
      /\ m.scan # NoScan => scan'[m.scan].at # m.channel /\ scan'[m.scan].acct \in account
      /\ m.scan = NoScan => ~(request.op = "test" /\ request.channel = m.channel)
  BY DEF Unrecorded
<1>2. m.scan # NoScan => m.scan \in Scans BY Messages
<1>3. m.scan # NoScan => scan[m.scan].at # m.channel /\ scan[m.scan].acct \in account
  BY <1>1, <1>2
<1> QED BY <1>1, <1>3 DEF Unrecorded

\* While scan s records a message, it is at that message's channel.
LEMMA FailedRecord ==
    ASSUME ResultsTypeOK, Told, NEW s \in Scans, At(s, "record"),
           UNCHANGED <<messages, dispatches, account, request>>,
           scan'[s].acct = scan[s].acct, \A t \in Scans \ {s} : scan'[t] = scan[t]
    PROVE  /\ Unrecorded' \subseteq Unrecorded \cup
                {[channel |-> scan[s].at, scan |-> s, count |-> CountOf(s)]}
           /\ Dangling(s) => Unrecorded' \subseteq Unrecorded
<1> SUFFICES ASSUME NEW m \in Unrecorded', m \notin Unrecorded
             PROVE  /\ m = [channel |-> scan[s].at, scan |-> s, count |-> CountOf(s)]
                    /\ ~Dangling(s)
  OBVIOUS
<1>1. /\ m \in messages
      /\ m.scan # NoScan => scan'[m.scan].acct \in account
  BY DEF Unrecorded
<1>2. m.scan = s /\ m.channel = scan[s].at BY <1>1, RecordingUnrecorded
<1>3. /\ m.count = CountOf(s) /\ There(scan[s].at)
      /\ m = [channel |-> m.channel, scan |-> m.scan, count |-> m.count]
  BY <1>1, <1>2, Messages DEF Told
<1>4. scan[s].acct \in account BY <1>1, <1>2, Bounds
<1> QED BY <1>2, <1>3, <1>4 DEF Dangling, At

\* Every step of a scan loses no more than its faults.
LEMMA ScanUnrecorded ==
    ASSUME ResultsTypeOK, ResultsTypeOK', Bookkeeping, Told, SendsRecorded, NEW s \in Scans, ScanStep(s)
    PROVE  SendsRecorded'
<1>1. scan \in [Scans -> ScanType] /\ scan[s] \in ScanType /\ faults \in Nat
  BY Bounds DEF ResultsTypeOK
<1>2. CASE Begin(s)
  <2>1. scan'[s].at = scan[s].at /\ scan'[s].acct = scan[s].acct BY <1>2, BeginScans
  <2>2. \A t \in Scans \ {s} : scan'[t].at = scan[t].at /\ scan'[t].acct = scan[t].acct
    <3> TAKE t \in Scans \ {s}
    <3>1. scan[t] \in ScanType BY <1>1
    <3>2. scan'[t] = scan[t] \/ scan'[t] = [scan[t] EXCEPT !.alone = FALSE] BY <1>2, BeginScans
    <3> QED BY <3>1, <3>2 DEF ScanType
  <2>3. UNCHANGED <<account, dispatches, messages, request, faults>> BY <1>2 DEF Begin, tables
  <2>4. Unrecorded' \subseteq Unrecorded BY <2>1, <2>2, <2>3, KeepsUnrecorded
  <2> QED BY <1>1, <2>3, <2>4, NothingLost
<1>3. ASSUME UNCHANGED <<account, dispatches, messages, request, faults>>, ~Begin(s),
             scan'[s].at = scan[s].at
      PROVE  SendsRecorded'
  <2>1. \A t \in Scans : scan'[t].at = scan[t].at /\ scan'[t].acct = scan[t].acct
    BY <1>3, StepScans
  <2>2. Unrecorded' \subseteq Unrecorded BY <1>3, <2>1, KeepsUnrecorded
  <2> QED BY <1>1, <1>3, <2>2, NothingLost
<1>4. CASE SaveCosts(s) \/ ClearZombies(s) \/ SaveZombies(s) \/ SaveSnapshot(s)
           \/ SaveSnapshotServices(s) \/ DispatchForScan(s) \/ SaveResources(s)
  <2>1. ~Begin(s)
    BY <1>4 DEF SaveCosts, ClearZombies, SaveZombies, SaveSnapshot, SaveSnapshotServices,
                DispatchForScan, SaveResources, Begin, At
  <2>2. UNCHANGED <<account, dispatches, messages, request, faults>>
    BY <1>4 DEF SaveCosts, ClearZombies, SaveZombies, SaveSnapshot, SaveSnapshotServices,
                DispatchForScan, SaveResources, tables
  <2>3. scan'[s].at = scan[s].at
    BY <1>1, <1>4 DEF SaveCosts, ClearZombies, SaveZombies, SaveSnapshot, SaveSnapshotServices,
                      DispatchForScan, SaveResources, Goto, ScanType
  <2> QED BY <1>3, <2>1, <2>2, <2>3
<1>5. CASE ClearResources(s)
  <2>1. ~Begin(s) BY <1>5 DEF ClearResources, Begin, At
  <2>2. UNCHANGED <<account, dispatches, messages, request, faults>>
    BY <1>5 DEF ClearResources, tables
  <2>3. scan'[s].at = scan[s].at BY <1>1, <1>5 DEF ClearResources, ScanType
  <2> QED BY <1>3, <2>1, <2>2, <2>3
<1>6. CASE Send(s)
  <2>1. PICK c \in scan[s].todo, sent \in BOOLEAN, arrives \in BOOLEAN :
          /\ messages' = Sent(c, s, Cardinality(scan[s].found), arrives)
          /\ scan' = [scan EXCEPT ![s].pc = "record", ![s].todo = scan[s].todo \ {c},
                                  ![s].at = c, ![s].sent = sent]
    BY <1>6 DEF Send
  <2>2. /\ UNCHANGED <<account, dispatches, request, faults>> /\ scan'[s].at = c
        /\ scan'[s].acct = scan[s].acct /\ \A t \in Scans \ {s} : scan'[t] = scan[t]
    BY <1>1, <1>6, <2>1 DEF Send, tables, ScanType
  <2>3. scan[s].at = NoChannel BY <1>6 DEF Send, At, Bookkeeping
  <2>4. ASSUME NEW m \in Unrecorded' PROVE m \in Unrecorded
    <3>1. /\ m \in messages'
          /\ m.scan # NoScan => scan'[m.scan].at # m.channel
      BY DEF Unrecorded
    <3>2. ~(m.channel = c /\ m.scan = s) BY <2>2, <3>1, Bounds
    <3>3. m \in messages
      <4>1. messages' = messages
               \/ messages' = messages \cup
                     {[channel |-> c, scan |-> s, count |-> Cardinality(scan[s].found)]}
        BY <2>1 DEF Sent
      <4> QED BY <3>1, <3>2, <4>1
    <3>4. scan[s].at # m.channel BY <2>3, <3>3, Messages
    <3> QED BY <2>2, <3>3, <3>4, RecordingUnrecorded
  <2>5. Unrecorded' \subseteq Unrecorded BY <2>4
  <2> QED BY <1>1, <2>2, <2>5, NothingLost
<1>7. CASE Record(s)
  <2>1. /\ UNCHANGED <<account, messages, request, faults>>
        /\ dispatches' = dispatches \cup {[channel |-> scan[s].at, scan |-> s, sent |-> scan[s].sent]}
        /\ scan'[s].acct = scan[s].acct /\ \A t \in Scans \ {s} : scan'[t] = scan[t]
    BY <1>1, <1>7 DEF Record, ScanType
  <2>2. ASSUME NEW m \in Unrecorded' PROVE m \in Unrecorded
    <3>1. /\ m \in messages
          /\ \A d \in dispatches' : <<d.channel, d.scan>> # <<m.channel, m.scan>>
      BY <2>1 DEF Unrecorded
    <3>2. m.scan = s => scan[s].at # m.channel
      <4>1. [channel |-> scan[s].at, scan |-> s, sent |-> scan[s].sent] \in dispatches' BY <2>1
      <4>2. <<scan[s].at, s>> # <<m.channel, m.scan>> BY <3>1, <4>1
      <4> QED BY <4>2
    <3> QED BY <2>1, <3>1, <3>2, RecordingUnrecorded
  <2>3. Unrecorded' \subseteq Unrecorded BY <2>2
  <2> QED BY <1>1, <2>1, <2>3, NothingLost
<1>8. CASE ScanFails(s) \/ StepFails(s)
  <2>1. /\ UNCHANGED <<account, dispatches, messages, request>> /\ Fault(s)
        /\ faults' = faults \/ (faults' = faults + 1 /\ ~Dangling(s))
    BY <1>8 DEF ScanFails, StepFails, Fault, tables
  <2>2. ~Begin(s)
    BY <1>8 DEF ScanFails, StepFails, Begin, At, Running
  <2>3. scan'[s].acct = scan[s].acct /\ \A t \in Scans \ {s} : scan'[t] = scan[t]
    BY <2>2, StepScans
  <2>4. CASE At(s, "record")
    <3>1. PICK m : m = [channel |-> scan[s].at, scan |-> s, count |-> CountOf(s)] OBVIOUS
    <3>2. /\ Unrecorded' \subseteq Unrecorded \cup {m}
          /\ Dangling(s) => Unrecorded' \subseteq Unrecorded
      BY <2>1, <2>3, <2>4, <3>1, FailedRecord
    <3>3. CASE Dangling(s) BY <1>1, <2>1, <3>2, <3>3, NothingLost
    <3>4. CASE ~Dangling(s)
      <4>1. faults' = faults + 1 BY <2>1, <3>4 DEF Fault
      <4> QED BY <3>2, <4>1, OneLost
    <3> QED BY <3>3, <3>4
  <2>5. CASE ~At(s, "record")
    <3>1. scan[s].at = NoChannel BY <2>5 DEF Bookkeeping
    <3>2. scan'[s].at = scan[s].at
      BY <1>1, <1>8, <2>5, <3>1 DEF ScanFails, StepFails, Goto, ScanType
    <3>3. \A t \in Scans : scan'[t].at = scan[t].at /\ scan'[t].acct = scan[t].acct
      BY <2>3, <3>2
    <3>4. Unrecorded' \subseteq Unrecorded BY <2>1, <3>3, KeepsUnrecorded
    <3> QED BY <1>1, <2>1, <3>4, NothingLost
  <2> QED BY <2>4, <2>5
<1> QED BY <1>2, <1>4, <1>5, <1>6, <1>7, <1>8 DEF ScanStep

\* So does every step of the channels' administration.
LEMMA ChannelUnrecorded ==
    ASSUME ResultsTypeOK, ResultsTypeOK', Told, SendsRecorded, ChannelStep PROVE SendsRecorded'
<1>1. faults \in Nat BY Bounds DEF ResultsTypeOK
<1>2. ASSUME UNCHANGED <<account, scan, faults>>, messages' \subseteq messages,
             \A d \in dispatches : d \in dispatches' \/ \A m \in messages' : m.channel # d.channel,
             request' = request \/ request.op # "test"
      PROVE  SendsRecorded'
  <2>1. Unrecorded' \subseteq Unrecorded BY <1>2, KeepsUnrecorded
  <2> QED BY <1>1, <1>2, <2>1, NothingLost
<1>3. ASSUME NEW c \in Channels, CreateChannel(c) \/ ReadChannel(c) PROVE SendsRecorded'
  BY <1>2, <1>3 DEF CreateChannel, ReadChannel, tables, NoRequest
<1>4. ASSUME NEW c \in Channels, DeleteChannel(c) PROVE SendsRecorded'
  <2>1. /\ dispatches' = {d \in dispatches : d.channel # c}
        /\ messages' = {m \in messages : m.channel # c}
        /\ UNCHANGED <<account, scan, faults, request>>
    BY <1>4 DEF DeleteChannel
  <2> QED BY <1>2, <2>1
<1>5. CASE UpdateChannel BY <1>2, <1>5 DEF UpdateChannel, tables
<1>6. ASSUME NEW c \in Channels, TestChannel(c) PROVE SendsRecorded'
  <2>1. PICK sent \in BOOLEAN, arrives \in BOOLEAN :
          /\ messages' = Sent(c, NoScan, 0, arrives)
          /\ request' = [op |-> "test", channel |-> c, on |-> sent]
    BY <1>6 DEF TestChannel
  <2>2. /\ UNCHANGED <<account, scan, dispatches, faults>> /\ request.op # "test"
        /\ request'.op = "test" /\ request'.channel = c
    BY <1>6, <2>1 DEF TestChannel, NoRequest, tables
  <2>3. ASSUME NEW m \in Unrecorded' PROVE m \in Unrecorded
    <3>1. /\ m \in messages' /\ ~(m.channel = c /\ m.scan = NoScan)
          /\ \A d \in dispatches : <<d.channel, d.scan>> # <<m.channel, m.scan>>
          /\ m.scan # NoScan => scan[m.scan].at # m.channel /\ scan[m.scan].acct \in account
      BY <2>2 DEF Unrecorded
    <3>2. m \in messages BY <2>1, <3>1 DEF Sent
    <3> QED BY <2>2, <3>1, <3>2 DEF Unrecorded
  <2>4. Unrecorded' \subseteq Unrecorded BY <2>3
  <2> QED BY <1>1, <2>2, <2>4, NothingLost
<1>7. CASE RecordTest
  <2>1. /\ UNCHANGED <<account, scan, messages, faults>> /\ request'.op # "test"
        /\ dispatches' = dispatches \cup
             {[channel |-> request.channel, scan |-> NoScan, sent |-> request.on]}
    BY <1>7 DEF RecordTest, NoRequest
  <2>2. ASSUME NEW m \in Unrecorded' PROVE m \in Unrecorded
    <3>1. /\ m \in messages
          /\ \A d \in dispatches' : <<d.channel, d.scan>> # <<m.channel, m.scan>>
          /\ m.scan # NoScan => scan[m.scan].at # m.channel /\ scan[m.scan].acct \in account
      BY <2>1 DEF Unrecorded
    <3>2. m.scan = NoScan => request.channel # m.channel
      <4>1. [channel |-> request.channel, scan |-> NoScan, sent |-> request.on] \in dispatches'
        BY <2>1
      <4>2. <<request.channel, NoScan>> # <<m.channel, m.scan>> BY <3>1, <4>1
      <4> QED BY <4>2
    <3> QED BY <2>1, <3>1, <3>2 DEF Unrecorded
  <2>3. Unrecorded' \subseteq Unrecorded BY <2>2
  <2> QED BY <1>1, <2>1, <2>3, NothingLost
<1>8. CASE RequestFails
  <2>1. /\ UNCHANGED <<account, scan, dispatches, messages>>
        /\ \/ faults' = faults /\ ~There(request.channel)
           \/ faults' = faults + 1
    BY <1>8 DEF RequestFails, tables
  <2>2. PICK lost : lost = [channel |-> request.channel, scan |-> NoScan, count |-> 0] OBVIOUS
  <2>3. ASSUME NEW m \in Unrecorded', m \notin Unrecorded
        PROVE  m = lost /\ There(request.channel)
    <3>1. /\ m \in messages
          /\ \A d \in dispatches : <<d.channel, d.scan>> # <<m.channel, m.scan>>
          /\ m.scan # NoScan => scan[m.scan].at # m.channel /\ scan[m.scan].acct \in account
      BY <2>1 DEF Unrecorded
    <3>2. m.scan = NoScan /\ request.channel = m.channel BY <2>3, <3>1 DEF Unrecorded
    <3>3. /\ m = [channel |-> m.channel, scan |-> m.scan, count |-> m.count]
          /\ There(m.channel) /\ m.count = 0
      BY <3>1, <3>2, Messages DEF Told, CountOf
    <3> QED BY <2>2, <3>2, <3>3
  <2>4. CASE faults' = faults /\ ~There(request.channel)
    <3>1. Unrecorded' \subseteq Unrecorded BY <2>3, <2>4
    <3> QED BY <1>1, <2>4, <3>1, NothingLost
  <2>5. CASE faults' = faults + 1
    <3>1. Unrecorded' \subseteq Unrecorded \cup {lost} BY <2>3
    <3> QED BY <2>5, <3>1, OneLost
  <2> QED BY <2>1, <2>4, <2>5
<1> QED BY <1>3, <1>4, <1>5, <1>6, <1>7, <1>8 DEF ChannelStep

\* So does every step.
LEMMA NextUnrecorded ==
    ASSUME TablesTypeOK, TablesTypeOK', Bookkeeping, Told, SendsRecorded, [TablesNext]_tableVars
    PROVE  SendsRecorded'
<1> USE DEF TablesTypeOK
<1>1. faults \in Nat BY Bounds DEF ResultsTypeOK
<1>2. ASSUME NEW a \in Accounts, DeleteAccountCascade(a) PROVE SendsRecorded'
  <2>1. /\ UNCHANGED <<dispatches, scan, request, messages, faults>> /\ account' \subseteq account
    BY <1>2 DEF DeleteAccountCascade, DeleteAccount
  <2>2. Unrecorded' \subseteq Unrecorded BY <2>1, KeepsUnrecorded
  <2> QED BY <1>1, <2>1, <2>2, NothingLost
<1>3. CASE UNCHANGED <<account, dispatches, scan, request, messages, faults>>
  <2>1. Unrecorded' \subseteq Unrecorded BY <1>3, KeepsUnrecorded
  <2> QED BY <1>1, <1>3, <2>1, NothingLost
<1>4. ASSUME NEW a \in Accounts, NEW r \in Resources,
             DismissZombie(a, r) \/ RevokeDismissal(a, r) \/ SnoozeRunsOut(a, r)
      PROVE  SendsRecorded'
  BY <1>3, <1>4 DEF DismissZombie, RevokeDismissal, SnoozeRunsOut, resultVars, tables
<1>5. CASE ExpireSnoozes \/ UNCHANGED tableVars
  BY <1>3, <1>5 DEF ExpireSnoozes, tableVars, resultVars, tables
<1> QED BY <1>2, <1>4, <1>5, ScanUnrecorded, ChannelUnrecorded DEF TablesNext

\* The deliveries of a channel show every message it was sent, apart from one for each fault,
\* those being recorded and those of an account that is gone, whatever order messages, rows,
\* the deletion of the channel and a PATCH of it come in.
THEOREM DeliveriesShowSends == FindingsSpec => []SendsRecorded
<1>1. TablesInit => Told /\ SendsRecorded BY InitTold
<1>2. /\ TablesTypeOK /\ TablesTypeOK' /\ Bookkeeping /\ Told /\ SendsRecorded
      /\ [TablesNext]_tableVars
      => Told' /\ SendsRecorded'
  BY NextTold, NextUnrecorded
<1> QED BY <1>1, <1>2, BooksInvariant, OfTables, PTL DEF TablesSpec

------------------------------------------------------------------------------
(* The summaries of the API *)

\* Scans of an account that are both between DELETE and COMMIT have crossed; what has come
\* into the table since a scan's DELETE is of one that crossed it; and so are two rows of an
\* account that are of different scans.
Crossings ==
    /\ \A s, t \in Scans : s # t /\ scan[s].acct = scan[t].acct
                           /\ At(s, "insertzombies") /\ At(t, "insertzombies")
                           => {s, t} \in crossed
    /\ \A s \in Scans, x \in zombies :
          At(s, "insertzombies") /\ x.acct = scan[s].acct /\ x.scan # s /\ x \notin scan[s].seen
          => {x.scan, s} \in crossed
    /\ \A x, y \in zombies : x.acct = y.acct /\ x.scan # y.scan => {x.scan, y.scan} \in crossed

\* What a summary has read was in the table, and its history is right.
Loaded ==
    reader.pc = "loaded" =>
        /\ \A x, y \in reader.rows :
              x.acct = y.acct /\ x.scan # y.scan => {x.scan, y.scan} \in crossed
        /\ \A x \in reader.rows : x.acct \in reader.accts
        /\ reader.clear \subseteq {x \in reader.rows : ~IsDismissed(x)}
        /\ reader.hidden \subseteq {x \in reader.rows : IsDismissed(x)}

\* A step of a scan keeps this of the table: only a scan between DELETE and COMMIT adds rows.
LEMMA ScanCrossings ==
    ASSUME ResultsTypeOK, Bookkeeping, Crossings, NEW s \in Scans, ScanStep(s), Watch
    PROVE  Crossings'
<1>1. scan \in [Scans -> ScanType] /\ crossed \subseteq crossed' BY DEF ResultsTypeOK, Watch
<1>2. \A t \in Scans : scan'[t].acct = scan[t].acct BY ScanAccountKept
<1>3. \A t \in Scans \ {s} : scan'[t].pc = scan[t].pc /\ scan'[t].seen = scan[t].seen
  <2>1. CASE Begin(s)
    <3> TAKE t \in Scans \ {s}
    <3>1. scan'[t] = scan[t] \/ scan'[t] = [scan[t] EXCEPT !.alone = FALSE]
      BY <2>1, BeginScans
    <3> QED BY <1>1, <3>1 DEF ScanType
  <2>2. CASE ~Begin(s) BY <2>2, StepScans
  <2> QED BY <2>1, <2>2
<1>4. ASSUME NEW q \in Scans, NEW t \in Scans, q # t, scan'[q].acct = scan'[t].acct,
             scan'[q].pc = "insertzombies", scan'[t].pc = "insertzombies"
      PROVE  {q, t} \in crossed'
  <2>1. {q, t} \in SUBSET Scans OBVIOUS
  <2>2. {q, t} \in Crossing' BY <1>4, <2>1 DEF Crossing, At
  <2> QED BY <2>2 DEF Watch
<1>5. CASE SaveZombies(s)
  <2>1. /\ scan[s].pc = "insertzombies" /\ scan'[s].pc = "snapshot"
        /\ zombies' = (zombies \ scan[s].seen) \cup ZombiesOf(s)
    BY <1>1, <1>5 DEF SaveZombies, ScanType, At
  <2>2. \A x \in ZombiesOf(s) : x.scan = s /\ x.acct = scan[s].acct BY DEF ZombiesOf
  <2>3. ASSUME NEW q \in Scans, NEW x \in zombies', scan'[q].pc = "insertzombies",
               x.acct = scan'[q].acct, x.scan # q, x \notin scan'[q].seen
        PROVE  {x.scan, q} \in crossed'
    <3>1. q # s /\ scan[q].pc = "insertzombies" /\ scan'[q].seen = scan[q].seen
          /\ x.acct = scan[q].acct
      BY <1>2, <1>3, <2>1, <2>3
    <3>2. CASE x \in zombies BY <1>1, <2>3, <3>1, <3>2 DEF Crossings, At
    <3>3. CASE x \in ZombiesOf(s)
      <4>1. {s, q} \in crossed BY <2>1, <2>2, <3>1, <3>3 DEF Crossings, At
      <4> QED BY <1>1, <2>2, <3>3, <4>1
    <3> QED BY <2>1, <3>2, <3>3
  <2>4. ASSUME NEW x \in zombies', NEW y \in zombies', x.acct = y.acct, x.scan # y.scan
        PROVE  {x.scan, y.scan} \in crossed'
    <3>1. ASSUME NEW o \in zombies \ scan[s].seen, NEW n \in ZombiesOf(s), o.acct = n.acct,
                 o.scan # n.scan
          PROVE  {o.scan, n.scan} \in crossed
      BY <2>1, <2>2, <3>1 DEF Crossings, At
    <3>2. CASE x \in zombies /\ y \in zombies BY <1>1, <2>4, <3>2 DEF Crossings
    <3>3. CASE x \in zombies \ scan[s].seen /\ y \in ZombiesOf(s) BY <1>1, <2>4, <3>1, <3>3
    <3>4. CASE y \in zombies \ scan[s].seen /\ x \in ZombiesOf(s)
      <4>1. {y.scan, x.scan} \in crossed BY <2>4, <3>1, <3>4
      <4>2. {y.scan, x.scan} = {x.scan, y.scan} OBVIOUS
      <4> QED BY <1>1, <4>1, <4>2
    <3>5. CASE x \in ZombiesOf(s) /\ y \in ZombiesOf(s) BY <2>2, <2>4, <3>5
    <3> QED BY <2>1, <3>2, <3>3, <3>4, <3>5
  <2> QED BY <1>4, <2>3, <2>4 DEF Crossings, At
<1>6. CASE ~SaveZombies(s)
  <2>1. UNCHANGED zombies
    BY <1>6 DEF ScanStep, Begin, SaveCosts, ClearZombies, SaveSnapshot, tables,
                SaveSnapshotServices, DispatchForScan, Send, Record, ClearResources,
                SaveResources, ScanFails, StepFails
  <2>2. ASSUME scan'[s].pc = "insertzombies"
        PROVE  scan'[s].seen = Of(zombies, scan[s].acct)
    <3>1. CASE ClearZombies(s) BY <1>1, <3>1 DEF ClearZombies, ScanType
    <3>2. CASE Begin(s) BY <2>2, <3>2, BeginScans
    <3>3. CASE SaveCosts(s) \/ SaveSnapshot(s) \/ SaveSnapshotServices(s) \/ DispatchForScan(s)
      BY <1>1, <2>2, <3>3 DEF SaveCosts, SaveSnapshot, SaveSnapshotServices, DispatchForScan,
                              Goto, ScanType
    <3>4. CASE Record(s) \/ ScanFails(s) \/ StepFails(s)
      BY <1>1, <2>2, <3>4 DEF Record, ScanFails, StepFails, Goto, ScanType
    <3>5. CASE ClearResources(s) \/ SaveResources(s)
      BY <1>1, <2>2, <3>5 DEF ClearResources, SaveResources, ScanType
    <3>6. CASE Send(s) BY <1>1, <2>2, <3>6 DEF Send, ScanType
    <3> QED BY <1>6, <3>1, <3>2, <3>3, <3>4, <3>5, <3>6 DEF ScanStep
  <2>3. ASSUME NEW q \in Scans, NEW x \in zombies, scan'[q].pc = "insertzombies",
               x.acct = scan'[q].acct, x.scan # q, x \notin scan'[q].seen
        PROVE  {x.scan, q} \in crossed'
    <3>1. CASE q = s BY <1>2, <2>2, <2>3, <3>1 DEF Of
    <3>2. CASE q # s BY <1>1, <1>2, <1>3, <2>3, <3>2 DEF Crossings, At
    <3> QED BY <3>1, <3>2
  <2>4. \A x, y \in zombies : x.acct = y.acct /\ x.scan # y.scan => {x.scan, y.scan} \in crossed'
    BY <1>1 DEF Crossings
  <2> QED BY <1>4, <2>1, <2>3, <2>4 DEF Crossings, At
<1> QED BY <1>5, <1>6

\* So does every step.
LEMMA NextCrossings ==
    ASSUME FindingsTypeOK, Bookkeeping, Crossings, [FindingsNext]_findingsVars PROVE Crossings'
<1>1. ResultsTypeOK BY DEF FindingsTypeOK, TablesTypeOK
<1>2. CASE ReadZombies \/ ReadDismissals \/ UNCHANGED findingsVars
  <2>1. UNCHANGED <<zombies, scan, crossed>>
    BY <1>2 DEF ReadZombies, ReadDismissals, findingsVars, tableVars, resultVars, tables
  <2> QED BY <2>1 DEF Crossings, At
<1>3. ASSUME TablesNext, Watch PROVE Crossings'
  <2>1. crossed \subseteq crossed' BY <1>3 DEF Watch
  <2>2. ASSUME NEW s \in Scans, ScanStep(s) PROVE Crossings' BY <1>1, <1>3, <2>2, ScanCrossings
  <2>3. ASSUME zombies' \subseteq zombies, \A s \in Scans : scan'[s] = scan[s] PROVE Crossings'
    <3>1. \A s, t \in Scans : s # t /\ scan'[s].acct = scan'[t].acct
              /\ scan'[s].pc = "insertzombies" /\ scan'[t].pc = "insertzombies"
              => {s, t} \in crossed'
      BY <2>1, <2>3 DEF Crossings, At
    <3>2. \A s \in Scans, x \in zombies' :
              /\ scan'[s].pc = "insertzombies" /\ x.acct = scan'[s].acct
              /\ x.scan # s /\ x \notin scan'[s].seen
              => {x.scan, s} \in crossed'
      BY <2>1, <2>3 DEF Crossings, At
    <3>3. \A x, y \in zombies' :
              x.acct = y.acct /\ x.scan # y.scan => {x.scan, y.scan} \in crossed'
      BY <2>1, <2>3 DEF Crossings
    <3> QED BY <3>1, <3>2, <3>3 DEF Crossings, At
  <2>4. ASSUME NEW a \in Accounts, DeleteAccountCascade(a) PROVE Crossings'
    BY <2>3, <2>4 DEF DeleteAccountCascade, DeleteAccount
  <2> QED BY <1>3, <2>2, <2>3, <2>4, OthersLeave
<1> QED BY <1>2, <1>3 DEF FindingsNext

\* A summary keeps what it has read, and every step its history.
LEMMA NextLoaded ==
    ASSUME FindingsTypeOK, Crossings, Loaded, [FindingsNext]_findingsVars PROVE Loaded'
<1>1. reader \in ReaderType BY DEF FindingsTypeOK
<1>2. CASE TablesNext /\ Watch
  <2>1. /\ reader'.pc = reader.pc /\ reader'.rows = reader.rows /\ reader'.accts = reader.accts
        /\ reader'.clear = {x \in reader.clear : ~IsDismissed(x)'}
        /\ reader'.hidden = {x \in reader.hidden : IsDismissed(x)'}
        /\ crossed \subseteq crossed'
    BY <1>1, <1>2 DEF Watch, ReaderType
  <2> QED BY <2>1 DEF Loaded, IsDismissed
<1>3. CASE ReadZombies
  <2>1. PICK accts \in Views :
           reader' = [pc |-> "loaded", accts |-> accts, rows |-> LoadZombies(accts),
                      clear |-> {row \in LoadZombies(accts) : ~IsDismissed(row)},
                      hidden |-> {row \in LoadZombies(accts) : IsDismissed(row)}]
    BY <1>3 DEF ReadZombies
  <2>2. UNCHANGED <<dismissed, crossed>> BY <1>3 DEF ReadZombies, tableVars
  <2>3. /\ reader'.rows = LoadZombies(accts) /\ reader'.accts = accts
        /\ reader'.clear = {row \in LoadZombies(accts) : ~IsDismissed(row)}
        /\ reader'.hidden = {row \in LoadZombies(accts) : IsDismissed(row)}
    BY <2>1
  <2>4. LoadZombies(accts) \subseteq zombies /\ \A x \in LoadZombies(accts) : x.acct \in accts
    BY DEF LoadZombies
  <2>5. \A x, y \in reader'.rows :
            x.acct = y.acct /\ x.scan # y.scan => {x.scan, y.scan} \in crossed'
    BY <2>2, <2>3, <2>4 DEF Crossings
  <2>6. \A x \in reader'.rows : x.acct \in reader'.accts BY <2>3, <2>4
  <2>7. /\ reader'.clear \subseteq {x \in reader'.rows : ~IsDismissed(x)'}
        /\ reader'.hidden \subseteq {x \in reader'.rows : IsDismissed(x)'}
    BY <2>2, <2>3 DEF IsDismissed
  <2> QED BY <2>5, <2>6, <2>7 DEF Loaded
<1>4. CASE ReadDismissals BY <1>4 DEF ReadDismissals, NoReader, Loaded
<1>5. CASE UNCHANGED findingsVars
  <2>1. UNCHANGED <<reader, crossed, dismissed>> BY <1>5 DEF findingsVars, tableVars
  <2> QED BY <2>1 DEF Loaded, IsDismissed
<1> QED BY <1>2, <1>3, <1>4, <1>5 DEF FindingsNext

\* A row of an account that is asked for is shown when it is not dismissed there, whichever
\* other accounts are asked for.
LEMMA ShownRows ==
    ASSUME FindingsTypeOK, Loaded, reader.pc = "loaded"
    PROVE  Answer = {x \in reader.rows : ~IsDismissed(x)}
<1> SUFFICES ASSUME NEW x \in reader.rows
             PROVE  (\A d \in ActiveDismissals(reader.accts) : Key(d) # Key(x)) <=> ~IsDismissed(x)
  BY DEF Answer, Shown
<1>1. x.acct \in reader.accts BY DEF Loaded
<1>2. x.res \in Resources BY DEF FindingsTypeOK, ReaderType, ZombieRow
<1>3. ASSUME IsDismissed(x) PROVE \E d \in ActiveDismissals(reader.accts) : Key(d) = Key(x)
  <2> DEFINE d == [acct |-> x.acct, res |-> x.res]
  <2>1. d \in [acct : reader.accts, res : Resources] /\ d.acct = x.acct /\ d.res = x.res
    BY <1>1, <1>2
  <2>2. d \in ActiveDismissals(reader.accts) BY <1>3, <2>1 DEF ActiveDismissals, IsDismissed
  <2>3. Key(d) = Key(x) BY <2>1 DEF Key
  <2> QED BY <2>2, <2>3
<1>4. ASSUME NEW d \in ActiveDismissals(reader.accts), Key(d) = Key(x) PROVE IsDismissed(x)
  <2>1. d.acct = x.acct /\ d.res = x.res BY <1>4 DEF Key
  <2> QED BY <2>1 DEF ActiveDismissals, IsDismissed
<1> QED BY <1>3, <1>4

\* Whatever scans, deletions and dismissals are committed between its two reads, a summary
\* leaves out what was dismissed all the while, has what was not, and counts a resource twice
\* only if two scans of its account replaced the zombies at the same time.
THEOREM SummariesCountRightly == FindingsSpec => []CountedRightly
<1>1. FindingsInit => Crossings /\ Loaded
  BY DEF FindingsInit, TablesInit, ResultsInit, NoReader, Crossings, Loaded, At
<1>2. FindingsTypeOK /\ Bookkeeping /\ Crossings /\ Loaded /\ [FindingsNext]_findingsVars
         => (Crossings /\ Loaded)'
  BY NextCrossings, NextLoaded
<1>3. FindingsTypeOK /\ Loaded => CountedRightly
  <2> SUFFICES ASSUME FindingsTypeOK, Loaded, reader.pc = "loaded" PROVE CountedRightly
    BY DEF CountedRightly
  <2>1. Answer = {x \in reader.rows : ~IsDismissed(x)} BY ShownRows
  <2>2. reader.clear \subseteq Answer /\ reader.hidden \cap Answer = {} BY <2>1 DEF Loaded
  <2>3. ASSUME NEW x \in Answer, NEW y \in Answer, x # y, x.acct = y.acct, x.res = y.res
        PROVE  {x.scan, y.scan} \in crossed
    <3>1. x \in ZombieRow /\ y \in ZombieRow BY <2>1 DEF FindingsTypeOK, ReaderType
    <3>2. x.scan # y.scan BY <2>3, <3>1 DEF ZombieRow
    <3> QED BY <2>1, <2>3, <3>2 DEF Loaded
  <2> QED BY <2>2, <2>3 DEF CountedRightly
<1> QED BY <1>1, <1>2, <1>3, TypeCorrect, OfTables, BooksInvariant, PTL DEF FindingsSpec
------------------------------------------------------------------------------
(* The audit log: Init, Next and Spec are those of AuditTrail *)

\* Ids are drawn once: those of the log and of the rows about to be committed differ.
Drawn ==
    /\ \A row \in log : row.id <= lastId
    /\ \A w \in Writers : write[w].pc = "inserted" =>
         /\ write[w].row.id \in 1 .. lastId
         /\ \A row \in log : row.id # write[w].row.id
    /\ \A w, x \in Writers : w # x /\ write[w].pc = "inserted" /\ write[x].pc = "inserted" =>
         write[w].row.id # write[x].row.id

\* A walk v has shown rows in order, up to its cursor.  What was there at its first page, and
\* still matches, is in the log; it is behind the cursor or has been shown.
Shows(v) ==
    /\ Newest(v.shown)
    /\ v.pc \in {"first", "next"} => v.pages < MaxPages
    /\ v.pc = "first" => v.shown = <<>> /\ v.cursor = Zero
    /\ v.pc = "next" =>
         /\ v.cursor # Zero /\ Len(v.shown) > 0 /\ v.cursor = v.shown[Len(v.shown)]
         /\ \A x \in v.base \cap Keys(v.by) :
              Behind(x, v.cursor) \/ x \in ToSet(v.shown)
    /\ v.pc = "done" => v.base \cap Keys(v.by) \subseteq ToSet(v.shown)
    /\ v.base \subseteq {KeyOf(row) : row \in log}

AuditInv == TypeOK /\ Drawn /\ \A k \in Walks : Shows(walk[k])

LEMMA AuditTypes ==
    NoWalk \in WalkType /\ NoWrite \in WriteType /\ Zero \in Cursor
BY AuditAssumption DEF AuditAssumption, NoWalk, WalkType, NoWrite, WriteType,
       Zero, Cursor, Someone, Times

\* What ORDER BY and LIMIT promise of a page.
LEMMA PageFacts ==
    ASSUME NEW by, NEW cursor, NEW limit \in Nat \ {0},
           NEW page \in AuditLogList(by, cursor, limit)
    PROVE  /\ page \in Seq(Keys(by)) /\ Len(page) \in Nat /\ Len(page) <= limit
           /\ \A i \in DOMAIN page : page[i] \in Keys(by) /\ Behind(page[i], cursor)
           /\ Newest(page)
           /\ \A k \in Keys(by) : Behind(k, cursor) /\ k \notin ToSet(page) =>
                Len(page) = limit /\ Older(k, page[limit])
<1> DEFINE behind == {k \in Keys(by) : Behind(k, cursor)}
<1>1. page \in SeqOf(behind, limit) /\ Newest(page)
  BY DEF AuditLogList
<1>2. \A k \in behind \ ToSet(page) : Len(page) = limit /\ Older(k, page[limit])
  BY DEF AuditLogList
<1>3. behind \subseteq Keys(by) OBVIOUS
<1>4. \A k \in behind : Behind(k, cursor) OBVIOUS
<1> HIDE DEF behind
<1>5. PICK m \in 0 .. limit : page \in [1 .. m -> behind] BY <1>1 DEF SeqOf
<1>6. page \in Seq(Keys(by)) /\ Len(page) = m BY <1>3, <1>5
<1>7. \A i \in DOMAIN page : page[i] \in behind BY <1>5
<1> QED BY <1>1, <1>2, <1>3, <1>4, <1>5, <1>6, <1>7 DEF behind

\* Keys of the log are cursors, and none is the first page's.
LEMMA KeysTyped ==
    ASSUME TypeOK, NEW by PROVE Keys(by) \subseteq Cursor \ {Zero}
BY DEF TypeOK, Keys, KeyOf, Row, Cursor, Zero

\* The log has an order.
LEMMA OlderTransitive ==
    ASSUME NEW a \in Cursor, NEW b \in Cursor, NEW c \in Cursor,
           Older(a, b), Older(b, c)
    PROVE  Older(a, c)
BY AuditAssumption DEF Older, Cursor, Times, AuditAssumption

\* A page behind the last key shown goes on in order.
LEMMA NewestOn ==
    ASSUME NEW s \in Seq(Cursor), NEW p \in Seq(Cursor),
           Newest(s), Newest(p),
           Len(s) > 0 => \A i \in DOMAIN p : Older(p[i], s[Len(s)])
    PROVE  Newest(s \o p)
<1>1. /\ s \o p \in Seq(Cursor) /\ Len(s) \in Nat /\ Len(p) \in Nat
      /\ Len(s \o p) = Len(s) + Len(p)
      /\ DOMAIN (s \o p) = 1 .. Len(s) + Len(p) /\ DOMAIN s = 1 .. Len(s) /\ DOMAIN p = 1 .. Len(p)
      /\ \A i \in 1 .. Len(s) + Len(p) : (s \o p)[i] = IF i <= Len(s) THEN s[i] ELSE p[i - Len(s)]
  OBVIOUS
<1> SUFFICES ASSUME NEW i \in DOMAIN (s \o p), NEW j \in DOMAIN (s \o p), i < j
             PROVE  Older((s \o p)[j], (s \o p)[i])
  BY DEF Newest
<1>2. CASE j <= Len(s) BY <1>1, <1>2 DEF Newest
<1>3. CASE i > Len(s)
  <2>1. /\ i - Len(s) \in DOMAIN p /\ j - Len(s) \in DOMAIN p /\ i - Len(s) < j - Len(s)
        /\ (s \o p)[i] = p[i - Len(s)] /\ (s \o p)[j] = p[j - Len(s)]
    BY <1>1, <1>3
  <2> QED BY <2>1 DEF Newest
<1>4. CASE i <= Len(s) /\ j > Len(s)
  <2>1. /\ i \in DOMAIN s /\ Len(s) \in DOMAIN s /\ j - Len(s) \in DOMAIN p
        /\ (s \o p)[i] = s[i] /\ (s \o p)[j] = p[j - Len(s)]
    BY <1>1, <1>4
  <2>2. Older(p[j - Len(s)], s[Len(s)]) BY <1>1, <1>4, <2>1
  <2>3. i = Len(s) \/ Older(s[Len(s)], s[i])
    <3>1. i # Len(s) => i < Len(s) BY <1>1, <1>4
    <3> QED BY <2>1, <3>1 DEF Newest
  <2>4. s[i] \in Cursor /\ s[Len(s)] \in Cursor /\ p[j - Len(s)] \in Cursor
    BY <2>1
  <2> QED BY <2>1, <2>2, <2>3, <2>4, OlderTransitive
<1> QED BY <1>1, <1>2, <1>3, <1>4

\* ToSet of a longer sequence.
LEMMA ShownMore ==
    ASSUME NEW S, NEW s \in Seq(S), NEW p \in Seq(S)
    PROVE  ToSet(s \o p) = ToSet(s) \cup ToSet(p)
<1>1. /\ Len(s) \in Nat /\ Len(p) \in Nat
      /\ DOMAIN (s \o p) = 1 .. Len(s) + Len(p) /\ DOMAIN s = 1 .. Len(s) /\ DOMAIN p = 1 .. Len(p)
      /\ \A i \in 1 .. Len(s) + Len(p) : (s \o p)[i] = IF i <= Len(s) THEN s[i] ELSE p[i - Len(s)]
  OBVIOUS
<1>2. ASSUME NEW x \in ToSet(s \o p) PROVE x \in ToSet(s) \cup ToSet(p)
  <2>1. PICK i \in 1 .. Len(s) + Len(p) : x = (s \o p)[i] BY <1>1 DEF ToSet
  <2>2. CASE i <= Len(s) BY <1>1, <2>1, <2>2 DEF ToSet
  <2>3. CASE i > Len(s)
    <3>1. i - Len(s) \in 1 .. Len(p) /\ x = p[i - Len(s)] BY <1>1, <2>1, <2>3
    <3> QED BY <1>1, <3>1 DEF ToSet
  <2> QED BY <1>1, <2>2, <2>3
<1>3. ASSUME NEW x \in ToSet(s) PROVE x \in ToSet(s \o p)
  <2>1. PICK i \in 1 .. Len(s) : x = s[i] BY <1>1 DEF ToSet
  <2>2. i \in 1 .. Len(s) + Len(p) /\ x = (s \o p)[i] BY <1>1, <2>1
  <2> QED BY <1>1, <2>2 DEF ToSet
<1>4. ASSUME NEW x \in ToSet(p) PROVE x \in ToSet(s \o p)
  <2>1. PICK i \in 1 .. Len(p) : x = p[i] BY <1>1 DEF ToSet
  <2>2. i + Len(s) \in 1 .. Len(s) + Len(p) /\ x = (s \o p)[i + Len(s)] BY <1>1, <2>1
  <2> QED BY <1>1, <2>2 DEF ToSet
<1> QED BY <1>2, <1>3, <1>4

\* The log changes under the walks: what they began with stays, and nothing of it that no
\* longer matches does again.
LEMMA LogChanges ==
    ASSUME AuditInv, walk' = walk,
           {KeyOf(row) : row \in log} \subseteq {KeyOf(row) : row \in log}',
           \A by, x : x \in {KeyOf(row) : row \in log} /\ x \in Keys(by)' => x \in Keys(by)
    PROVE  \A k \in Walks : Shows(walk[k])'
<1> SUFFICES ASSUME NEW k \in Walks PROVE Shows(walk[k])' OBVIOUS
<1>1. Shows(walk[k]) BY DEF AuditInv
<1>2. walk'[k] = walk[k] OBVIOUS
<1>3. walk[k].base \subseteq {KeyOf(row) : row \in log}' BY <1>1 DEF Shows
<1>4. \A x \in walk[k].base \cap Keys(walk[k].by)' : x \in Keys(walk[k].by)
  BY <1>1 DEF Shows
<1> HIDE DEF Keys, KeyOf
<1> QED BY <1>1, <1>2, <1>3, <1>4 DEF Shows

\* Nothing of the log, and nothing of the walks.
LEMMA LogStays == ASSUME AuditInv, walk' = walk, log' = log PROVE \A k \in Walks : Shows(walk[k])'
<1>1. {KeyOf(row) : row \in log}' = {KeyOf(row) : row \in log} OBVIOUS
<1>2. \A by : Keys(by)' = Keys(by) BY DEF Keys
<1> QED BY <1>1, <1>2, LogChanges

\* Writing a row.
LEMMA WriteStep ==
    ASSUME AuditInv, NEW w \in Writers,
           \/ \E u \in Users : BeginRow(w, u)
           \/ InsertRow(w) \/ CommitRow(w) \/ WriteFails(w)
    PROVE  AuditInv'
<1>0. /\ TypeOK /\ Drawn /\ NoWrite \in WriteType /\ write[w] \in WriteType
      /\ lastId \in 0 .. MaxRows /\ MaxRows \in Nat /\ NoWrite.pc = "idle"
  BY AuditAssumption, AuditTypes DEF AuditInv, TypeOK, AuditAssumption, NoWrite
<1>1. CASE \E u \in Users : BeginRow(w, u)
  <2>1. PICK u \in Users : BeginRow(w, u) BY <1>1
  <2> DEFINE q == [pc |-> "begun", row |-> [id |-> 0, at |-> now, user |-> u,
                   email |-> Named(w, u), name |-> Named(w, u)]]
  <2>2. q \in WriteType /\ q.pc = "begun"
    BY <1>0 DEF TypeOK, WriteType, Someone, Times, Named
  <2>3. write' = [write EXCEPT ![w] = q] BY <2>1 DEF BeginRow
  <2>4. UNCHANGED <<users, log, walk, now, lastId>> BY <2>1 DEF BeginRow
  <2> HIDE DEF q
  <2>5. TypeOK' BY <1>0, <2>2, <2>3, <2>4 DEF TypeOK, Times
  <2>6. Drawn' BY <1>0, <2>2, <2>3, <2>4 DEF Drawn, TypeOK
  <2> QED BY <2>4, <2>5, <2>6, LogStays DEF AuditInv
<1>2. CASE InsertRow(w)
  <2> DEFINE o == write[w]
             row == [o.row EXCEPT !.id = lastId + 1]
             q == [o EXCEPT !.pc = "inserted", !.row = row]
  <2>1. /\ lastId' = lastId + 1 /\ lastId + 1 \in 1 .. MaxRows
        /\ UNCHANGED <<users, log, walk, now>>
    BY <1>0, <1>2 DEF InsertRow
  <2>2. q \in WriteType /\ q.pc = "inserted" /\ q.row.id = lastId + 1
    <3>1. o.row \in [id : 0 .. MaxRows, at : Times, user : Someone,
                     email : Someone, name : Someone]
      BY <1>0 DEF WriteType
    <3>2. /\ row \in [id : 0 .. MaxRows, at : Times, user : Someone,
                      email : Someone, name : Someone]
          /\ row.id = lastId + 1
      BY <1>0, <2>1, <3>1
    <3> HIDE DEF row
    <3> QED BY <1>0, <3>2 DEF WriteType
  <2>3. write' = [write EXCEPT ![w] = q] BY <1>2, <2>1 DEF InsertRow
  <2> HIDE DEF q
  <2>4. TypeOK' BY <1>0, <2>1, <2>2, <2>3 DEF TypeOK, Times
  <2>5. Drawn'
    <3>1. \A r \in log : r.id \in Nat BY <1>0 DEF TypeOK, Row
    <3> QED BY <1>0, <2>1, <2>2, <2>3, <3>1 DEF Drawn, TypeOK
  <2> QED BY <2>1, <2>4, <2>5, LogStays DEF AuditInv
<1>3. CASE CommitRow(w)
  <2> DEFINE new == write[w].row
  <2>1. /\ write[w].pc = "inserted" /\ log' = log \cup {new}
        /\ write' = [write EXCEPT ![w] = NoWrite]
        /\ UNCHANGED <<users, walk, now, lastId>>
    BY <1>3 DEF CommitRow
  <2>2. /\ new.id \in 1 .. lastId /\ \A row \in log : row.id # new.id
        /\ \A x \in Writers \ {w} : write[x].pc = "inserted" => write[x].row.id # new.id
    BY <1>0, <2>1 DEF Drawn
  <2>3. new \in Row BY <1>0, <2>2 DEF WriteType, Row
  <2>4. TypeOK' BY <1>0, <2>1, <2>3 DEF TypeOK, Times
  <2>5. Drawn' BY <1>0, <2>1, <2>2 DEF Drawn, TypeOK
  <2>6. {KeyOf(row) : row \in log} \subseteq {KeyOf(row) : row \in log}'
    BY <2>1 DEF KeyOf
  <2>7. \A by, x : x \in {KeyOf(row) : row \in log} /\ x \in Keys(by)'
                     => x \in Keys(by)
    <3>1. \A row \in log : KeyOf(row) # KeyOf(new) BY <2>2 DEF KeyOf
    <3> QED BY <2>1, <3>1 DEF Keys, Matches
  <2> QED BY <2>1, <2>4, <2>5, <2>6, <2>7, LogChanges DEF AuditInv
<1>4. CASE WriteFails(w)
  <2>1. write' = [write EXCEPT ![w] = NoWrite] /\ UNCHANGED <<users, log, walk, now, lastId>>
    BY <1>4 DEF WriteFails
  <2>2. TypeOK' BY <1>0, <2>1 DEF TypeOK, Times
  <2>3. Drawn' BY <1>0, <2>1 DEF Drawn, TypeOK
  <2> QED BY <2>1, <2>2, <2>3, LogStays DEF AuditInv
<1> QED BY <1>1, <1>2, <1>3, <1>4

\* An erasure changes whose the rows are, and no key.
LEMMA EraseStep ==
    ASSUME AuditInv, NEW u \in Users, DeleteUser(u)
    PROVE  AuditInv'
<1> DEFINE Erased(row) == IF row.user = u THEN [row EXCEPT !.user = NoUser, !.email = NoUser] ELSE row
<1>0. TypeOK /\ Drawn BY DEF AuditInv
<1>1. /\ log' = {Erased(row) : row \in log} /\ users' \subseteq Users
      /\ UNCHANGED <<write, walk, now, lastId>>
  BY <1>0 DEF DeleteUser, TypeOK
<1>2. \A row \in Row : /\ Erased(row) \in Row /\ Erased(row).id = row.id
                             /\ Erased(row).at = row.at
                             /\ Erased(row).user \in {row.user, NoUser}
  BY DEF Row, Someone
<1> HIDE DEF Erased
<1>3. log \subseteq Row BY <1>0 DEF TypeOK
<1>4. TypeOK' BY <1>0, <1>1, <1>2, <1>3 DEF TypeOK, Times
<1>5. Drawn' BY <1>0, <1>1, <1>2, <1>3 DEF Drawn
<1>6. \A row \in log : KeyOf(Erased(row)) = KeyOf(row)
  BY <1>2, <1>3 DEF KeyOf
<1>7. {KeyOf(row) : row \in log} \subseteq {KeyOf(row) : row \in log}'
  <2>1. \A row \in log : \E r \in log' : KeyOf(r) = KeyOf(row) BY <1>1, <1>6
  <2> QED BY <2>1 DEF KeyOf
<1>8. ASSUME NEW by, NEW x, x \in Keys(by)' PROVE x \in Keys(by)
  <2>1. PICK r \in log' : Matches(r, by) /\ x = KeyOf(r)
    BY <1>8 DEF Keys, Matches, KeyOf
  <2>2. PICK row \in log : r = Erased(row) BY <1>1, <2>1
  <2>3. Matches(row, by) BY <1>2, <1>3, <2>1, <2>2 DEF Matches
  <2> QED BY <1>6, <2>1, <2>2, <2>3 DEF Keys
<1> QED BY <1>1, <1>4, <1>5, <1>7, <1>8, LogChanges DEF AuditInv

\* A walk becomes v.
LEMMA WalkStep ==
    ASSUME AuditInv, NEW k \in Walks, NEW v \in WalkType, Shows(v),
           walk' = [walk EXCEPT ![k] = v], UNCHANGED <<users, log, write, now, lastId>>
    PROVE  AuditInv'
<1>0. TypeOK /\ Drawn BY DEF AuditInv
<1>1. TypeOK' BY <1>0 DEF TypeOK, Times
<1>2. Drawn' BY <1>0 DEF Drawn
<1>3. ASSUME NEW o, Shows(o) PROVE Shows(o)'
  BY <1>3 DEF Shows, Keys
<1>4. ASSUME NEW j \in Walks PROVE Shows(walk[j])'
  <2>1. PICK o : o = IF j = k THEN v ELSE walk[j] OBVIOUS
  <2>2. walk'[j] = o BY <1>0, <2>1 DEF TypeOK
  <2>3. Shows(o) BY <2>1 DEF AuditInv
  <2>4. Shows(o)' BY <1>3, <2>3
  <2> QED BY <2>2, <2>4, Zenon
<1> QED BY <1>1, <1>2, <1>4 DEF AuditInv

\* A walk begins or is left.
LEMMA BeginStep ==
    ASSUME AuditInv, NEW k \in Walks,
           StartWalk(k) \/ LeaveWalk(k)
    PROVE  AuditInv'
<1>0. /\ NoWalk \in WalkType /\ NoWalk.pc = "idle" /\ NoWalk.pages = 0
      /\ NoWalk.shown = <<>> /\ NoWalk.base = {} /\ NoWalk.cursor = Zero
  BY AuditTypes DEF NoWalk
<1>1. Newest(<<>>) BY DEF Newest
<1>2. MaxPages \in Nat \ {0} /\ ExportLimit \in 1 .. MaxLimit BY AuditAssumption DEF AuditAssumption
<1>3. ASSUME NEW v \in WalkType, v.pc \in {"idle", "first"}, v.shown = <<>>, v.base = {},
             v.pages = 0, v.cursor = Zero
      PROVE  Shows(v)
  BY <1>1, <1>2, <1>3 DEF Shows
<1>4. CASE LeaveWalk(k)
  <2>1. Shows(NoWalk) BY <1>0, <1>3
  <2> QED BY <1>0, <1>4, <2>1, WalkStep DEF LeaveWalk
<1>5. ASSUME NEW limit \in 1 .. MaxLimit, NEW by \in Someone,
             walk' = [walk EXCEPT ![k] =
                        [NoWalk EXCEPT !.pc = "first", !.limit = limit, !.by = by]],
             UNCHANGED <<users, log, write, now, lastId>>
      PROVE  AuditInv'
  <2> DEFINE v == [NoWalk EXCEPT !.pc = "first", !.limit = limit, !.by = by]
  <2>1. /\ v \in WalkType /\ v.pc = "first" /\ v.shown = <<>> /\ v.base = {} /\ v.pages = 0
        /\ v.cursor = Zero
    BY <1>0 DEF WalkType
  <2> HIDE DEF v
  <2>2. Shows(v) BY <1>3, <2>1
  <2> QED BY <1>5, <2>1, <2>2, WalkStep DEF v
<1>6. CASE /\ walk' = [walk EXCEPT ![k] =
                         [NoWalk EXCEPT !.pc = "first", !.limit = ExportLimit, !.export = TRUE]]
           /\ UNCHANGED <<users, log, write, now, lastId>>
  <2> DEFINE v == [NoWalk EXCEPT !.pc = "first", !.limit = ExportLimit, !.export = TRUE]
  <2>1. /\ v \in WalkType /\ v.pc = "first" /\ v.shown = <<>> /\ v.base = {} /\ v.pages = 0
        /\ v.cursor = Zero
    BY <1>0, <1>2 DEF WalkType
  <2> HIDE DEF v
  <2>2. Shows(v) BY <1>3, <2>1
  <2> QED BY <1>6, <2>1, <2>2, WalkStep DEF v
<1> QED BY <1>4, <1>5, <1>6 DEF StartWalk

\* A page shows what is behind the cursor, or moves the cursor to before it.
LEMMA PageStep ==
    ASSUME AuditInv, NEW k \in Walks, ReadPage(k)
    PROVE  AuditInv'
<1> DEFINE v == walk[k]
<1>0. /\ TypeOK /\ v \in WalkType /\ Shows(v) /\ v.pc \in {"first", "next"}
      /\ MaxLimit \in Nat /\ MaxPages \in Nat
  BY AuditAssumption DEF AuditInv, TypeOK, ReadPage, AuditAssumption
<1> DEFINE pages == IF v.export THEN v.pages + 1 ELSE 0
<1>1. PICK page \in AuditLogList(v.by, v.cursor, v.limit) :
        LET cursor == NextCursor(page, v.limit)
        IN  walk' = [walk EXCEPT ![k] = [v EXCEPT
              !.pc     = IF cursor = Zero THEN "done"
                         ELSE IF v.export /\ Truncates(pages) THEN "truncated" ELSE "next",
              !.cursor = cursor,
              !.pages  = pages,
              !.shown  = @ \o page,
              !.base   = IF v.pc = "first" THEN Keys(v.by) ELSE @]]
  BY DEF ReadPage
<1> DEFINE cursor == NextCursor(page, v.limit)
           pc     == IF cursor = Zero THEN "done"
                     ELSE IF v.export /\ Truncates(pages) THEN "truncated" ELSE "next"
           shown  == v.shown \o page
           base   == IF v.pc = "first" THEN Keys(v.by) ELSE v.base
           n      == [v EXCEPT !.pc = pc, !.cursor = cursor, !.pages = pages, !.shown = shown,
                               !.base = base]
<1>2. walk' = [walk EXCEPT ![k] = n] BY <1>1
<1>3. /\ v.limit \in Nat \ {0} /\ v.shown \in Seq(Cursor) /\ v.cursor \in Cursor
      /\ v.base \subseteq Cursor /\ v.pages \in 0 .. MaxPages /\ v.export \in BOOLEAN
  BY <1>0 DEF WalkType
<1>4. /\ page \in Seq(Keys(v.by)) /\ Len(page) \in Nat /\ Len(page) <= v.limit
      /\ \A i \in DOMAIN page : page[i] \in Keys(v.by) /\ Behind(page[i], v.cursor)
      /\ Newest(page)
      /\ \A x \in Keys(v.by) : Behind(x, v.cursor) /\ x \notin ToSet(page) =>
           Len(page) = v.limit /\ Older(x, page[v.limit])
  BY <1>3, PageFacts
<1>5. Keys(v.by) \subseteq Cursor \ {Zero} BY <1>0, KeysTyped
<1>6. page \in Seq(Cursor) BY <1>4, <1>5
<1>7. shown \in Seq(Cursor) /\ ToSet(shown) = ToSet(v.shown) \cup ToSet(page)
  BY <1>3, <1>6, ShownMore
<1>8. /\ cursor \in Cursor
      /\ IF Len(page) = v.limit THEN cursor = page[v.limit] /\ cursor # Zero
                                ELSE cursor = Zero
  <2>1. CASE Len(page) = v.limit
    <3>1. v.limit \in DOMAIN page BY <1>3, <1>4, <2>1
    <3> QED BY <1>4, <1>5, <2>1, <3>1 DEF NextCursor
  <2>2. CASE Len(page) # v.limit BY <2>2, AuditTypes DEF NextCursor
  <2> QED BY <2>1, <2>2
<1>9. pages \in 0 .. MaxPages /\ (pc = "next" => pages < MaxPages)
  BY AuditAssumption, <1>0, <1>3 DEF Shows, Truncates, AuditAssumption
<1>10. /\ base \subseteq Cursor /\ base \subseteq {KeyOf(row) : row \in log}
  BY <1>0, <1>3, <1>5 DEF Shows, Keys
<1>11. Newest(shown)
  <2>1. Len(v.shown) > 0 => \A i \in DOMAIN page : Older(page[i], v.shown[Len(v.shown)])
    BY <1>0, <1>4 DEF Shows, Behind
  <2>2. Newest(v.shown) BY <1>0 DEF Shows
  <2> QED BY <1>3, <1>4, <1>6, <2>1, <2>2, NewestOn
<1>12. \A x \in base \cap Keys(v.by) :
         Behind(x, v.cursor) \/ x \in ToSet(v.shown)
  BY <1>0 DEF Shows, Behind
<1>13. \A x \in base \cap Keys(v.by) :
         \/ x \in ToSet(shown)
         \/ cursor # Zero /\ Behind(x, cursor)
  BY <1>4, <1>7, <1>8, <1>12 DEF Behind
<1>14. cursor # Zero => Len(shown) > 0 /\ cursor = shown[Len(shown)]
  <2>1. Len(v.shown) \in Nat /\ Len(shown) = Len(v.shown) + Len(page) BY <1>3, <1>6
  <2>2. Len(page) > 0 => shown[Len(shown)] = page[Len(page)] BY <1>3, <1>4, <1>6, <2>1
  <2> QED BY <1>3, <1>4, <1>8, <2>1, <2>2
<1>15. pc \in {"next", "done", "truncated"} /\ (pc = "next" => cursor # Zero)
       /\ (pc = "done" => cursor = Zero)
  OBVIOUS
<1> HIDE DEF cursor, pc, shown, base, pages
<1>16. n \in WalkType BY <1>0, <1>7, <1>8, <1>9, <1>10, <1>15 DEF WalkType
<1>17. /\ n.pc = pc /\ n.cursor = cursor /\ n.pages = pages /\ n.shown = shown /\ n.base = base
       /\ n.by = v.by
  BY <1>0 DEF WalkType
<1> HIDE DEF n
<1>18. Shows(n)
  BY <1>9, <1>10, <1>11, <1>13, <1>14, <1>15, <1>17 DEF Shows
<1>19. UNCHANGED <<users, log, write, now, lastId>> BY DEF ReadPage
<1> QED BY <1>2, <1>16, <1>18, <1>19, WalkStep

LEMMA AuditInit == ASSUME Init PROVE AuditInv
<1>1. TypeOK
  BY AuditAssumption, AuditTypes DEF Init, TypeOK, Times, AuditAssumption
<1>2. Drawn BY DEF Drawn, Init, NoWrite
<1>3. \A k \in Walks : Shows(walk[k])
  BY DEF Shows, Init, NoWalk, Newest
<1> QED BY <1>1, <1>2, <1>3 DEF AuditInv

LEMMA AuditNext ==
    ASSUME AuditInv, [Next]_vars PROVE AuditInv'
<1>1. CASE Tick \/ UNCHANGED vars
  <2>1. UNCHANGED <<users, log, write, walk, lastId>> /\ now' \in Times
    BY AuditAssumption, <1>1 DEF Tick, vars, AuditInv, TypeOK, Times, AuditAssumption
  <2>2. TypeOK' BY <2>1 DEF AuditInv, TypeOK, Times
  <2>3. Drawn' BY <2>1 DEF AuditInv, Drawn
  <2> QED BY <2>1, <2>2, <2>3, LogStays DEF AuditInv
<1> QED BY <1>1, WriteStep, EraseStep, BeginStep, PageStep DEF Next

LEMMA AuditInvariance == Spec => []AuditInv
<1>1. Init => AuditInv BY AuditInit
<1>2. AuditInv /\ [Next]_vars => AuditInv' BY AuditNext
<1> QED BY <1>1, <1>2, PTL DEF Spec

\* The audit log, the writes in flight and the walks keep their types.
THEOREM AuditTypeCorrect == Spec => []TypeOK
BY AuditInvariance, PTL DEF AuditInv

\* A walk that has ended has shown all that was there and still matches, in order and once.
THEOREM WalksComplete == Spec => []WalkComplete
<1>1. AuditInv => WalkComplete BY DEF AuditInv, Shows, WalkComplete
<1> QED BY <1>1, AuditInvariance, PTL
==============================================================================
