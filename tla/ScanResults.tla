----------------------------- MODULE ScanResults -----------------------------
(***************************************************************************)
(* What a scan writes once AWS has answered: cost records, zombie records, *)
(* a snapshot and its breakdown, the notifications, resource records, each *)
(* in a transaction of its own; with the channels' administration and the  *)
(* deletion of the account next to it.  Scans of one account may overlap   *)
(* (a manual and a scheduled one, a job executed twice).                   *)
(*                                                                         *)
(* A replacing transaction is two steps, since at READ COMMITTED its       *)
(* DELETE sees the rows committed when it starts, and not those another    *)
(* scan commits before it does.  The foreign keys are those of the         *)
(* migrations 031 and 040.                                                 *)
(*                                                                         *)
(* Left out: amounts (a finding saves one unit), labels, encrypted         *)
(* configurations, kinds of channels (the API admits only those that have  *)
(* a transport), the removal of rows that are months old.                  *)
(***************************************************************************)
EXTENDS Integers, FiniteSets

CONSTANTS
    Accounts,
    Resources,
    Channels,
    Scans,        \* the executions of scans; each is of one account
    NoScan, NoChannel,
    Gate,         \* min_monthly_savings_usd of each channel
    MaxFaults,    \* bound: crashes, timeouts and failed statements
    MaxEvents     \* bound: those, and what users do meanwhile

ASSUME ResultsAssumption ==
    /\ Gate \in [Channels -> Nat] /\ MaxFaults \in Nat /\ MaxEvents \in Nat
    /\ NoScan \notin Scans /\ NoChannel \notin Channels

VARIABLES
    account,      \* the accounts that have a row
    costs, zombies, resources, snapshots, breakdowns, dispatches,   \* tables
    channel,      \* a channel's row: never made, disabled, enabled or deleted
    scan, request,
    messages,     \* what channels still there have been sent
    faults, requests

tables == <<costs, zombies, resources, snapshots, breakdowns, dispatches>>
resultVars == <<account, tables, channel, scan, request, messages, faults, requests>>
------------------------------------------------------------------------------
CostRow     == [acct : Accounts, res : Resources]
ZombieRow   == [acct : Accounts, res : Resources, scan : Scans]
ResourceRow == [acct : Accounts, res : Resources, scan : Scans, isZombie : BOOLEAN]
Snapshot    == [scan : Scans, acct : Accounts, count : Nat]
Dispatch    == [channel : Channels, scan : Scans \cup {NoScan}, sent : BOOLEAN]
Message     == [channel : Channels, scan : Scans \cup {NoScan}, count : Nat]

Running == {"costs", "zombies", "insertzombies", "snapshot", "breakdown", "list", "dispatch",
            "record", "insertresources"}

\* billed, found: the resources with a line item and the zombies; seen: what its DELETE
\* has seen; todo, at, sent: the channels to notify, the one it is at, how that went; alone:
\* no other scan of the account has been running since it began (history).
ScanType == [pc : Running \cup {"idle", "done", "failed"}, acct : Accounts,
             billed : SUBSET Resources, found : SUBSET Resources,
             seen : SUBSET (ZombieRow \cup ResourceRow), todo : SUBSET Channels,
             at : Channels \cup {NoChannel}, sent : BOOLEAN, alone : BOOLEAN]

\* An administrator's PATCH between its read and its upsert, or a test between its message
\* and its row.
RequestType == [op : {"none", "patch", "test"}, channel : Channels \cup {NoChannel},
                on : BOOLEAN]
NoRequest == [op |-> "none", channel |-> NoChannel, on |-> FALSE]

ResultsTypeOK ==
    /\ account \subseteq Accounts
    /\ costs \subseteq CostRow /\ zombies \subseteq ZombieRow /\ resources \subseteq ResourceRow
    /\ snapshots \subseteq Snapshot /\ breakdowns \subseteq Scans
    /\ dispatches \subseteq Dispatch /\ messages \subseteq Message
    /\ channel \in [Channels -> {"none", "off", "on", "deleted"}]
    /\ scan \in [Scans -> ScanType]
    /\ request \in RequestType
    /\ faults \in 0 .. MaxFaults /\ requests \in 0 .. MaxEvents

Of(rows, a) == {row \in rows : row.acct = a}
There(c)    == channel[c] \in {"off", "on"}
At(s, pc)   == scan[s].pc = pc
Goto(s, pc) == scan' = [scan EXCEPT ![s].pc = pc]

\* What scan s saves.  AnnotateAll: the line items and the zombies, those marked.
ZombiesOf(s) == [acct : {scan[s].acct}, res : scan[s].found, scan : {s}]
AnnotateAll(s) ==
    {[acct |-> scan[s].acct, res |-> r, scan |-> s, isZombie |-> r \in scan[s].found] :
        r \in scan[s].billed \cup scan[s].found}

ResultsInit ==
    /\ account = Accounts
    /\ costs = {} /\ zombies = {} /\ resources = {} /\ snapshots = {} /\ breakdowns = {}
    /\ dispatches = {} /\ messages = {}
    /\ channel \in [Channels -> {"none", "on"}]
    /\ scan \in [Scans -> {[pc |-> "idle", acct |-> a, billed |-> {}, found |-> {},
                             seen |-> {}, todo |-> {}, at |-> NoChannel, sent |-> FALSE,
                             alone |-> FALSE] : a \in Accounts}]
    /\ request = NoRequest
    /\ faults = 0 /\ requests = 0
------------------------------------------------------------------------------
\* AWS has answered.  The line items, of all providers that did not fail.
Billed == SUBSET Resources

\* The zombies, billed or not, among what the discoverers that did not fail have found.
Discovered == {found \in SUBSET Resources : IsFiniteSet(found)}

Begin(s) ==
    LET others == {t \in Scans \ {s} : scan[t].acct = scan[s].acct /\ scan[t].pc # "idle"}
    IN  /\ At(s, "idle") /\ scan[s].acct \in account
        /\ \E billed \in Billed, found \in Discovered :
             scan' = [t \in Scans |->
                CASE t = s -> [scan[s] EXCEPT !.pc = "costs", !.billed = billed, !.found = found,
                                   !.alone = \A o \in others : scan[o].pc \notin Running]
                  [] t \in others -> [scan[t] EXCEPT !.alone = FALSE]
                  [] OTHER -> scan[t]]
        /\ UNCHANGED <<account, tables, channel, request, messages, faults, requests>>

\* Mutant: before migration 040.
DanglingChannel(s) == At(s, "record") /\ ~There(scan[s].at)

\* A row that s is about to insert refers to one that is gone.
Dangling(s) ==
    \/ /\ scan[s].acct \notin account
       /\ \/ At(s, "costs") /\ scan[s].billed # {}
          \/ At(s, "breakdown") /\ scan[s].found # {}
          \/ scan[s].pc \in {"insertzombies", "snapshot", "record", "insertresources"}
    \/ At(s, "record") /\ ~There(scan[s].at)

\* Save: an upsert, which finds the rows of the earlier scans.  SaveZombies returns at once
\* when there is nothing to save ...
SaveCosts(s) ==
    /\ At(s, "costs") /\ ~Dangling(s)
    /\ costs' = costs \cup [acct : {scan[s].acct}, res : scan[s].billed]
    /\ Goto(s, IF scan[s].found = {} THEN "snapshot" ELSE "zombies")
    /\ UNCHANGED <<account, zombies, resources, snapshots, breakdowns, dispatches, channel,
                   request, messages, faults, requests>>

\* ... or begins with its DELETE ...
ClearZombies(s) ==
    /\ At(s, "zombies")
    /\ scan' = [scan EXCEPT ![s].pc = "insertzombies", ![s].seen = Of(zombies, scan[s].acct)]
    /\ UNCHANGED <<account, tables, channel, request, messages, faults, requests>>

\* Mutant: nothing is deleted.
SaveZombiesTwice(s) ==
    /\ At(s, "insertzombies") /\ ~Dangling(s)
    /\ zombies' = zombies \cup ZombiesOf(s)
    /\ scan' = [scan EXCEPT ![s].pc = "snapshot", ![s].seen = {}]
    /\ UNCHANGED <<account, costs, resources, snapshots, breakdowns, dispatches, channel,
                   request, messages, faults, requests>>

\* ... INSERT and COMMIT.
SaveZombies(s) ==
    /\ At(s, "insertzombies") /\ ~Dangling(s)
    /\ zombies' = (zombies \ scan[s].seen) \cup ZombiesOf(s)
    /\ scan' = [scan EXCEPT ![s].pc = "snapshot", ![s].seen = {}]
    /\ UNCHANGED <<account, costs, resources, snapshots, breakdowns, dispatches, channel,
                   request, messages, faults, requests>>

SaveSnapshot(s) ==
    /\ At(s, "snapshot") /\ ~Dangling(s)
    /\ snapshots' = snapshots \cup
         {[scan |-> s, acct |-> scan[s].acct, count |-> Cardinality(scan[s].found)]}
    /\ Goto(s, "breakdown")
    /\ UNCHANGED <<account, costs, zombies, resources, breakdowns, dispatches, channel,
                   request, messages, faults, requests>>

SaveSnapshotServices(s) ==
    /\ At(s, "breakdown") /\ ~Dangling(s)
    /\ breakdowns' = IF scan[s].found = {} THEN breakdowns ELSE breakdowns \cup {s}
    /\ Goto(s, "list")
    /\ UNCHANGED <<account, costs, zombies, resources, snapshots, dispatches, channel,
                   request, messages, faults, requests>>

\* ListEnabledNotificationChannels.  Below its gate nothing is written for a channel.
DispatchForScan(s) ==
    /\ At(s, "list")
    /\ scan' = [scan EXCEPT ![s].pc = "dispatch",
           ![s].todo = {c \in Channels : channel[c] = "on" /\ Cardinality(scan[s].found) >= Gate[c]}]
    /\ UNCHANGED <<account, tables, channel, request, messages, faults, requests>>

\* The messages to channel c after one that may have arrived.
Sent(c, of, count, arrives) ==
    IF arrives /\ There(c)
    THEN messages \cup {[channel |-> c, scan |-> of, count |-> count]}
    ELSE messages

\* transport.Send.  Its timeout may end a call whose message arrives.
Send(s) ==
    /\ At(s, "dispatch")
    /\ \E c \in scan[s].todo, sent, arrives \in BOOLEAN :
         /\ sent => arrives
         /\ messages' = Sent(c, s, Cardinality(scan[s].found), arrives)
         /\ scan' = [scan EXCEPT ![s].pc = "record", ![s].todo = @ \ {c}, ![s].at = c,
                                 ![s].sent = sent]
    /\ UNCHANGED <<account, tables, channel, request, faults, requests>>

\* Mutant: a failed send leaves no row.
RecordSent(s) ==
    /\ At(s, "record") /\ ~Dangling(s)
    /\ dispatches' = IF ~scan[s].sent THEN dispatches ELSE dispatches \cup
         {[channel |-> scan[s].at, scan |-> s, sent |-> scan[s].sent]}
    /\ scan' = [scan EXCEPT ![s].pc = "dispatch", ![s].at = NoChannel, ![s].sent = FALSE]
    /\ UNCHANGED <<account, costs, zombies, resources, snapshots, breakdowns, channel,
                   request, messages, faults, requests>>

\* SaveNotificationDispatch.
Record(s) ==
    /\ At(s, "record") /\ ~Dangling(s)
    /\ dispatches' = dispatches \cup
         {[channel |-> scan[s].at, scan |-> s, sent |-> scan[s].sent]}
    /\ scan' = [scan EXCEPT ![s].pc = "dispatch", ![s].at = NoChannel, ![s].sent = FALSE]
    /\ UNCHANGED <<account, costs, zombies, resources, snapshots, breakdowns, channel,
                   request, messages, faults, requests>>

\* SaveResources deletes for the accounts that occur in what it is given.
ClearResources(s) ==
    /\ At(s, "dispatch") /\ scan[s].todo = {}
    /\ scan' = [scan EXCEPT ![s].pc = IF AnnotateAll(s) = {} THEN "done" ELSE "insertresources",
                            ![s].seen = IF AnnotateAll(s) = {} THEN {}
                                        ELSE Of(resources, scan[s].acct)]
    /\ UNCHANGED <<account, tables, channel, request, messages, faults, requests>>

SaveResources(s) ==
    /\ At(s, "insertresources") /\ ~Dangling(s)
    /\ resources' = (resources \ scan[s].seen) \cup AnnotateAll(s)
    /\ scan' = [scan EXCEPT ![s].pc = "done", ![s].billed = {}, ![s].seen = {}]
    /\ UNCHANGED <<account, costs, zombies, snapshots, breakdowns, dispatches, channel,
                   request, messages, faults, requests>>

\* A statement of scan s fails, because of a foreign key or by a fault ...
Fault(s) ==
    \/ Dangling(s) /\ UNCHANGED faults
    \/ ~Dangling(s) /\ faults < MaxFaults /\ faults + requests < MaxEvents /\ faults' = faults + 1

\* ... and the scan with it, as with its deadline or its process ...
ScanFails(s) ==
    /\ scan[s].pc \in Running /\ Fault(s)
    /\ (Dangling(s) => scan[s].pc \in {"costs", "insertzombies", "insertresources"})
    /\ scan' = [scan EXCEPT ![s].pc = "failed", ![s].billed = {}, ![s].seen = {}, ![s].todo = {},
                            ![s].at = NoChannel, ![s].sent = FALSE]
    /\ UNCHANGED <<account, tables, channel, request, messages, requests>>

\* ... or it is only logged.
StepFails(s) ==
    /\ Fault(s)
    /\ \/ /\ scan[s].pc \in {"snapshot", "list"}
          /\ Goto(s, "dispatch")
       \/ /\ At(s, "breakdown")
          /\ Goto(s, "list")
       \/ /\ At(s, "record")
          /\ scan' = [scan EXCEPT ![s].pc = "dispatch", ![s].at = NoChannel, ![s].sent = FALSE]
    /\ UNCHANGED <<account, tables, channel, request, messages, requests>>
------------------------------------------------------------------------------
\* A user does something.
Request == faults + requests < MaxEvents /\ requests' = requests + 1

\* DeleteAccount, with the cascades.
DeleteAccount(a) ==
    /\ Request
    /\ a \in account
    /\ account' = account \ {a}
    /\ costs' = costs \ Of(costs, a)
    /\ zombies' = zombies \ Of(zombies, a)
    /\ resources' = resources \ Of(resources, a)
    /\ snapshots' = snapshots \ Of(snapshots, a)
    /\ breakdowns' = {s \in breakdowns : scan[s].acct # a}
    /\ UNCHANGED <<dispatches, channel, scan, request, messages, faults>>

CreateChannel(c) ==
    /\ Request
    /\ channel[c] = "none"
    /\ \E on \in BOOLEAN : channel' = [channel EXCEPT ![c] = IF on THEN "on" ELSE "off"]
    /\ UNCHANGED <<account, tables, scan, request, messages, faults>>

\* updateChannel reads the row ...
ReadChannel(c) ==
    /\ Request
    /\ request = NoRequest /\ There(c)
    /\ \E on \in BOOLEAN : request' = [op |-> "patch", channel |-> c, on |-> on]
    /\ UNCHANGED <<account, tables, channel, scan, messages, faults>>

\* ... and upserts it: a channel deleted in between is back.
UpdateChannel ==
    /\ request.op = "patch"
    /\ channel' = [channel EXCEPT ![request.channel] = IF request.on THEN "on" ELSE "off"]
    /\ request' = NoRequest
    /\ UNCHANGED <<account, tables, scan, messages, faults, requests>>

\* Its dispatch rows go with it.
DeleteChannel(c) ==
    /\ Request
    /\ There(c)
    /\ channel' = [channel EXCEPT ![c] = "deleted"]
    /\ dispatches' = {d \in dispatches : d.channel # c}
    /\ messages' = {m \in messages : m.channel # c}
    /\ UNCHANGED <<account, costs, zombies, resources, snapshots, breakdowns, scan, request, faults>>

\* testChannel sends, enabled or not ...
TestChannel(c) ==
    /\ Request
    /\ request = NoRequest /\ There(c)
    /\ \E sent, arrives \in BOOLEAN :
         /\ sent => arrives
         /\ messages' = Sent(c, NoScan, 0, arrives)
         /\ request' = [op |-> "test", channel |-> c, on |-> sent]
    /\ UNCHANGED <<account, tables, channel, scan, faults>>

\* ... and records.
RecordTest ==
    /\ request.op = "test" /\ There(request.channel)
    /\ dispatches' = dispatches \cup
         {[channel |-> request.channel, scan |-> NoScan, sent |-> request.on]}
    /\ request' = NoRequest
    /\ UNCHANGED <<account, costs, zombies, resources, snapshots, breakdowns, channel, scan,
                   messages, faults, requests>>

\* Any of these fails or is given up before its last statement.
RequestFails ==
    /\ request # NoRequest
    /\ \/ request.op = "test" /\ ~There(request.channel) /\ UNCHANGED faults
       \/ faults < MaxFaults /\ faults + requests < MaxEvents /\ faults' = faults + 1
    /\ request' = NoRequest
    /\ UNCHANGED <<account, tables, channel, scan, messages, requests>>

ScanStep(s) ==
    \/ Begin(s) \/ SaveCosts(s) \/ ClearZombies(s) \/ SaveZombies(s)
    \/ SaveSnapshot(s) \/ SaveSnapshotServices(s)
    \/ DispatchForScan(s) \/ Send(s) \/ Record(s) \/ ClearResources(s) \/ SaveResources(s) \/ ScanFails(s) \/ StepFails(s)

ChannelStep ==
    \/ \E c \in Channels : CreateChannel(c) \/ ReadChannel(c) \/ DeleteChannel(c) \/ TestChannel(c)
    \/ UpdateChannel \/ RecordTest \/ RequestFails
------------------------------------------------------------------------------
\* A deleted account leaves no row behind, and no scan that was under way brings one back.
\* (the foreign keys of migration 040, which the code relies on)
DeletedLeavesNothing ==
    \A a \in Accounts \ account :
        /\ Of(costs, a) = {} /\ Of(zombies, a) = {} /\ Of(resources, a) = {}
        /\ Of(snapshots, a) = {} /\ \A s \in breakdowns : scan[s].acct # a

\* After a scan that ended well and that no other scan of the account overlapped, the
\* tables show what it found, if it found something: zombies, the resources marked as such, and
\* the count of its snapshot are the same set.
\* (runIngestionCore: four transactions)
TablesAgree ==
    \A s \in Scans : At(s, "done") /\ scan[s].alone /\ scan[s].acct \in account /\ scan[s].found # {} =>
        /\ Of(zombies, scan[s].acct) = ZombiesOf(s)
        /\ {row.res : row \in {row \in Of(resources, scan[s].acct) : row.isZombie}} = scan[s].found
        /\ \A n \in snapshots : n.scan = s => n.count = Cardinality(scan[s].found)

\* The promise as it is written: also when it found nothing.
\* (storage.go: "replaces all zombie records with the latest detection results")
ZombiesAreLatest ==
    \A s \in Scans : At(s, "done") /\ scan[s].alone /\ scan[s].acct \in account =>
        Of(zombies, scan[s].acct) = ZombiesOf(s)

\* The deliveries of a channel show every message it was sent, even one whose call timed
\* out, apart from those being recorded, those of a deleted account and one for each fault.
\* (dispatchOne, record: a lost row is only logged)
Unrecorded == {m \in messages :
    /\ \A d \in dispatches : <<d.channel, d.scan>> # <<m.channel, m.scan>>
    /\ m.scan # NoScan => scan[m.scan].at # m.channel /\ scan[m.scan].acct \in account
    /\ m.scan = NoScan => ~(request.op = "test" /\ request.channel = m.channel)}

SendsRecorded == Cardinality(Unrecorded) <= faults
=============================================================================
