------------------------------- MODULE Findings -------------------------------
(***************************************************************************)
(* What users do with the results of scans, next to the scans that replace *)
(* them: dismissing and snoozing a zombie, revoking that, the sweep of     *)
(* snoozes that are over, and the summaries of the API, which leave out    *)
(* what is dismissed.  A dismissal is of a fingerprint (account and        *)
(* resource here) and stays when the row of the zombie is replaced.        *)
(*                                                                         *)
(* A summary reads the zombies and the dismissals in two transactions;     *)
(* anything may be committed between them.                                 *)
(*                                                                         *)
(* Left out: reasons and notes, who dismissed, the dismissals that are     *)
(* revoked, of which nothing but the list of the audit log is left.        *)
(***************************************************************************)
EXTENDS ScanResults

CONSTANT Views   \* what summaries are asked for: one account, or all of them

ASSUME FindingsAssumption == Views \subseteq {{a} : a \in Accounts} \cup {Accounts}

VARIABLES
    dismissed,  \* the dismissal not revoked: none, for good, snoozed, or snoozed and over
    reader,     \* a summary between its two reads
    crossed     \* pairs of scans of an account that have replaced its zombies at the same
                \* time: each had its DELETE behind it before the other's COMMIT (history)

tableVars    == <<resultVars, dismissed>>
findingsVars == <<tableVars, reader, crossed>>

DismissedType ==
    dismissed \in [Accounts -> [Resources -> {"none", "dismiss", "snooze", "over"}]]

\* accts: the account it is asked for, or all; rows: the zombies it has read; clear,
\* hidden: those of them that have not been, or have been, dismissed ever since (history).
ReaderType == [pc : {"idle", "loaded"}, accts : SUBSET Accounts, rows : SUBSET ZombieRow,
               clear : SUBSET ZombieRow, hidden : SUBSET ZombieRow]
NoReader == [pc |-> "idle", accts |-> {}, rows |-> {}, clear |-> {}, hidden |-> {}]

TablesTypeOK == ResultsTypeOK /\ DismissedType

FindingsTypeOK == TablesTypeOK /\ reader \in ReaderType /\ crossed \subseteq SUBSET Scans

TablesInit ==
    /\ ResultsInit
    /\ dismissed = [a \in Accounts |-> [r \in Resources |-> "none"]]

FindingsInit == TablesInit /\ reader = NoReader /\ crossed = {}

\* DismissZombie.  The unique index also counts a snooze that is over.
DismissZombie(a, r) ==
    /\ Request
    /\ a \in account /\ dismissed[a][r] = "none"
    /\ \E action \in {"dismiss", "snooze"} : dismissed' = [dismissed EXCEPT ![a][r] = action]
    /\ UNCHANGED <<account, tables, channel, scan, request, messages, faults>>

RevokeDismissal(a, r) ==
    /\ Request
    /\ dismissed[a][r] # "none"
    /\ dismissed' = [dismissed EXCEPT ![a][r] = "none"]
    /\ UNCHANGED <<account, tables, channel, scan, request, messages, faults>>

\* The time of a snooze passes.
SnoozeRunsOut(a, r) ==
    /\ dismissed[a][r] = "snooze"
    /\ dismissed' = [dismissed EXCEPT ![a][r] = "over"]
    /\ UNCHANGED resultVars

\* Mutant: marks the row in place of revoking it.
ExpireSnoozesMark ==
    /\ \E a \in Accounts, r \in Resources : dismissed[a][r] = "over"
    /\ dismissed' = [a \in Accounts |-> [r \in Resources |->
                        IF dismissed[a][r] = "over" THEN "expired" ELSE dismissed[a][r]]]
    /\ UNCHANGED resultVars

\* The ticker of the ingestion service.
ExpireSnoozes ==
    /\ \E a \in Accounts, r \in Resources : dismissed[a][r] = "over"
    /\ dismissed' = [a \in Accounts |-> [r \in Resources |->
                        IF dismissed[a][r] = "over" THEN "none" ELSE dismissed[a][r]]]
    /\ UNCHANGED resultVars

DeleteAccountCascade(a) ==
    /\ DeleteAccount(a)
    /\ dismissed' = [dismissed EXCEPT ![a] = [r \in Resources |-> "none"]]

TablesNext ==
    \/ ((\E s \in Scans : ScanStep(s)) \/ ChannelStep) /\ UNCHANGED dismissed
    \/ \E a \in Accounts : DeleteAccountCascade(a)
    \/ \E a \in Accounts, r \in Resources :
         DismissZombie(a, r) \/ RevokeDismissal(a, r) \/ SnoozeRunsOut(a, r)
    \/ ExpireSnoozes
------------------------------------------------------------------------------
\* Mutant: without the account.
KeyOfResource(row) == <<row.res>>

\* zombieKey and dismissalKey.
Key(row) == <<row.acct, row.res>>

\* ListActiveDismissals, of one account or of all.
ActiveDismissals(accts) ==
    {d \in [acct : accts, res : Resources] : dismissed[d.acct][d.res] \in {"dismiss", "snooze"}}

\* enrichWithDismissals, without those dismissed.
Shown(rows, accts) ==
    {row \in rows : \A d \in ActiveDismissals(accts) : Key(d) # Key(row)}

LoadZombies(accts) == {row \in zombies : row.acct \in accts}

IsDismissed(row) == dismissed[row.acct][row.res] \in {"dismiss", "snooze"}

\* getSummary of one account, or of the organization as getSummaryByAccount and
\* listZombies, reads the zombies (of none it shows none) ...
ReadZombies ==
    /\ reader.pc = "idle" /\ faults + requests < MaxEvents
    /\ \E accts \in Views :
         LET rows == LoadZombies(accts)
         IN  rows # {} /\ reader' = [pc |-> "loaded", accts |-> accts, rows |-> rows,
                        clear |-> {row \in rows : ~IsDismissed(row)},
                        hidden |-> {row \in rows : IsDismissed(row)}]
    /\ UNCHANGED <<tableVars, crossed>>

\* What it answers if it reads the dismissals now; a zombie counts as often as it has rows.
Answer == Shown(reader.rows, reader.accts)

\* ... then the dismissals, and answers.
ReadDismissals ==
    /\ reader.pc = "loaded"
    /\ reader' = NoReader
    /\ UNCHANGED <<tableVars, crossed>>

\* History.
Crossing == {pair \in SUBSET Scans : \E s, t \in Scans :
    /\ s # t /\ pair = {s, t} /\ scan[s].acct = scan[t].acct
    /\ At(s, "insertzombies") /\ At(t, "insertzombies")}

Watch ==
    /\ crossed' = crossed \cup Crossing'
    /\ reader' = [reader EXCEPT !.clear = {row \in @ : ~IsDismissed(row)'},
                                !.hidden = {row \in @ : IsDismissed(row)'}]

\* A summary is under way only while one of the events is left (bound).
FindingsNext ==
    \/ TablesNext /\ Watch /\ (reader.pc = "loaded" => faults' + requests' < MaxEvents)
    \/ ReadZombies \/ ReadDismissals

FindingsSpec == FindingsInit /\ [][FindingsNext]_findingsVars
------------------------------------------------------------------------------
\* Whatever is committed between its two reads, a summary leaves out what was dismissed all
\* the while, has what was not, whichever accounts share the resource, and counts no resource
\* twice, except one whose account two scans replaced at the same time.
\* (enrichWithDismissals; SaveZombies "replaces wholesale", on which Summarize and
\* ListActiveDismissals rely for at most one row of a fingerprint)
CountedRightly ==
    reader.pc = "loaded" =>
        /\ reader.clear \subseteq Answer /\ reader.hidden \cap Answer = {}
        /\ \A x, y \in Answer :
             x # y /\ x.acct = y.acct /\ x.res = y.res => {x.scan, y.scan} \in crossed
=============================================================================
