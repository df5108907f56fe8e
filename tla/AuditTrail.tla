------------------------------ MODULE AuditTrail ------------------------------
(***************************************************************************)
(* The audit log of one organization: the rows that requests write after   *)
(* their mutation, in transactions of their own; the pages a reader walks  *)
(* through with a cursor, in GET /v1/audit and in the data export; and the *)
(* erasure of a user.                                                      *)
(*                                                                         *)
(* A row's created_at is the time its transaction began and its id comes   *)
(* from a sequence at the INSERT, so that rows become visible in neither   *)
(* order, and an id is lost with its transaction.                          *)
(*                                                                         *)
(* Left out: the filters on columns that never change (action, resource,   *)
(* time), which only choose a smaller log; metadata; the deletion of the   *)
(* organization, which takes the log with it; AuditLogAnonymiseUser, which *)
(* nothing calls.                                                          *)
(***************************************************************************)
EXTENDS Integers, Sequences, FiniteSets, SequencesExt

CONSTANTS
    Users,
    Writers,     \* slots for requests that write a row
    Native,      \* those of them that are of the native authentication
    Walks,       \* slots for walks through the log
    NoUser,
    MaxLimit,    \* auditListMaxLimit
    ExportLimit, \* auditExportPageSize
    MaxPages,    \* auditExportMaxPages
    MaxRows,     \* bound: ids drawn
    MaxTime      \* bound: ticks of the clock

ASSUME AuditAssumption ==
    /\ {MaxLimit, ExportLimit, MaxPages} \subseteq Nat \ {0} /\ ExportLimit <= MaxLimit
    /\ {MaxRows, MaxTime} \subseteq Nat
    /\ NoUser \notin Users /\ Native \subseteq Writers

VARIABLES
    users,    \* the users that exist
    log,      \* audit_log
    write,    \* the writes in flight
    walk,
    now,
    lastId    \* audit_log_id_seq

vars == <<users, log, write, walk, now, lastId>>
------------------------------------------------------------------------------
Someone == Users \cup {NoUser}
Times   == 0 .. MaxTime

\* user_id, actor_email and actor_name: whose they are; NoUser: null, the tombstone, empty.
Row    == [id : 1 .. MaxRows, at : Times, user : Someone, email : Someone, name : Someone]
Cursor == [id : 0 .. MaxRows, at : Times]
Zero   == [id |-> 0, at |-> 0]

WriteType == [pc : {"idle", "begun", "inserted"}, row : [id : 0 .. MaxRows,
              at : Times, user : Someone, email : Someone, name : Someone]]
NoWrite == [pc |-> "idle", row |-> [id |-> 0, at |-> 0, user |-> NoUser, email |-> NoUser,
                                    name |-> NoUser]]

\* by: the filter on user_id.  base: the rows that were there at its first page (history).
WalkType == [pc : {"idle", "first", "next", "done", "truncated"}, export : BOOLEAN,
             limit : 1 .. MaxLimit, by : Someone, cursor : Cursor, pages : 0 .. MaxPages,
             shown : Seq(Cursor), base : SUBSET Cursor]
NoWalk == [pc |-> "idle", export |-> FALSE, limit |-> 1, by |-> NoUser, cursor |-> Zero,
           pages |-> 0, shown |-> <<>>, base |-> {}]

TypeOK ==
    /\ users \subseteq Users
    /\ log \subseteq Row
    /\ write \in [Writers -> WriteType]
    /\ walk \in [Walks -> WalkType]
    /\ now \in Times /\ lastId \in 0 .. MaxRows

Init ==
    /\ users = Users
    /\ log = {}
    /\ write = [w \in Writers |-> NoWrite]
    /\ walk = [k \in Walks |-> NoWalk]
    /\ now = 0 /\ lastId = 0
------------------------------------------------------------------------------
(* Record, AuditLogWrite *)

\* What the native authentication writes names the user's id only.
Named(w, u) == IF w \in Native THEN NoUser ELSE u

\* A request of u has been authenticated and has made its change, and the transaction
\* begins.
BeginRow(w, u) ==
    /\ write[w].pc = "idle" /\ u \in users
    /\ write' = [write EXCEPT ![w] = [pc |-> "begun", row |->
         [id |-> 0, at |-> now, user |-> u, email |-> Named(w, u), name |-> Named(w, u)]]]
    /\ UNCHANGED <<users, log, walk, now, lastId>>

InsertRow(w) ==
    /\ write[w].pc = "begun" /\ lastId < MaxRows
    /\ lastId' = lastId + 1
    /\ write' = [write EXCEPT ![w].pc = "inserted", ![w].row.id = lastId']
    /\ UNCHANGED <<users, log, walk, now>>

CommitRow(w) ==
    /\ write[w].pc = "inserted"
    /\ log' = log \cup {write[w].row}
    /\ write' = [write EXCEPT ![w] = NoWrite]
    /\ UNCHANGED <<users, walk, now, lastId>>

\* An error or the two seconds are over: counted and logged only.
WriteFails(w) ==
    /\ write[w].pc # "idle"
    /\ write' = [write EXCEPT ![w] = NoWrite]
    /\ UNCHANGED <<users, log, walk, now, lastId>>
------------------------------------------------------------------------------
(* AuditLogList *)

KeyOf(row) == [id |-> row.id, at |-> row.at]

\* The order of the log is from the newest to the oldest row.
Older(a, b) == a.at < b.at \/ (a.at = b.at /\ a.id < b.id)

\* Mutant: on created_at alone.
BehindByTime(key, cursor) == cursor = Zero \/ key.at < cursor.at

Behind(key, cursor) == cursor = Zero \/ Older(key, cursor)

Matches(row, by) == by = NoUser \/ row.user = by

Newest(shown) == \A i, j \in DOMAIN shown : i < j => Older(shown[j], shown[i])

Keys(by) == {KeyOf(row) : row \in {row \in log : Matches(row, by)}}

\* The newest of the keys behind the cursor, in order, at most limit of them: there is one
\* such page.
AuditLogList(by, cursor, limit) ==
    LET behind == {k \in Keys(by) : Behind(k, cursor)}
    IN  {page \in SeqOf(behind, limit) :
            /\ Newest(page)
            /\ \A k \in behind \ ToSet(page) : Len(page) = limit /\ Older(k, page[limit])}

\* next_cursor: a full page may have another behind it.
NextCursor(page, limit) == IF Len(page) = limit THEN page[limit] ELSE Zero

\* Mutant: one page more.
TruncatesLate(pages) == pages > MaxPages

Truncates(pages) == pages = MaxPages
------------------------------------------------------------------------------
(* GET /v1/audit and its next pages, GET /v1/export *)

StartWalk(k) ==
    /\ walk[k].pc = "idle"
    /\ \/ \E limit \in 1 .. MaxLimit, by \in Someone :
            walk' = [walk EXCEPT ![k] = [NoWalk EXCEPT !.pc = "first", !.limit = limit, !.by = by]]
       \/ walk' = [walk EXCEPT ![k] = [NoWalk EXCEPT !.pc = "first", !.limit = ExportLimit,
                                                     !.export = TRUE]]
    /\ UNCHANGED <<users, log, write, now, lastId>>

\* One page.  The export stops after MaxPages full ones and says so.
ReadPage(k) ==
    LET v     == walk[k]
        pages == IF v.export THEN v.pages + 1 ELSE 0
    IN
    /\ v.pc \in {"first", "next"}
    /\ \E page \in AuditLogList(v.by, v.cursor, v.limit) :
         LET cursor == NextCursor(page, v.limit)
         IN  walk' = [walk EXCEPT ![k] = [v EXCEPT
                 !.pc     = IF cursor = Zero THEN "done"
                            ELSE IF v.export /\ Truncates(pages) THEN "truncated" ELSE "next",
                 !.cursor = cursor,
                 !.pages  = pages,
                 !.shown  = @ \o page,
                 !.base   = IF v.pc = "first" THEN Keys(v.by) ELSE @]]
    /\ UNCHANGED <<users, log, write, now, lastId>>

\* The reader loses interest, or has the result.
LeaveWalk(k) ==
    /\ walk[k].pc # "idle"
    /\ walk' = [walk EXCEPT ![k] = NoWalk]
    /\ UNCHANGED <<users, log, write, now, lastId>>
------------------------------------------------------------------------------
\* DELETE /v1/users/me.  (That it may be refused: Membership.)  The rows committed by then
\* lose the id and the e-mail address.
DeleteUser(u) ==
    /\ u \in users
    /\ users' = users \ {u}
    /\ log' = {IF row.user = u THEN [row EXCEPT !.user = NoUser, !.email = NoUser] ELSE row :
                  row \in log}
    /\ UNCHANGED <<write, walk, now, lastId>>

Tick ==
    /\ now < MaxTime /\ now' = now + 1
    /\ UNCHANGED <<users, log, write, walk, lastId>>

Next ==
    \/ \E w \in Writers :
         \/ \E u \in Users : BeginRow(w, u)
         \/ InsertRow(w) \/ CommitRow(w) \/ WriteFails(w)
    \/ \E k \in Walks : StartWalk(k) \/ ReadPage(k) \/ LeaveWalk(k)
    \/ \E u \in Users : DeleteUser(u)
    \/ Tick

Spec == Init /\ [][Next]_vars
------------------------------------------------------------------------------
\* The pages of a walk show rows from the newest to the oldest and none twice, whatever is
\* written meanwhile; and once it has ended, unless it said that it was truncated, they have
\* shown every row that was there at its first page and still matches.
\* (AuditLogList: "inserts during paging don't shift rows"; loadAuditLog)
WalkComplete ==
    \A k \in Walks :
        /\ Newest(walk[k].shown)
        /\ walk[k].pc = "done" =>
             walk[k].base \cap Keys(walk[k].by) \subseteq ToSet(walk[k].shown)

\* No row names a user that was erased.
\* (audit.go: "AnonymiseUser clears it to '' alongside rewriting ActorEmail")
ErasedForgotten ==
    \A row \in log : {row.user, row.email, row.name} \subseteq users \cup {NoUser}
==============================================================================
