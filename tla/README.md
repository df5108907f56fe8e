# AxiaOps in TLA+

AxiaOps connects customers' AWS accounts, scans them on demand and on a schedule, and shows
which of their resources are waste. This directory holds TLA+ models of the parts of it whose
correctness depends on order, time and failure, the TLC configurations that check them, and
TLAPS proofs of the most important results. Paths are relative to the repository's root;
`services/` is left off where it is clear.

## The system

Two Go services share one PostgreSQL database (row-level security by organization) and,
optionally, Redis.

| Component | State | Operations | What is hard | What makes it correct |
|---|---|---|---|---|
| Scan trigger and account CRUD (`api/internal/api/handler.go`, `account_role.go`) | the `accounts` row: status, last_scanned_at, role and account number; one detached goroutine per trigger | create, draft, PATCH (edit or verify a role), delete, POST scan | PATCH is read, modify, upsert of the whole row; the goroutine outlives the request and the process may not outlive the goroutine | no draft is scanned; no account stays in `scanning`; one scan at a time |
| Stuck-scan recovery (`api/internal/serverbuild/tickers.go`, `storage/postgres/migrate.go`) | none | reset rows in `scanning` older than 15 min | races the scans it cannot see | resets every lost scan and no live one |
| Scan queue (`shared/queue`) | a Redis list, or nothing | LPUSH / BRPOP, or a blocking POST /scan | destructive pop, errors after the effect, a client that gives up on a scan that goes on | a job is executed, or its account gets out of `scanning` |
| Envelope signing (`shared/httpauth`) | none | sign, verify within 5 min | a job ages in the queue | an untampered job is accepted |
| Scan worker and POST /scan (`ingestion/cmd`) | the job in hand, a circuit breaker per worker | dequeue, verify, mark, scan under a 10-min deadline, write the outcome | crash with the job in hand, lost status writes | as above |
| Scheduler (`ingestion/cmd/main.go`) | the list of the current pass | list overdue accounts, enqueue each | acts on a stale list; waits for each scan without Redis | every overdue account is scanned; a pass ends |
| Circuit breaker (`shared/circuitbreaker`) | state, failures, successes, last failure; a RWMutex | Execute | lock upgrade by hand, late results | see `BreakerPromise` |
| Scan results (`storage/postgres/postgres.go`) | cost, zombie, resource and snapshot tables | replace per account | several transactions per scan, two scans at once | tables of one scan agree |
| Analyzer (`shared/analyzer`) | none | detect, summarize | rules and boundaries | matches its definition |
| Sessions (`api/internal/auth`) | `sessions` rows, a cached copy of each | mint under a cap, validate, revoke, rotate, revoke all | cache filled by a reader while a writer revokes | a revoked session is refused |
| Bootstrap (`auth/install_token.go`) | one `bootstrap_state` row, a token file | generate, consume | several replicas start at once, crash between row and file | one organization, one owner, a token somebody knows |
| Invitations, password reset | tokens | issue, redeem | double redemption, SSO at the same time | single use |
| Memberships (`memberships.go`, `deletion.go`) | role per user and organization | add, change, remove, transfer, delete user or organization | checks and writes in different transactions | exactly one owner per organization |
| SSO (`api/internal/sso`) | state entries, connections, domains | initiate, callback, JIT provisioning, enforcement, domain sweep | replayed callbacks, whole-row updates | a state is used once, enforcement cannot be bypassed |
| Cache and rate limits (`shared/cache`, `auth/ratelimit.go`) | map of values and counters | get, set, getdel, incr, sweep | counter handed out outside the map's lock | no increment is lost |
| Dismissals | `dismissed_zombies` | dismiss, snooze, revoke, expire | unique index against clock; joined by key with zombies that are replaced | what is dismissed is hidden alike by all summaries |
| Notifications (`shared/notifications`, `api/channels.go`) | channels, dispatch rows | fan out a scan's result, administer and test channels | send and record are two steps | each send recorded |
| Audit log and export (`internal/audit`, `auth/audit_writer.go`, `api/export.go`) | `audit_log`, append-only but for erasures | write after each mutation, list by cursor, export, anonymise | rows become visible out of order; erasures race writes in flight | a walk skips and repeats nothing; an erased user is forgotten |
| Migrations (`migration_history.go`) | version row, history rows, two advisory locks | up, down, force, recover | crash between any two steps, a lost connection with the lock on it | history tells what was applied; some `up` ends well |

AWS providers, pricing, JWKS, crypto, retry and error classification keep no state of their own.
The dashboard (React), website, Helm charts and Terraform are outside the models.

The components interact in four ways only: rows of the database (each statement or transaction
atomic), the Redis list, HTTP calls from API to ingestion, and the cache. No component
calls back into another.

## Modules

| Module | Models | State and actions |
|---|---|---|
| `Breaker` | one breaker's fields as a record and what `canExecute` and `recordResult` do to it | `Probed`, `Admits`, `Succeeded`, `Failed`, `Cooled` on values |
| `CircuitBreaker` | goroutines in `Execute`, one step per lock operation, check or write | `b`, `pc`, `readers`, `writer` |
| `BreakerPromise` | what the breaker promises, without locks | `mode`, `fails`, `good`, `rested`, `inside` |
| `CircuitBreakerProofs` | lemmas about `Breaker`; proofs about `CircuitBreaker` | |
| `ScanLifecycle` | API trigger and CRUD, sweep, queue, scheduler, worker, POST /scan, scan execution and the crashes of both processes | below |
| `ScanLifecycleProofs` | proofs about `ScanLifecycle` | |
| `Membership` | the memberships of one organization: roles, ownership, invitations, SSO logins, erasure | below |
| `MembershipProofs` | proofs about `Membership` | |
| `Sessions` | the sessions of users and their cached copies: mint under the cap, validate, revoke, password reset | below |
| `SessionPromise` | what the sessions promise, without tables, locks, caches or statements | `live`, `spent`, `reset`, `owed` |
| `SessionsProofs` | proofs about `Sessions` | |
| `Bootstrap` | the install token, from the start of a replica to the first organization | below |
| `Credentials` | composes `Bootstrap` with users, invitations, password resets and logins | below |
| `CredentialsProofs` | proofs about `Credentials` | |
| `SsoConfig` | connections and domains of single sign-on, as administrators change them | below |
| `SsoLogin` | composes `SsoConfig` with logins, callbacks and their caches | below |
| `SsoLoginProofs` | proofs about `SsoLogin` | |
| `ScanResults` | what a scan saves and sends, with channels and the deletion of its account | below |
| `Findings` | composes `ScanResults` with dismissals and the reads that leave out what is dismissed | below |
| `StorageProofs` | proofs about `Findings` with `ScanResults`, and about `AuditTrail` | |
| `AuditTrail` | audit rows, the walks through them, and erasure | below |
| `MigrationHistory` | the migrator's processes, with golang-migrate's steps | below |
| `MigrationProofs` | proofs about `MigrationHistory` | |
| `MCBreaker`, `MCScanRedis`, `MCScanSync`, `MCMembership`, `MCSessions`, `MCAuth`, `MCSsoLogin`, `MCFindings`, `MCAudit`, `MCMigration` | the instances for TLC | |

`ScanLifecycle` composes the components around the account row. `db` is the `accounts` table
(status, ages of last_scanned_at and created_at, whether it is a role account and whether its AWS
number is known), `trig` the trigger requests and their
goroutines, `edit` the PATCH requests between their read and their save, `queue` the Redis list,
`scan` the scans running in ingestion, `cb` the workers' breakers, `due` what is left of the
scheduler's pass. A SQL statement is one action, and everything between two statements, AWS calls
or network calls is a point where other actors may step in:

| Actions | Code |
|---|---|
| `CreateAccount`, `CreateDraftAccount`, `DeleteAccount` | createAccount, createDraftAccount, deleteAccount |
| `ReadForUpdate`, `UpdateAccount` | updateAccount and handleRoleVerification, split at the read |
| `ScanAccount`, `MarkScanning`, `EnqueueJob` / `PostScan`, `EnqueueFails`, `TriggerTimeout`, `MarkTriggerError` | scanAccount and its goroutine |
| `ResetStuckScans` | the ticker and the start-up sweep |
| `ListScheduled`, `ScheduleJob` / `ScheduleRequest`, `ScheduleFails`, `ScheduleTimeout` | scanScheduledAccounts |
| `Dequeue`, `WorkerMark`, `Gate`, `WorkerFails`, `WorkerTimeout` | startWorker |
| `ReadAccount`, `PopulateAccountID`, `IngestionCore`, `Finalize` | runScan, in a worker or a handler |
| `RequestFails` | scanHandler |
| `ApiCrash`, `IngestionCrash`, `MarkScanningLost` | a process dies; a write is applied and its answer lost |
| `Tick`, `BreakerCools` | time |

Abstractions of `ScanLifecycle`: one organization; error messages and audit rows left out; role_arn left out (a draft
that failed a verification has one, which the model does not show); what a scan finds is only
whether it found cost data, which decides the status it writes; `CurInUse` says whether customers use CUR. `faults` counts crashes, failed enqueues and writes that did not
happen, among them those cut off by the worker's deadline. The worker's deadline ends a scan only
because the AWS and SQL calls honour their context. RWMutex is modelled from its documentation; `CircuitBreaker`'s
`readers` names the readers of which Go keeps the number.

`Membership` has the tables as they are committed: `home` (users: the primary organization of each
e-mail address), `row` (memberships: role and provisioned_via), `invite` (pending_memberships), and
`req`, the requests in flight with the rows they have locked. PostgreSQL runs the transactions at READ
COMMITTED, where a check and a write under the same transaction may still see different rows; so
a transaction that reads rows without locking them, or locks several, is split at its statements:

| Actions | Code |
|---|---|
| `CreateMembership`, `CreateNativeInvitation`, `RevokePendingInvitation`, `RedeemNativeInvitation`, `InvitationsExpire` | createMembership, createInvitation, revokeInvitation, RedeemNativeInvitation and their store functions |
| `SsoLogin`, `RedeemPendingInvitation`, `SaveMembership`, `LookupMembership` | HandleOIDCCallback, JITProvisionMembership; then as a role change |
| `UpdateRole`, `Remove`; `LockRow`, `CountOwners`, `WriteRow` | the handlers' read and permission check; UpdateMembershipRole, DeleteMembership |
| `TransferOwnership`; `LockTarget`, `FindOwners`, `DemoteOwners`, `Promote`, `PromoteFails` | transferOwnership; the UPDATE that demotes is two actions: it finds its rows, then waits for their locks and checks them again; the one that promotes goes through the unique index |
| `DeleteUser`, `EraseUser` | DeleteUser, between its count and its DELETE |
| `DeleteOtherOrganization`, `CascadeRow`, `CascadeCommit` | DeleteOrganizationCascade of another organization: its DELETE FROM users locks its users' memberships here one after the other, in any order |
| `RequestFails` | any statement fails: ROLLBACK |

Abstractions of `Membership`: one organization, with users whose primary organization is another;
its own deletion is left out. The role viewer may do no more here than member, and stands in it.
Caller and target of a request are only as free as the permission check leaves them: some member
with the permission exists when the check is made, and may have lost it when the row is written.
Whoever has an invitation may redeem it natively, a user of the identity provider too, and while his
login is in flight. A statement that inserts a membership of a user who is being deleted waits (`Cascading`).
A request about a row that was deleted changes nothing, since ids are never used again; the model
ends it. An INSERT that hits a row that exists aborts its transaction, so that the code after it
(`invitations.go:300`, `native_auth.go:1279`), which means to clean up the invitation, does nothing;
the model follows PostgreSQL. Nothing calls `ExpirePendingInvitations`; the queries check the time
themselves.

`Sessions` has the table as it is committed (`rows`: no row, live or revoked; `user`; `expired`), `next`, which
numbers the sessions by created_at, `cache` (the copies with the revoked_at they were put with: one cache with
Redis, one for each replica without), `tokens` (the cookies handed out), `redeemed` (the users whose password
reset is used up) and `req`, the requests in flight. Transactions are at READ COMMITTED, NOW() is the start of the
transaction (`exp`, what had expired by then), and every statement and every cache call is a step of its own:

| Actions | Code |
|---|---|
| `Login`, `MintBegin`, `MintLock`, `MintCount`, `MintPick`, `MintCommit`, `MintPut` | login, MintSession, CreateSessionEnforcingCap: BEGIN, advisory lock and INSERT, COUNT, SELECT FOR UPDATE, UPDATE and COMMIT, cache Put |
| `Evict`, `Answer` | DeleteMany or Delete of cached copies, then the answer |
| `Validate`, `CacheGet`, `ReadRow`, `Touch`, `Fill`, `Accept` | ValidateSession, for a request or for switch-org (RotateSessionForOrg: revoke, then mint) |
| `Logout`, `RevokeRow` | logout, RevokeSession |
| `Redeem`, `Snap`, `Grab`, `Wipe` | redeemPasswordReset; RevokeUserSessions: what its SELECT FOR UPDATE finds, what it has locked in the end, its UPDATE |
| `RevokeFails` | RevokeUserSessions fails: redeemPasswordReset logs it and answers 204, as if it had not |
| `Expire`, `CacheExpire`, `Sweep` | time; the sweep deletes what has been dead for a week |
| `Abort` | a request ends between two steps: an error, a cancelled context, a crash; ROLLBACK |

Abstractions of `Sessions`: how a caller proves who he is, the organization of a session and last_seen_at are left
out; so each of the logins (password, organization picker, invitation, identity provider) is `Login`. Each user
has one reset, issued before the start. A failing cache call changes nothing, since the code only logs it.
Two things the code does that its comments put differently, and that the model follows: COUNT and SELECT of a mint are two
statements, so a logout between them makes the mint revoke one session more than the cap asks
(`native_auth.go:322` has it keep exactly the cap); and the UPDATE of RevokeUserSessions also revokes sessions committed
after its SELECT, whose copies it then does not evict (`native_auth.go:569`).

`SessionPromise` is the abstract specification that `Sessions` implements. Its steps are `Open` (a session of a user becomes live, at
most the oldest others of that user end for it, and no more than the cap are left), `GiveUp` (one that never will be live), `Close` (one
ends), `AskReset`, `DoReset`, `KeepAll` (a reset that revokes nothing) and `EndReset`. It is mapped so: `live` are the sessions with a live row that has not expired (`LiveNow`);
`spent` those with none that nobody is minting any more (`Spent`); `reset` is whether a request's RevokeUserSessions is still at work,
is done and about to answer, or has failed and is about to give the same answer (`Resets`); `owed` is what was live when the reset was redeemed and still is (`Owed`). So a session is live
once: not the sweep, nor a cached copy, nor a mint that comes late makes it live again; a mint ends none but the oldest;
and a reset ends all that it owes at once, though others may have been opened since, or it ends none.

`Bootstrap` has the `organizations` table and the row of `bootstrap_state` (`org`, `row`), the replicas that start and
the setup requests they serve, and each replica's token file. A token is a number: 0 is the one that
`BOOTSTRAP_INSTALL_TOKEN` gives all replicas, n the one drawn at the n-th start. `Credentials` adds users (ids are
numbered, e-mail addresses come back after an erasure), their passwords and all they have had (`had`, history),
memberships, the links of invitations and resets, and the requests in flight:

| Actions | Code |
|---|---|
| `Start`, `CountOrganizations`, `LockBootstrap`, `Recount`, `CreateBootstrapState`, `ShowToken`, `StartFails`, `Crash` | MaybeGenerateInstallToken, CreateBootstrapState |
| `Present`, `LockState`, `Bootstrapped` (`ConsumeBootstrapState` and its owner), `RemoveInstallTokenFile`, `GiveUp` | POST /v1/auth/bootstrap |
| `CreateInvitation`, `UpsertInvitation`, `RevokePendingInvitation`, `Expire` | createInvitation, CreateNativeInvitation, revokeInvitation, time |
| `PeekInvitation`, `LockInvitation`, `ResolveUser`, `Join`, `MintSession` | redeemInvitation: the preview and the password, then RedeemNativeInvitation statement by statement |
| `IssuePasswordReset`, `RedeemPasswordReset`, `LockReset`, `SetPassword`, `RevokeUserSessions` | issuePasswordReset; redeemPasswordReset |
| `Login`, `SelectOrg` | login, selectOrg: password verified as read, session minted later |
| `DeleteUser`, `DeleteOrganizationCascade` | the erasures with what refers to the rows; a row somebody has locked is waited for |
| `End` | any request ends between two steps; ROLLBACK |

`SsoConfig` has `conn` and `domain` (the tables), the one PATCH and the one verification that are between their read and
their write. `SsoLogin` adds what a provider publishes (`key`), the cached documents and keys, the stored states
and the callbacks:

| Actions | Code |
|---|---|
| `CreateSSOConnection`, `ReadConnection`, `UpdateConnection`, `DeleteConnection` | the connection handlers; PATCH writes the row it read |
| `CreateDomain`, `ReadDomain`, `VerifyDomain`, `VerifyFails`, `DeleteDomain`, `DomainExpires`, `SweepStaleSSODomains` | the domain handlers; the DNS lookup is between read and write; the ticker |
| `Initiate`, `Consume`, `LoadConnection`, `ExchangeCode`, `ValidateIDToken`, `Refresh`, `CheckDomain`, `MintSession`, `CallbackFails` | NewInitiateHandler, NewCallbackHandler step by step |
| `Rotate`, `CacheExpires`, `StateExpires` | the provider, time |

`ScanResults` has the tables a scan writes, the channels, and for each scan what it found and where it is. A
transaction that replaces rows is two steps, for its DELETE sees what is committed when it starts.
`Findings` adds `dismissed`, and `reader`, a summary between its two reads, with what has been dismissed, or not, ever since the first
(history). `crossed` (history) are the pairs of scans that have replaced the zombies of one account at the same time:

| Actions | Code |
|---|---|
| `Begin`, `SaveCosts`, `ClearZombies`, `SaveZombies`, `SaveSnapshot`, `SaveSnapshotServices`, `DispatchForScan`, `Send`, `Record`, `ClearResources`, `SaveResources` | runIngestionCore with Save, SaveZombies, SaveSnapshot, SaveSnapshotServices, DispatchForScan, dispatchOne, SaveResources. A scan calls Save up to three times; that is one step here |
| `ScanFails`, `StepFails` | an error that ends the scan; one that is only logged |
| `CreateChannel`, `ReadChannel`, `UpdateChannel`, `DeleteChannel`, `TestChannel`, `RecordTest`, `RequestFails` | api/channels.go |
| `DeleteAccount` / `DeleteAccountCascade` | DeleteAccount and ON DELETE CASCADE of migrations 031 and 040 |
| `DismissZombie`, `RevokeDismissal`, `SnoozeRunsOut`, `ExpireSnoozes` | createDismissal, revokeDismissal, time, the sweep |
| `ReadZombies`, `ReadDismissals` | getSummary, getSummaryByAccount and listZombies: LoadZombies, then enrichWithDismissals; `Answer` is what they count |

`AuditTrail` has the log as it is committed, the writes between BEGIN and COMMIT, and the walks, each with what it has shown:
`BeginRow`, `InsertRow`, `CommitRow`, `WriteFails` are AuditLogWrite; `StartWalk` and `ReadPage` are listAuditEvents with its
next pages, or loadAuditLog of the export; `DeleteUser` is the erasure. A row's time is that of its BEGIN, its id is from a
sequence at the INSERT, and neither is the order of commits. A page (`AuditLogList`) is whatever lists, in order, the newest of the rows
behind the cursor, as ORDER BY and LIMIT promise; there is always one and only one.

`MigrationHistory` has `table` and `sm` (migration_state), `schema` (what is really applied), the history (`rows`, `open`,
`told`), both advisory locks and the processes:

| Actions | Code |
|---|---|
| `Up`, `Operate` | `migrate up`; `down` and `force` |
| `Bootstrap`, `AcquireLock`, `RecoverOrphans`, `ResolveOrphan`, `OrphansDone`, `CountHistory`, `BackfillIfEmpty`, `DetectDrift` | what precedes every command |
| `ReapplyDirty`, `NextPendingUp`, `NextDown`, `RecordStarted`, `Rewind`, `CompleteRow`, `ForceVersion`, `RecordForce` | runUpLoop, reapplyDirty, the wrappers of a step |
| `Steps`, `MarkDirty`, `RunScript`, `MarkClean` | golang-migrate, modelled from its use: lock, dirty, script, clean |
| `StepFails`, `DriftRefused`, `Disconnected`, `LoseConn`, `Crash` | a failure at each point; the history connection is lost, and the lock with it, while the process goes on |

A database starts new, or from before the history, with the version row clean or left dirty by the last migration there was (which
counts as a fault). Two things about `MigrationHistory` came to light in its proofs, and are in the model and its properties now.
backfillIfEmpty does not look at the dirty flag (`migration_history.go:508`): it inserts a 'backfilled' row for the dirty version too, which `migration_history.go:492`
calls "one 'backfilled' row per applied version". The model's verdict for it is "backfilled dirty", and says nothing of the schema. And a process that has lost its history
connection goes on without the lock: between its look at a dirty version and its own rewind another process may have reapplied that version, and
the rewind then declares the version below it clean. Alone that does no harm; but if an operator's `down` has meanwhile taken
that version back, the row ends above what is applied. `AppliedBelow` is stated for executions in which not both happen, `UpToDate`
exempts the schema in those in which both do. A script that cannot run twice and dies between its commit and the clean mark leaves a version
that `up` cannot get past: `UpToDate` names it (`Wedged`), and the first version of the run is of that kind.

## Runs

| Run | Instance | Shows |
|---|---|---|
| `breaker` | 3 goroutines, MaxFailures 3, SuccessThreshold 2 (the defaults) | `TypeOK`, `PromiseKept` (refinement), `OpenIsTriedAgain` |
| `scan_redis` | 1 account, 1 trigger, 1 PATCH, 1 worker, queue of 1, envelopes enforced, 1 fault | `TypeOK`, `StampedScanNotStuck`, `NoOrphanedScan`, `ScanningEnds` |
| `scan_scheduler` | 2 accounts, 2 request slots, 1 fault, no Redis | `PassEnds`, `OverdueIsScanned` |
| `scan_sync` | 1 account, CUR in use, 1 trigger, 2 PATCHes, 1 request slot, 1 fault, no Redis | `DraftNeverScanned` |
| `membership` | 3 persons, one of them of the identity provider; 2 requests, 1 pending invitation, another organization | `TypeOK`, `AtMostOneOwner`, `NoWaitCycle`, `OwnerKept`, `ChosenRoleKept` |
| `sessions` | 1 user, cap 1, 2 sessions of which one may expire, 2 requests, 1 cache | `TypeOK`, `AtMostCap`, `ResetRevokesAll`, `PromiseKept` (refinement), `RevokedEndsRefused` |
| `migration` | 2 processes, 2 migrations, of which 1 cannot run twice, 2 faults, 1 command of the operator | `TypeOK`, `AppliedBelow`, `HistoryTrue`, `LiveRowKept`, `UpToDate` (liveness) |
| `results` | 2 accounts with the same resource, 2 scans, 1 channel; 1 summary of all accounts at a time; 2 events, of which 1 may be a fault | `FindingsTypeOK`, `DeletedLeavesNothing`, `TablesAgree`, `SendsRecorded`, `CountedRightly` |
| `sso` | 2 organizations' connections that claim one domain, 2 providers, 1 login with 2 callbacks, 3 changes | `TypeOK`, `OneClaim`, `StateUsedOnce`, `RefusedRightly` |
| `auth` | 2 replicas, 2 setups, 2 organizations, 1 person, 2 passwords, 2 requests, 6 operations | `TypeOK`, `Proved`, `FoundedAlone`, `LinksHonoured` |
| `audit` | 2 users, 2 writers, 1 walk, 3 rows, pages of 1 or 2, exports of 2 pages | `TypeOK`, `WalkComplete` |
| `audit_erasure` | as `audit` | **violated**: `ErasedForgotten` |

## Promises the code breaks

`audit_erasure` is a run of its own: the erasure of a user leaves the user's name in the audit log. `DeleteUser`
(`postgres.go:2264`) and `DeleteOrganizationCascade` set user_id and actor_email, not actor_name;
`AuditLogAnonymiseUser`, which clears all three and of which `model/audit.go:22` and migration 028 speak, is called by tests only.
A write in flight during the erasure also commits the e-mail address (the model has it; the trace does not need it), since audit_log.user_id has no foreign key.

Five more definitions state what a comment or document says and the code does not do. No run checks them; each is violated by
the instance named here, with the property in place of the run's own:

| Definition | Instance | What the code does |
|---|---|---|
| `NoConcurrentScans` | `MCScanSync`, with two requests, MaxFaults 0, no editors, no symmetry | `docs/ARCHITECTURE.md:78`: the atomic UPDATE "prevents duplicate concurrent scans". The scheduler enqueues without marking, from a list read earlier, and POST /scan does not mark either. |
| `ScanningIsReset` | `MCScanSync` under `FairSpec`, with MaxFaults 0, no symmetry | `migrate.go:362`: resets accounts stuck in scanning. A PATCH, or a scan that saves the account's number, which read an account in scanning and saves it after a delete inserts a row whose last_scanned_at is NULL; no sweep matches it, and every manual scan answers 409. |
| `StaleCopyEvicted` | `MCSessions` under `Spec` | `auth/session.go:231`: a revocation evicts the cached copy. A validation that read the row before and fills the cache after the eviction leaves a live copy, for as long as it may be cached. |
| `AlwaysOwned` | `MCMembership`, with OtherOrg FALSE | `docs/AUTHENTICATION.md:104`: "An org must always have ≥1 owner". DeleteUser counts the owners without a lock and deletes two statements later; a transfer to that user in between leaves none. |
| `ZombiesAreLatest` | `MCFindings`, with MaxFaults 0, MaxEvents 0 | `storage.go:110`: SaveZombies "replaces all zombie records with the latest". It returns before its DELETE when there are none, so the zombies of the scan before stay listed. |

Some cases that a comment or a reader would not expect are named in a property, as the only exceptions it has:

- A job is signed when it is enqueued and verified against 5 minutes when it is dequeued (`worker.go:67`). One that waits longer, behind a
  scan of up to 10 minutes, is dropped though nobody touched it, and its account stays in `scanning` until the sweep, which `handler.go:1211` names as the
  failure to avoid. `NoOrphanedScan` has it beside faults and beside a PATCH that writes back the `scanning` it read.
- PATCH saves the whole row it read (`handler.go:951`). Of two that overlap, the one that read the draft saves it over the account that
  the other has verified, which may be in a scan by then. And a PATCH that moves a draft to CUR gives it the status pending_cur_delivery
  (`handler.go:916`), verified or not; from then on the draft check of `handler.go:1201` lets it be scanned. `DraftNeverScanned` has both.
- The deletion of an organization may deadlock with a transfer of the ownership of another (`postgres.go:2330` against `postgres.go:2019`):
  PostgreSQL fails one of them. `NoWaitCycle` has no other circle.
- A password reset whose RevokeUserSessions fails answers 204 all the same (`auth/handler.go:1224`, `auth/handler.go:1240`), and the sessions go on.
  `SessionPromise` has it as `KeepAll`.
- A version whose script cannot run twice is left `Wedged`, see `UpToDate`; `migration_history.go:636` relies on every migration being idempotent, but
  012, 016 and 038 are not. A crash between the commit of such a script and the version row leaves a version that `up` cannot get past.
- Two scans that replace the zombies of one account at once leave two rows of one resource, and summaries count it twice,
  against "at most one row matches each dismissal" (`postgres.go:1363`). `CountedRightly` has no other case.

Smaller ones, met while modelling and seen in the models, without a definition of their own:

- `main.go:356`: a CUR account "only flips to Connected once a scan actually found cost data". finalizeAccountStatus looks at the status that runScan
  read, which a trigger or the worker has made `scanning` by then; so an empty scan writes connected (`ReadAccount`, `FinalStatus`).
- resolveOrphan calls a `down` failed when the version row is dirty at V; golang-migrate sets V-1 first, so a `down`
  killed half way is told as an indeterminate success.
- A PATCH of a notification channel is an upsert and brings back one that was deleted meanwhile. A PATCH of an SSO connection is not, but undoes another PATCH,
  and does not evict the cached discovery document (up to 24 hours).
- A login that verified the old password before a reset mints its session after the reset has revoked the others
  (`auth/handler.go:1214`); other reset links of the user stay valid.
- RedeemNativeInvitation means to handle a membership that exists (`native_auth.go:1276`), and RedeemPendingInvitation too
  (`invitations.go:300`); the failed INSERT has aborted the transaction, so the code after it fails.
- The file of an install token is on the disk of the replica that won, and the token may be consumed on another, which then does
  not remove it (`auth/handler.go:378`).
- `memory.go:85` "atomically increments" a counter that the sweep may delete between the two locks.
- An audit row that is committed between a cascade's DELETE FROM audit_log and its DELETE FROM organizations makes the
  whole deletion fail on the foreign key.

*Bounds.* A tick stands for about five minutes, the period of the sweep: MaxSkew is 5 minutes,
ScanTimeout 10, ClientTimeout and StuckTimeout 15, and what matters is their order, which
`TimeoutAssumption` states and the instances keep (ScanTimeout < StuckTimeout) with smaller numbers. Ages saturate
above the longest of them, so every comparison keeps its outcome. The interval, 24 hours in the
code, is as short as the assumption allows: shorter only makes scans overlap more. A queue of one holds a job
behind the scan in hand, long enough to expire; `MaxQueue` only stops a scheduler that
would enqueue the same account for as long as the worker is busy. One fault suffices to lose any
one step; the proofs are for any number. The runs for liveness use no symmetry.
In `scan_sync` two PATCHes overlap (they are symmetric), and CUR is in use; in `scan_scheduler` one of the two request slots
may hang for good, which takes one account with it, and the other account has to be scanned all the same.
In `membership` three persons are an owner and two others who race for what it gives up; two
requests are enough for every pair of them to overlap (with three, but without logins and the other
organization, `AtMostOneOwner` and `NoWaitCycle` hold as well; the proofs are for any number).
One assignable role suffices for requests (a transfer makes admins), and one pending invitation at a
time for a person. Persons and requests are symmetric; all its properties are safety.
In `sessions` a cap of one and two sessions make the second mint revoke the first while a logout, a switch or a
reset has it; two requests cover every pair of operations. With three sessions and without liveness the three invariants hold as well
(4.7 million states), and a search of the first two million states with a cap of two found no step outside the promise; the proofs are for any number.

In `migration` two versions are the first, for which golang-migrate's -1 is a special case, and another; the first cannot run twice and the other can; two faults are a crash and
the crash of its recovery; two processes overlap wherever the lock lets them. Liveness: no symmetry.
In `results` two scans are of one account, overlapping, or of two accounts with the same AWS resource; `TablesAgree` is of those
that nothing overlapped. Two events next to them are enough for any one operation of a user with a fault, or two operations.
The summary is of all accounts (`Views`), where one account's dismissal could hide another's resource; the proof is for summaries of one account, too.
It is between its two reads only while one of the two events is left (the bound in `ReadZombies` and `FindingsNext`): one event
comes before it or between the reads, and the steps of the scans in any number; the proof has no such limit on the number of events.
In `sso` the two connections, each with its row for one and the same domain, race for it; three changes are, for example, two rotations
and a PATCH, more than the two key versions a provider publishes. In `auth` six operations are two starts, a setup, an invitation, an
erasure and a redemption, for instance; the ids of users and links are bounded by what those can make. In `audit` three rows are
enough to have a full page, its successor and a row that is committed late; exports are truncated at two pages of one row.
In `auth`, `sso`, `results` and `audit` requests have no fairness, since all properties are safety, and the instances stop at their bounds
(CHECK_DEADLOCK FALSE).

*Limits of the checked instances.* `NoOrphanedScan`, `DraftNeverScanned`, `NoWaitCycle`, `UpToDate` and `CountedRightly` name the cases in which the code
breaks what one would like to have; they are in the instances, and listed above. `PassEnds` and `OverdueIsScanned` have two antecedents of the
environment, see fairness. `DeletedLeavesNothing` is of the rows a scan saves: dispatches stay when an account is deleted (ON DELETE SET NULL).
The breaker's properties are those of the type, for any number of goroutines; in the program each worker has its own and calls it from one (`worker.go:36`, `worker.go:115`).
`StampedScanNotStuck` is of scans that stamped the row themselves: a manual scan's stamp is the
trigger's, and its wait in the queue counts against the sweep.

*Fairness.* `ScanLifecycle` assumes that time passes, the ticker fires, HTTP clients
time out, a goroutine of the API runs on, and so do the scheduler and the worker loop (each
is a `for` loop on a ticker or a blocking pop). A scan in a POST /scan handler gets no fairness, whether somebody waits for it or not: its context is
context.Background() without a deadline (`scan_handler.go:31`), so that it may hang for good. That has two consequences for what can be promised.
net/http starts a goroutine for every request, while the model has a number of slots: `HungScansLeaveRoom` says that hung scans do not take them all.
And `OverdueIsScanned` is of accounts whose own scans do not hang (`ScansEnd`), whatever those of other accounts do; a pass (`PassEnds`) ends though all hang that it starts,
because the client gives up.
Users, crashes and lost writes get none. `CircuitBreaker` assumes that goroutines run,
that the worker keeps calling `Execute`, and strong fairness of lock acquisition: Go's
RWMutex does not starve, since a waiting writer holds off new readers. `Sessions` assumes that a request that was started is served or
ends, as a handler under its context does, and that cached copies run out, since their time to live is at most 24 hours;
users, expiry of rows and the sweep get no fairness. `MigrationHistory` assumes that
a process goes on until it ends or dies, that there is another `up` sooner or later (the deployment's job is retried, or the next
deployment comes), and that advisory locks are granted in turn (strong fairness: PostgreSQL queues the waiters).

## Proofs

All proofs are for arbitrary constants that satisfy the named assumptions.

*Breaker.* `CircuitBreakerProofs` proves the type invariant, the refinement of `BreakerPromise`, and two invariants that no run checks, `RaceFree` and `CountersFit`. The inductive invariant is the types, `CountersFit` and `Locks`: the goroutines at
a position that reads are exactly the holders of the read lock, the one at a position that writes
is exactly the holder of the write lock, and while there is a writer there are no readers. With `Locks`
the goroutine that writes is alone; with the counters' fit a late failure cannot overtake
MaxFailures, and `Record` maps to a step of the promise.

*Scans.* `ScanLifecycleProofs` proves `TypeOK` (with `Fits` of every worker's breaker, without
which `Succeeded` would leave its type) and `StampedScanNotStuck`. The latter follows from `Fresh`, of
each worker: nobody waits for its scan, its scan is never older than ScanTimeout, because no time passes while a
deadline is due, and a row that the scan stamped is not older than the scan. ScanTimeout < StuckTimeout
does the rest.

It also proves `NoOrphanedScan` and `DraftNeverScanned`, both action properties, without any hypothesis on the constants.
For `NoOrphanedScan`, `Served` says that who waits for a scan is a trigger that is waiting, for its own account and for one scan
at most, and that a scan about to write its status has one to write. So each step
hands the claim on the account on (trigger to job, job to scan, scan to the final status) or ends `scanning`; the steps that do neither
are those the property names.

For `DraftNeverScanned`, `AbsentUnseen` says that nothing is under way (pass, queue, trigger, scan) for an account never created, and `Guarded`, proved of every
action, that a step keeps that and exposes no unverified account. A step
that puts something under way has looked at the row and found it no draft; no statement but the PATCH's save
makes a role account unverified that was verified, or takes the pending status from one that is not.

*Membership.* `MembershipProofs` proves `TypeOK`, `AtMostOneOwner`, `OwnerKept`, `ChosenRoleKept` and `NoWaitCycle` for any number of
persons and requests. The inductive invariant adds `Locks` (no row is locked twice) and `Sound` of every
request: past its lock it holds the row it is about, the rows it holds exist, a row it is about to write
without a count is not the owner's, what a transfer demotes it holds, and a login's user exists. The
count of owners then never lets an owner go, since there is at most one; a transfer ends with its target as
the only owner; and a role change cannot hit a row that became the owner's meanwhile, because a transfer
would have to hold that row.

For `NoWaitCycle`, the absence of a deadlock in the database, `Ordered` says what each request has locked: its own row, and a
transfer past its demotion the owners it found. Of the requests other than the deletion of another organization only a transfer waits while it holds a lock, from its demotion on. That the demoting transfers do not
wait for each other in a circle is `DemotingOrdered`: of any set of them, one has found none of the others' targets to be an owner. It holds
because a target becomes an owner only through a transfer that holds it, and so after the others have looked. TLC checked this
strengthening on three requests before it was proved.
For `ChosenRoleKept`, `LoginSound` says that a login that has gone on to change a role is about a row still there that a login
provisioned: no statement changes how a row was provisioned, and the end of a row ends what the login is about.

*Sessions.* `SessionsProofs` proves `TypeOK`, `AtMostCap` and `ResetRevokesAll` for any number of users, requests, caches and
sessions and any cap. The inductive invariant has three parts besides the types. `Sound` of every request: its session belongs to its user and was
begun; the row of a session being minted is not there yet; when it has counted, the live sessions are fewer than Cap plus
the excess; when it has picked, those it has not locked are fewer than Cap; and what was live when a reset was redeemed is
found by its UPDATE, if it is still live. `Apart` of any two: they do not hold the advisory lock of the same user, do not mint
the same session, and none mints a session known to a reset. `Fresh`: a session not yet begun has no row. So while a mint holds
the lock others can only end sessions of its user, and the room it found stays.

The refinement, `Spec => PromiseKept`, rests on two more parts. `Known`: a session that was begun has an owner, and only those have a cookie or can
expire. `Held` of every request: it has a user and a session that was begun; a session being minted has not expired; a mint that
is about to commit has picked sessions of its user that are older than any it leaves (no other mint of that user can have committed since);
and what a reset is about to revoke is its user's. Then a commit is an `Open`; an expiry, a revocation and a deletion are each a `Close`, or nothing if the session was over;
the end of a mint before its commit is a `GiveUp`; a reset's redemption, its UPDATE, its failure and its answer are steps of the promise's reset (`AskReset`, `DoReset`, `KeepAll`, `EndReset`);
and reads, locks, caches and the sweep are stutters.

*Credentials.* `CredentialsProofs` proves `TypeOK`, `FoundedAlone`, `Proved` and `LinksHonoured` for any number of replicas,
setups, organizations, persons, passwords, requests and links. The inductive invariant has three layers.

- Of the bootstrap: its types, `Sealed` (while there is a row of bootstrap_state, or a replica past its recount, there is no
  organization; a setup that has found the row keeps it there), `OneHolder` (the advisory lock is held by one replica or one
  setup) and `Armed` (no setup in flight has the token that stands for no row). Every step of `Credentials` is a step of
  the bootstrap, the founding, a deletion of an organization, or leaves the bootstrap alone (`StepKinds`).
- Of the tables and the requests (`CInv`): the types with the foreign keys, `Numbered` (no id is used before its user is made),
  `Remembered` (a password that stands is one the user has had), `Sound` of each request (the password that it verified is its
  user's, the organization of an invitation it holds is there, the address of a user it is about to insert is free) and `Apart` of any
  two (they do not insert the same address). The founding rests on `Sealed`: since there is no organization, no request holds
  an invitation, and nothing refers to the new one.
- Of the links (`LInv`): `Fresh` (no two rows have the same link, none a link not yet sent), `Holds` of each request (past its lock
  its row stands) and `Alone` of any two (they hold different rows). Whatever removes or replaces a row waits for who holds it.

*Single sign-on.* `SsoLoginProofs` proves `TypeOK`, `OneClaim`, `StateUsedOnce` and `RefusedRightly` for any number of connections,
providers, domains, logins, deliveries and rotations. The inductive invariant adds to the types `Unique` (the index: of the
rows of a domain one claims it), `Begun` and `Taken` (a callback's state was of a connection, and is gone), `Distinct` (two
callbacks took two states) and `Signed` (no token is signed with a key of the future), with which a key that the published ones
reject is an older one.

*Results and findings.* `StorageProofs` proves `FindingsTypeOK`, `DeletedLeavesNothing`, `TablesAgree`, `SendsRecorded` and `CountedRightly` for any
number of accounts, resources, scans and channels, as theorems of `FindingsSpec`, but the second, which is a lemma of its tables. `TablesSpec` is
the specification without the reader and the histories, which `FindingsSpec` implements (`OfTables`). `Bookkeeping` says what a scan carries
between its statements (it writes a delivery of a channel that exists, it deletes rows of its own account only). `TablesAgree` rests on
`Solo` and `Replaces`: while no other scan of its account has run since it began, what a scan's DELETE has seen is what is there when it
inserts, and what it has inserted stays what the table has. `SendsRecorded` rests on `Told`: the messages are finitely many, of channels
still there, and say what their scan found; so a statement leaves at most one of them unrecorded, which is counted as a fault. `CountedRightly` rests on
`Crossings` (what has come into the table since a scan's DELETE is of a scan that it has crossed, and so are two rows of one account that are of different scans) and on `Loaded`, the same
of what a summary has read, with its history of dismissals.

*Audit log.* `StorageProofs` also proves `TypeOK` and `WalkComplete` of `AuditTrail`, for any number of writers, walks and rows and any limits. The inductive invariant adds to the types `Drawn` (the sequence gives no id
twice, also not to a row that is committed late) and `Shows` of each walk: what it has shown is in order; and what was there at its first page
and still matches is behind its cursor or has been shown. A page keeps it by what ORDER BY and LIMIT promise (`PageFacts`): what is behind
the old cursor and not on the page is behind the page's last row, and then the page is full and that row is the new cursor. A row that is committed late
may be ahead of the cursor, but was not there at the first page; an erasure only makes rows stop matching, since a row keeps its id and time.

*Migrations.* `MigrationProofs` proves `TypeOK`, `LiveRowKept`, `AppliedBelow` and `HistoryTrue` for any number of versions, processes, faults and
operator's commands. The inductive invariant has four layers. `Commanded` and `Locked`: what each process is there for, and who holds which of the two
advisory locks; a process without its history connection has lost it (`severed`), so a recovery sees no row of a living one. `Marked`: under
golang-migrate's own lock a step finds the version row as it has left it, so two overlapping migrators do not mix their steps. `StepsBelow`: below
the version that a step or a rewind is about to set, all is applied; with `AppliedBelow` it is inductive. `Backfilled` and `Recorded`, as
long as no connection was lost: at most one row is started, a row still started says enough with the version row to be resolved (`Resolvable`), a
version with no started row is told rightly (`Right`), and the process past the lock knows the rows and the version row as they are (`Knows`).
`HistoryTrue` follows when every process has ended.

*Only model-checked*: liveness (`ScanningEnds`, `PassEnds`, `OverdueIsScanned`,
`OpenIsTriedAgain`, `RevokedEndsRefused`, `UpToDate`), for which the installed provers have no rules. Every other property of a run is proved.

## Not modelled

- The analyzer's rules, pricing, retry and error classification: functions without state, tested by table.
- AWS: what its calls answer is a choice.
- The memory cache's own locks and the rate limits. Caches are modelled where their contents matter (sessions, states, documents, keys), with
  atomic operations that may fail; a limit only refuses.
- Of SSO: group mappings, enforcement, logout at the provider, SAML, the checks of nonce, PKCE and audience. Of sessions: the organization they are
  bound to. Of the export: all but the audit log; its eight reads are separate transactions.
- Handlers that only read, request parsing, formats, e-mails, webhooks' signatures and retries.
- The dashboard, website and deployment.

## Plan

Done: scans, breaker, memberships, sessions, bootstrap and credentials, single sign-on, results and findings, audit log, migrations, with
proofs of all their safety properties and of both refinements. Left, in this order:

1. An abstract specification of the applied versions that `MigrationHistory` implements.
2. The memory cache with its two locks; group mappings; the analyzer's rules against a reference definition.

Each module that has something to ask of the system has its run. The map covers about three tenths of the implementation (31000 lines of Go);
the rest is for the most part reads, request parsing, AWS calls and provider clients, which keep no state.
