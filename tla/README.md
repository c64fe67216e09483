# TLA+ verification of OpenLocalCRM

OpenLocalCRM is a single-tenant CRM: a Go server and a Go worker over one
PostgreSQL database, a React client, and a launcher that installs and updates
the whole. This directory models the parts of it whose correctness depends on
the order in which things happen (requests racing on rows, processes starting
together, crashes between two statements), checks the models with TLC on small
instances, and proves the most important properties with TLAPS for instances of
every size.

Paths without a prefix below are relative to the repository's root. `PROJECT.json`
holds the machine-readable side: runs, the source lines behind each definition,
mutants, findings, hazards and theorems.

## 1. Inventory of the system

| Component | State | Operations that change it | Talks to | What is hard | What correct means |
|---|---|---|---|---|---|
| Sessions and tokens (`internal/auth`) | `users.token_version`, `refresh_tokens`, JWTs at clients, open streams | Login, RefreshToken, handleReplay, logout, logout-all, TOTP on/off, ChangePassword | PostgreSQL row locks, `sse.Hub.RevokeUser` | several statements per request, row locks, cached claims | rotation linear and complete, revocation final |
| Accounts, invites, bootstrap (`handlers/users.go`, `core/invite`, `cmd/server`) | `users`, `user_invites`, `bootstrap-admin.txt` | start-up, Issue, Accept, UpdateRole, UpdateStatus, ChangePassword | sessions (role in the claims) | check and write in separate statements, crash during bootstrap | an administrator remains, nobody gets in before accepting |
| Master key (`internal/crypto`) | key file, legacy file, the key cached in each process | GetOrCreateMasterKey, Encrypt | file system shared by server and worker | two first starts, crashes, damaged files | one key, no orphaned secret, fail closed |
| Audit log (`core/audit`) | `audit_logs` with `prev_hash` and `hash` | Log, LogDiff, unhashed rows; VerifyAuditChain reads | every service of server and worker | read and insert in separate statements, JSONB | untouched logs verify, changed ones do not |
| Automation (`core/automation`) | `workflows`, `workflow_runs`, effects of steps | TriggerEvent, TestRunWorkflow, ApproveStep | CRM records, mail drafts, webhooks, audit | pause and resume, effects before the record, failing steps | drafts wait for approval, steps in order and not repeated |
| Rate limiter (`auth/limiter.go`) | attempts and locks per key, in memory | Allow, RecordFailure, Reset, CleanupExpired, eviction | router, login handler | windows and locks of different length, capacity, logins in flight | the rate is bounded, a lock lasts |
| TOTP (`auth/totp.go`) | last used time step | enrolment, Login's second factor, DisableTOTP | sessions | two logins with one code | a code works once |
| CSRF (`auth/csrf.go`) | a persisted secret | none per request | – | first start (as the master key) | – |
| Roles (`auth/rbac.go`, `handlers/authz.go`) | static table | none | every handler | – | – |
| Ownership (`handlers/ownership_admin.go`) | owner of each record | bulk assignment, hand-over | CRM records | list first, write later | an owner is not replaced unseen |
| CRM records (`core/contact`, `company`, `deal`, `note`, `todo`, `appointment`, `telephony`) | their tables | create, update, stage change, delete | automation (events), audit, live events | read-modify-write updates | a stage change triggers its event once |
| E-mail (`core/email`, `mailclient`) | accounts, messages, IMAP watermark | account handlers, SyncAccount, IngestMessage, SendMessage, tags | IMAP, SMTP, job queue | partial ingest, overlapping syncs, send then record | no message skipped, triggered or triaged twice, or claimed and not sent |
| Job queue (`internal/queue`, `cmd/worker`) | River jobs | fan-out, sync, triage | e-mail, AI gateway | retries, crash in the middle of a job | jobs may run again |
| Backup (`core/backup`) | export file, restore transaction, scratch schema | Export, Restore, drill | whole database | lost commit acknowledgement, locks, clean-up deadline | all or nothing, reported as it was |
| Launcher (`internal/launcher`, `cmd/setup-launcher`) | installation directory, executable, compose project, database volume, backups | install, start/stop, backup, restore, rebuild, update, reset | Docker, file system, network | one step of several failing, two jobs at once | no backup lost, whole installation |
| Live events (`internal/sse`) | client channels | Broadcast, RevokeUser | sessions, notifications | full buffers | – |
| Notifications (`core/notification`) | `notifications` | create, mark read | live events | – | – |
| Connectors (`internal/connectors`) | leads become contacts | intake | records, automation | duplicates | one contact per lead |
| AI gateway (`internal/ai`) | provider settings, chat actions | complete, confirm action | external model | fallback between providers | an action needs its confirmation |
| Templates, export, reports | read-only | – | – | – | – |
| Storage (`internal/storage`) | content-addressed files | Save, Delete | – | same content twice | – |
| Query layer (`internal/db/*.sql.go`) | the tables | the generated queries | every service | constraints, cascades | references resolve, final states stay |
| Demo store (`internal/db/demo`) | maps in memory | the same queries without a database, RunTx | every service, most tests | no constraint it does not spell out | behaves as the database does |
| Migrations (`internal/db/migrator.go`) | `schema_migrations` | apply | – | two servers starting | each migration once |
| Web client (`web/src`) | none that is authoritative | – | – | – | – |

The components interact through the database (PostgreSQL at READ COMMITTED,
most statements autocommitted), through the shared storage volume (keys,
secrets, files) and, inside the server, through the hub's in-memory client map.
There is no lock across requests other than PostgreSQL's row locks, so what a
handler read may be stale when it writes. That is the hazard most of the
properties below are about; `PROJECT.json` lists each one at its line.

## 2. Plan

Done, in this order (most consequential first):

1. `Sessions`, with the abstract specification `RefreshFamily` and `SessionsProofs`;
2. `Accounts`, proved about in `SafekeepingProofs`;
3. `MasterKey`, proved about in `SafekeepingProofs`;
4. `AuditChain`, proved about in `SafekeepingProofs`;
5. `Automation` and `AutomationProofs`;
6. `LoginGuard`: rate limiter and TOTP steps, and `LoginGuardProofs`;
7. `SqlStore`, the query layer, `DemoStore`, compared with it call by call, and
   `DemoStoreProofs`;
8. `Backup`: export, restore and drill beside the CRM's own writes, and `BackupProofs`;
9. `Launcher`: jobs of the control centre and of the command line, and `LauncherProofs`;
10. `EmailSync`, with the job queue that repeats it, and `EmailSyncProofs`.

`MCServices` puts `Accounts`, `MasterKey`, `AuditChain`, `Automation` and `LoginGuard`,
which share no state, side by side in one instance. Where the code does not keep what
the repository says of it, a run of its own shows the counterexample, and the component's
module states beside it what the code does keep.

Every safety property of the passing runs is proved for every value of the constants
(section 5); the liveness properties stay with TLC.

Further modules that would be worth having: ownership and bulk assignment,
events of record changes composed with `Automation`, delivery of live events.

## 3. Modules and the code

`MC*` modules extend a component's module with symmetry sets and instance
definitions; a `.cfg` gives the constants their values. A definition whose comment
begins with "Mutant" or calls it a "deliberately wrong variant" is never used by a
specification: it is a plausible slip in a definition that follows it, and the
property named in `PROJECT.json` is violated when the slip is put in its place.

### Sessions

A request is a process `req[p]` whose `pc` names the next statement of its
handler; `users` and `rt` are the tables, `access` the unexpired JWTs clients
hold. Every statement is a step.

| Code | Actions |
|---|---|
| `Login` | `LoginRead` (the user row is read once), `LoginIssue` (tokens from that copy) |
| `RefreshToken` | `RefreshLookup`, then in one transaction `ConsumeRefreshToken`, `RefreshLoadUser`, `RefreshCommit` |
| `handleReplay` | `ReplayDelete`, `DeleteRow` (row by row), `BumpVersion`, `ReplayCommit`, `RevokeUser` |
| logout-all | `LogoutAllDelete`, `DeleteRow`, `BumpVersion`, `LogoutAllCommit`, `RevokeUser` twice (service and handler) |
| logout | `RevokeRefreshToken` |
| `AuthMiddleware`, stream route | `AuthMiddleware`, `OpenStream` |
| `VerifyTOTP`, `DisableTOTP`, `ChangePassword` | `ToggleTOTP`, `ChangePassword` |
| errors, cancelled requests, restart | `RequestEnds`, `Restart` |
| PostgreSQL's deadlock detection (external) | `DeadlockDetected` |
| other writers, time | `AccountWrite`, `ExpireRefreshToken`, `ExpireAccessToken` |

Row locks: a row consumed by an open rotation, or taken by an open deletion (`held`), is
`Locked`, and the user's row from `IncrementUserTokenVersion` to the commit
(`UserLocked`); another writer of the row waits. A DELETE acts on the rows its
statement's snapshot saw (`snap`), which is what makes the race with a rotation visible.
It takes them in any order, waits for each that is locked and keeps the ones it has, so
two deletions may wait for each other; `DeadlockDetected` then aborts one of them and
rolls it back. Writes of an open transaction appear at its commit. Tokens are random, so
the first unused name stands for the next one. Password hashing, cookie attributes and
JWT signatures are abstracted to claims.

`RefreshFamily` is what rotation promises: open a family, exchange the live
token for one new one, close. The refinement maps a row to its family, and
`live` to the rows that are neither used nor deleted.

### Accounts

`boot` steps through `bootstrapAdminUser`, which does nothing when there are accounts or
when it cannot count them (`BootstrapSkip`: the server may serve an empty table); `acct`,
`inv` are the tables; `req` holds a role or status update between its read, its count of
the other active administrators (`CountActiveAdmins`) and its write, and `crossed` notes
that another update was written since it counted or found no need to. Updates overlap
freely and ask for any status the handler takes, `INVITED` included. Any statement of
theirs may fail (`UpdateFails`). `sess` is the set of users
with an administrator's token: as in the code, the role in the token counts,
not the one in the table. `pw` records who can know a password, so that a login
into an invited account is expressible.

### MasterKey

A step is one file-system call of `GetOrCreateMasterKey`: resolve the location,
read, mint, look again, last look, rename, read back. `Stop` is a crash or a
failed start at any of them; processes start and stop whenever they like. `Encrypt`
stores a secret under the cached key. A file that is no key is `Unusable`. The default
location may be out of reach for a while (`Obstruct`, where `Obstacles` allows it):
`resolveKeyPath` takes every error of `os.Stat` for an absent file and falls back to the
legacy one, while a read that fails is fatal. `bare` (processes that found no key file
when they started), `replaced` (a key file was replaced) and `astray` (the legacy key was
loaded beside another file that was out of reach) are history. `SECRETS_KEY_PATH` is the
instance without a legacy file.

### AuditChain

`getLatestHash` and `CreateAuditLog` are the two statements of `Log` and `LogDiff`;
writers overlap freely. A text stands for the hashed columns of an entry. The columns are
joined by a separator that is not escaped, with NULL and the empty text alike, so `Joined`
may map two texts to one; a hash is the sequence of joined texts it commits to (SHA-256
without collisions). `Stored` is what the store returns for a text: a JSONB column
serialises anew, so only entries with `{}` in every column come back as they were hashed.
A failed query of the newest hash is answered with the genesis hash, as the code does.
`causes` records what has spoilt the chain: `overlap`, `readError` or `jsonb`.
`VerifyAuditChain` is stated as what the verification loop accepts.

### Automation

An execution (`exec[a]`) holds the run in memory and writes it once, at the end. A
workflow is the sequence of its step kinds; a step's effect is one increment of `done`.
A new run pauses before a draft, a resumed run pauses after a further one (which it has
executed by then), as in the code. A run keeps its status until its execution is over,
so the same approval may be given again: `overlapped` counts that. `StepFails` may leave
an effect behind. `Interrupt` is a death, a cancelled request or a failed final
statement.

### LoginGuard

| Code | Actions |
|---|---|
| `Allow`, `IsLocked`, `RecordFailure`, `Reset`, `CleanupExpired`, eviction | one step each (`rl.mu`), on one map shared by addresses and logins |
| `Login` | lock check, read of the TOTP columns, validation, write of the last step |
| enrolment, `VerifyTOTP`, `DisableTOTP` | the secret, then the step: two statements |
| time | the clock advances by one |

`passes` and `guesses` tell, per key and age, how much was let through within that age
of now, so that "in any stretch as long as a window" is a statement about a state; a
tick makes every count one older (`Older`). `evicted` and `excused` record the
circumstances under which the code promises less. `LoginGuardAssumption` takes from
`router.go` that a limit is at least two and a lock longer than a window (it is one
minute against two to five); with equal lengths, or a limit of one, the bounds fail.

### SqlStore and DemoStore

`SqlStore` has no variables: a call is a record with the arguments of one method of
`db.Querier`, and an operator per query gives the store afterwards and the answer.
Foreign keys, cascades, NOT NULL and unique columns come from the migrations.
`DemoStore` writes the same methods as `querier.go` does, and its one behaviour runs
either store; on every state, every possible call is put to both, with every kind of value
its other columns may get (`Values`): one that `fits`, one that is `foreign` to the
column's type (a word outside the schema's enum, malformed JSON) and one that is a
`misfit` (NULL in a NOT NULL column, a text longer than its column, a number out of
bounds). PostgreSQL refuses a foreign value before it looks for rows and a misfit when it
writes one (`SqlRefuses`); `querier.go` checks neither. JSON that the
services marshal themselves (tags of a record) always fits. `DiffersOn` says on exactly
which of the modelled calls the two disagree: values PostgreSQL alone refuses; writes that
name a row that is not there, unique columns, e-mail addresses compared without case (and
the legacy administrator address), deletion of a row that others refer to, inactive mail
accounts in a list, updates of missing users and articles, the newest hash of an empty
log, and entity types compared without case. An empty `snapshot_json` of a run counts as
a misfit: PostgreSQL takes no empty text for JSON, `querier.go` keeps the old snapshot. The
run checks both directions, so a difference that is not listed and a listed one that does
not exist are both violations; what a query orders, pages or searches by full text is not
compared. `RunTx` works on a copy (`shadow`), and `expected` is what a transaction would
have left.

### Backup

| Code | Actions |
|---|---|
| `Export` | `ExportStart`, `ExportTable` (one statement per table), `ExportFailed`, `ExportCompleted`, `ExportFlush` |
| `Restore` | `Restore` (spool, validation), `RestoreStarted`, `RestoreBegin`, `TruncateBackupTables`, `ApplyTableRows`, `RestoreCommit`, `RestoreRollback`, `RestoreFailed`, `RestoreCompleted` |
| scratch drill | `DrillStart`, `CloneTables`, `RewriteForeignKeys`, `Prepare`, `DrillRead`, `Import`, `DrillCheck`, `DrillCommit`, `DrillAudit`, `DropSchema` |
| the CRM | `CreateCompany`, `CreateContact`, `DeleteCompany`, `RecordAICall` |

`tx` is the restore's transaction as an overlay on the committed tables; TRUNCATE
keeps everyone else out until it ends. The table order and the foreign keys are those
of `tables.go`; TLC checks as assumptions that the order is safe for every key
(`RegistryIsForeignKeySafe`) and that the walk over the four kept tables,
`KeptInOrder`, is the registry's own (`OrderIsTheRegistrys`). `Tables` are the contents
a primary key allows: no two rows of a table have one id. `UnlistedColumns` names the
one column the export writes and the allow-list of the restore does not know.

### Launcher

A job is a goroutine of the control centre (`GuiJobs`) or a command (`CliJobs`); nothing
keeps two apart. A step is one docker command or one file operation of `engine.go`,
`updater.go`, `config.go` or `cli.go`; `Call(ok)` lets it fail. The database is a number
that the application's writes change, a dump a copy of it, a password a number drawn
afresh. The two ways of replacing the executable (rename over it; move it away and copy)
are two platforms. `hist` records what the properties refer to later: which backups were
reported, which jobs overlapped, which process ended. An update of the control centre
that ends in a restart ends the control centre's other jobs with it; `EndedBy` and
`EndedBySwap` note what those leave behind. A control centre that starts puts the
compose file it carries in itself where there is none, and so does an install that went
on without a release (`EnsureCompose`, of `EnsureComposeAndCaddyFiles`; it looks and
writes in one step, and the images such a start may bring up are those of any other):
`EmbeddedOnly` is the directory it leaves. That file has a default password
(`DefaultPassword`), so without a `.env` it makes a volume with that one, while the
released file refuses to start. Passwords are numbers drawn in order; `ShippedPassword`,
the one in the archive's `.env`, is larger than any that the bounds on requests and
faults let the launcher draw.

### EmailSync

| Code | Actions |
|---|---|
| account handlers, tags | `CreateAccount`, `UpdateAccount`, `DeleteAccount`, `TagMessage` |
| `EmailSyncAllWorker` | `EmailSyncAll` |
| `SyncAccount` from a job or a request | `BeginJob` / `BeginRequest`, `FetchNewMessages`, `IngestMessage` (one turn of the loop), `UpdateSyncState` |
| `EmailSyncWorker` | `EnqueueTriage`, `SyncJobDone` |
| `EmailTriageWorker` | `Triage` |
| `SendMessage` | `BeginSend`, `SendMail`, `RecordSent` |
| River, processes, mail servers (external) | `Deliver`, `WorkerCrash`, `ServerCrash`, retry in `Abandon` |

A mail's UID is its position in the mailbox. `Fetched` follows IMAP's reading of
`n:*`, which names the last mail even when `n` lies above it. The history variables
name the exceptions the code makes: `dropped` (the insert met a database error),
`purged` (the row went with its account), `moved` (the account was pointed at another
mailbox), `untriaged` (a failure or a manual sync).

### MCServices

`part` names one of the five components, and a behaviour takes steps of that one alone;
the others stay in one initial state. What holds of every behaviour of the composition
holds of every behaviour of each.

## 4. What TLC checks

| Run | Instance | Shows |
|---|---|---|
| `sessions` | 1 user, 3 tokens, 2 requests, 2 bumps; 358,824 states | `RotationIsLinear`, `SpentHasSuccessor`, `RevocationKillsAccess`, `RefinesRefreshFamily`, `EveryRequestEnds` |
| `services`: accounts | 2 accounts, 2 updates at once, every status | `LastAdminFallsByCrossing`, `NoLoginBeforeAcceptance`, `AcceptedAccountStaysDown` |
| master key | server and worker, 3 keys, starts overlapping, obstacles | `ConvergedUnlessReplaced`, `SecretsStayReadable`, `KeyFileIsNeverReplaced` |
| audit | 2 writers, 4 texts, 3 rows, JSONB columns | `AlarmsHaveCauses`, `AlterationIsDetected`, `RemovalIsDetected` |
| automation | 6 workflows, 1 run, 2 actors, 2 interruptions per run | `RunsAreConsistent`, `FirstDraftIsApproved`, `AtMostOncePerAttempt`, `TerminalIsFinal` |
| login guard | 1 address, 1 account, 2 logins or enrolments, limit 2, window 1, lock 3, room for 1 key | `AttemptsAreBounded`, `CodeWorksOnce`, `LockIsKept` |
| | the five together: 2,843,476 states | |
| `demo_store` | eleven groups of tables with up to 4 changes, three seeded ones with one; 109,326 states | `StoreIsConsistent`, `DiffersExactlyWhereListed`, `FinalStaysFinal`, `TxIsAllOrNothing` |
| `backup` | 1 company, 1 contact, 1 AI call, two of export, restore and drill, 2 writes, 1 fault; 486,380 states | `Consistent`, `ReportsAreTrue`, `QuietExportRestores`, `WritesStayInBounds`, `RequestsEnd` |
| `launcher` | 1 job of the control centre and 1 command, 2 seconds, 1 write, 1 fault, 2 requests; about 836,000 states | `LauncherIsWhole`, `BackupsAreKept`, `PasswordOpensVolume`, `RestoreImportsTheFile`, `JobsEnd` |
| `email_sync` | 1 account, 2 mailboxes, 3 mails, 1 job, 1 sync request, 1 send, 1 fault, 2 requests of users; 610,488 states | `NoMailIsSkipped`, `IngestedIsTriaged`, `SentMailIsRecorded`, `HandledOnce`, `MailIsProcessed` |
| `sessions_logout_race` | as `sessions` | violated: `RevokedFamiliesAreDead` |
| `last_admin` | 2 accounts, 2 updates at once, every status | violated: `AnActiveAdminRemains` |
| `first_starts` | server and worker, 3 keys, no obstacles | violated: `Converged` |
| `audit_verification` | as `services` | violated: `ChainVerifies` |
| `two_drafts` | as `services` | violated: `DraftsAreApproved` |
| `backup_own_file` | as `backup` | violated: `OwnExportIsAccepted` |

Several properties group parts that belong to one promise, each with a comment of
its own: `Consistent` (types, an exported file is audited, spool file and scratch
schema are removed), `ReportsAreTrue` (the committed flag; a passed drill is
evidence), `LauncherIsWhole` (project files, executable, staging directory),
`BackupsAreKept`, `RunsAreConsistent` (a completed run did every step, in order),
`HandledOnce` (one trigger, no second triage, watermark goes back only under an
overlap), `MailIsProcessed` (new mail is stored unless it is given up or blocked, queued
mail is triaged).

Why the bounds are enough to be interesting:

- *Sessions.* Three tokens allow two families, or one family rotated twice; two
  requests race on one row in every way a pair can; one bump of the version
  makes every revocation happen. `TokenLeft` and `VersionLeft` test the bounds where
  a request arrives, so that a bound never blocks a request under way (which would
  make the liveness property fail, or hold, for the wrong reason). The proofs
  remove the bounds for every safety property of the run.
- *Accounts.* Two accounts: the bootstrap administrator and an account that is invited
  and may be made the other administrator; two updates at once, so that each may count
  the other's target. Nothing else limits requests, restarts or failures.
- *MasterKey.* Three keys: a legacy one and one for each process to mint, or one for the
  default location. Both processes may start, stop and overlap without end.
- *AuditChain.* Three rows hold a chained pair with a row before, between or behind. The
  four texts are an entry with empty JSON columns, one whose columns are joined to the
  same text, one that carries a change, and what JSONB makes of that.
- *Automation.* The three seeded workflows put the draft in the middle, first and
  nowhere; an empty workflow and two with two drafts are added. Two actors execute one
  run at once, two interruptions let a resumed run be interrupted again. Runs share
  nothing, so one is enough.
- *LoginGuard.* A lock of three windows' length and a clock of four let a lock begin,
  be forgotten by `Allow` and end; room for one of two keys makes every insertion an
  eviction.
- *DemoStore.* Tables that refer to each other are in one group, so each cascade has
  rows at both ends; three changes build a chain of references, four an invite or an
  attachment and then take it apart. Every call is compared on every state, so the
  number of changes is not the number of calls examined.
- *Backup.* One company and one contact are a reference that can be cut by a write
  between two table reads; two of the three operations overlap in every pairing.
- *Launcher.* One of each kind of job is the smallest overlap; two seconds let two
  backups have the same name or different ones.
- *EmailSync.* Two good mails make a watermark that can be one behind, a third cannot
  be parsed; a second mailbox is one to move to. The proofs remove the bounds for the
  safety properties.

Deadlock is checked in `sessions`, `sessions_logout_race`, `last_admin`, `first_starts` and
`audit_verification`. In the others counters run out, or every run has ended, so the
system may stop (`CHECK_DEADLOCK FALSE`); `services` contains such components. The one
symmetry set is that of the callers of `LoginGuard` in `services`, which the
specification treats alike; that run checks no liveness property.

**Fairness.**

- `sessions`: strong fairness of each request's own statements (`Handler(p)`). A
  goroutine that can run is scheduled, and PostgreSQL grants a contended row lock in
  the order of its queue, so a statement that becomes executable again and again is
  executed. Weak fairness would not do: a DELETE may find its row locked by one
  rotation after another. PostgreSQL looks for deadlocks once a statement has waited
  for `deadlock_timeout`: weak fairness of `DeadlockDetected`.
- `backup`, `launcher`: weak fairness of the steps of an operation that has begun. A
  failing call is bounded; a call that hangs for ever is not considered.
- `email_sync`: weak fairness of the fan-out (periodic), of a running job and of the
  triage; strong fairness of handing a waiting job to a worker, which may be busy
  again and again. Nothing is assumed of users' requests, so a request that never
  goes on may hold an old watermark for ever.

Nothing makes a request arrive, fail or be cancelled.

### Disagreements between code and documentation

The violated runs each state what the repository says of itself; `PROJECT.json`
quotes the line.

- `RevokedFamiliesAreDead`: the successor a rotation commits while logout-all or
  replay handling waits for its row is not in the DELETE's snapshot and survives.
  Its access token is dead; the refresh token is not.
- `AnActiveAdminRemains`: `UpdateStatus` takes `INVITED` and counts the other
  administrators for `DEACTIVATED` only (`handlers/users.go:284`, 296), so the last one can
  be set to `INVITED`. Two overlapping demotions that count each other do the same.
  `LastAdminFallsByCrossing` says that nothing else does.
- `Converged`: server and worker start for the first time, both take their last look
  before either renames (`crypto/crypto.go:472`, 476), the second rename replaces the key
  the first has read back. `ConvergedUnlessReplaced` has the two exceptions, this one and
  the legacy key beside a file out of reach.
- `ChainVerifies`: the hash covers the bytes Go marshalled, the verification what JSONB
  returns (`audit/service.go:294`), so one untouched entry with a change is reported as
  tampered. Two writers that overlap fork the chain (line 208), and a failed read of the
  newest hash restarts it (line 184). `AlarmsHaveCauses` says that there is no fourth cause.
- `DraftsAreApproved`: a second draft of a workflow is executed when the first is approved,
  then the run pauses, and the next approval executes it again
  (`automation/service.go:309`). `FirstDraftIsApproved` says what remains.
- `OwnExportIsAccepted`: migration 00021 added `ai_audit_logs.user_id`. The export
  writes it, the restore's allow-list does not know it, so a file with one AI audit
  row is refused by the program that wrote it.

### Observed while modelling

What the properties state as an exception, or what a model shows on the way.

Sessions and accounts:

- Role, status and password changes do not bump `token_version`, though the comment
  at `auth/middleware.go:87` says they do. A stream registered after a revocation, or
  whose version TOTP bumped, stays open (`server/router.go:182`).
- Two deletions of refresh tokens may wait for each other's rows. If the one that is
  aborted belongs to a replay, its revocation is rolled back and only the audit entry
  (`revoked: false`) tells (`auth/service.go:412`).
- When the accounts cannot be counted at the start, bootstrap is skipped and the server
  serves an empty table until it is restarted (`cmd/server/main.go:80`).
- An invite accepted after its account was deactivated activates it
  (`queries/invites.sql:52`). A crash between `CreateUser` and
  `SetUserMustChangePassword` leaves the flag unset for good (`cmd/server/main.go:129`).
  Any user's password change removes `bootstrap-admin.txt`. The account is created even
  when that file could not be written. An expired invite cannot be issued again.
- A limit of one attempt behaves like a limit of two (`auth/limiter.go:166`); a failure
  a window later replaces a locked record (line 161). Enrolment is two statements
  (`auth/service.go:487`), so a login in between sees the new secret with the old step.

Keys, audit, automation:

- Every error of `os.Stat` counts as an absent key file (`crypto/crypto.go:264`), so a
  process may come up with the legacy key beside a default one that is out of reach for a
  moment, and encrypt secrets with it. A legacy key visible to one container only makes
  the other mint a second key.
- The hashed columns of an audit entry are joined by a separator that is not escaped, and
  NULL is joined as the empty text (`audit/service.go:163`): an alteration that moves text
  across a separator keeps the hash. `AlterationIsDetected` is about every other one. Rows
  with equal `created_at` are read in the order of random ids (`queries/audit.sql:28`).
- Nothing keeps a second approval out while a run is executed
  (`automation/service.go:259` reads, 333 writes): its steps are executed twice, and an
  ended run is written again by the execution that ends last. `AtMostOncePerAttempt` and
  `TerminalIsFinal` count these. A run whose `CreateWorkflowRun` fails leaves effects
  without a record.

Backup and launcher:

- A restore whose COMMIT is not acknowledged is reported as rolled back; that
  is the one exception `ReportsAreTrue` makes. Every table is exported by a statement of its own,
  so a write in between makes a file that cannot be restored (`QuietExportRestores`
  is about the others). The drill's clean-up deadline starts with the drill
  (`backup/scratch.go:109`). The upsert of `ai_research_jobs` sets `updated_at`, which that
  table does not have (`db/backup.sql.go:646`, migration 00009): a restore with rows of it
  fails and is rolled back. The model's registry does not keep that table.
- A restore takes its snapshot before it stops the application, so writes in between
  are in neither; it goes on when the snapshot failed; `psql` runs without
  `ON_ERROR_STOP`, so a broken dump is reported as imported; a failed import leaves an
  empty schema and the application stopped. A truncated upload is accepted. Backups
  are named after the second. The staging directory is shared, a restart of the control
  centre ends its jobs, and an update that cannot find its release falls back to the
  main branch without saying so.
- The control centre puts the compose file it carries in itself into an empty directory
  (`templates.go:155`). When the directory of an installation was lost, a start from there
  runs against the old volume with a default password, and the status page then recovers
  that password from the container into a `.env` that does not open the volume
  (`PasswordOpensVolume` excuses it as `redrawn`).

E-mail:

- A mail that cannot be parsed fails the whole fetch, every time
  (`mailclient/imap.go:143`), although the comment at `core/email/service.go:314` says
  "One malformed/duplicate message must not abort the whole sync." `MailIsProcessed`
  therefore makes an exception of a mailbox that holds one (`Blocked`): the good mails of
  such an account may wait for ever. The other exceptions are those of `GivenUp`, an
  insert that failed among them; "stored" means that there is a row with the mail's
  Message-ID, whichever account it belongs to.
- The watermark passes mails whose insert failed. `n:*` names the last mail even when
  nothing is new, so that one is fetched again on every sync, and no other.
  `UpdateAccount` keeps the watermark when the mailbox changes, and UIDVALIDITY is
  not looked at. `message_id` is unique over all accounts: a mail two accounts receive
  is stored once and goes with the account that stored it, and of the mails without a
  Message-ID only the first is stored.
- Manual syncs, and jobs that fail after their inserts, leave messages that are never
  triaged. A late triage overwrites tags a user has set in the meantime. A failing
  QUIT is reported as a mail that was not sent. The recorded Message-ID is not the one
  on the wire. Deactivated accounts disappear from the list that would let a user
  activate them.

Others: bulk assignment writes owners from a list that may be stale
(`handlers/ownership_admin.go:98`); a full buffer drops live events (`sse/hub.go:66`);
of two servers that find the same migration pending the second fails to start.

## 5. What TLAPS proves

| Module | Theorem | Statement, for every value of the constants |
|---|---|---|
| `SessionsProofs` | `TypeCorrect` | `TypeOK` |
| | `RotationCorrect`, `SpentTokensHaveSuccessors` | `RotationIsLinear` and `SpentHasSuccessor` |
| | `SessionsRefineFamilies` | `Sessions` implements `RefreshFamily` |
| | `ClosedFamilies` | `ClosedFamilyStaysClosed` |
| | `DeadTokens`, `RevocationKills` | `DeadStaysDead`, `RevocationKillsAccess` |
| `SafekeepingProofs`, of `Accounts` | `AccountsTyped`, `LoginNeedsAcceptance` | `AccountsTypeOK`, `NoLoginBeforeAcceptance` |
| | `DeactivationIsFinal` | `AcceptedAccountStaysDown` |
| | `LastAdminProtection` | `LastAdminFallsByCrossing` |
| of `MasterKey` | `MasterKeyTyped` | `KeyTypeOK` |
| | `NoSplitBrain`, `NoSecretIsOrphaned`, `KeyFileIsKept`, `FailsClosed` | `ConvergedUnlessReplaced`, `SecretsStayReadable`, `KeyFileIsNeverReplaced`, `DamagedFileFailsClosed` |
| of `AuditChain` | `ChainIsTyped` | `ChainTypeOK` |
| | `NoFalseAlarm`, `AlterationIsFound`, `RemovalIsFound` | `AlarmsHaveCauses`, `AlterationIsDetected`, `RemovalIsDetected` |
| `AutomationProofs` | `RunsStayConsistent` | `RunsAreConsistent` |
| | `FirstDraftStaysApproved` | `FirstDraftIsApproved` |
| | `EndedRunsStayEnded` | `TerminalIsFinal` |
| | `StepsTakeEffectOncePerAttempt` | `AtMostOncePerAttempt` |
| `LoginGuardProofs` | `AttemptsStayBounded`, `LocksLast`, `CodesWorkOnce` | `AttemptsAreBounded`, `LockIsKept`, `CodeWorksOnce` |
| `BackupProofs` | `NothingIsLeftBehind` | `Consistent` |
| | `ReportsStayTrue` | `ReportsAreTrue` |
| | `QuietFilesRestore` | `QuietExportRestores` |
| | `WritesKeepToTheirPurpose` | `WritesStayInBounds` |
| `EmailSyncProofs` | `MailTyped` | `TypeOK` |
| | `NoMailLost` | `NoMailIsSkipped`, for any overlap, failure, retry and crash |
| | `EveryMailOnItsWay`, `SentIsRecorded` | `IngestedIsTriaged`, `SentMailIsRecorded` |
| | `MailHandledOnce` | `HandledOnce` |
| `LauncherProofs` | `InstallationStaysWhole` | `LauncherIsWhole` |
| | `BackupsStay`, `PasswordFits` | `BackupsAreKept`, `PasswordOpensVolume` |
| | `RestoreImports` | `RestoreImportsTheFile` |
| `DemoStoreProofs` | `StoreStaysConsistent` | `StoreIsConsistent` |
| | `TransactionsAreWhole`, `FinalRemainsFinal` | `TxIsAllOrNothing`, `FinalStaysFinal` |
| | `StoresDifferOnlyWhereListed` | `DiffersExactlyWhereListed` |

Assumptions: the named `ASSUME`s of the modules, which TLC evaluates in the runs:
distinctness of the special values, bounds are naturals, finitely many actors and
requests, the limits of `LoginGuardAssumption`, and for `Backup` the four tables of the
registry it keeps (a reference that can be cut, an audited table and one with a column
the allow-list does not know). `ScopesAssumption` of `DemoStore` asks that a group names
tables and bounds the calls by a natural number: any groups of tables, any number of
calls. The sets of users, tokens, rows, workflows, texts, mails
and jobs need not be finite. No theorem has a hypothesis of its own: updates, starts,
writers and executions overlap freely, and what the code does not keep is an exception
in the property that the theorem names. `SafekeepingProofs` extends three modules that
share no state (`AuditChain`, `MasterKey`, `Accounts`) and `MCServices` five, so each
prefixes its `Init`, `Next` and `Spec`.

The type invariants, `ClosedFamilyStaysClosed`,
`DeadStaysDead` and `DamagedFileFailsClosed` are proved and have no run of their own:
the runs check the properties they serve.

How the arguments go:

- *Sessions.* Linearity is not inductive on its own. The invariant (`IndInv`) adds
  that a rotation in progress holds a token that can still be exchanged and holds it
  alone (`LockInv`: the row lock keeps deletions and other rotations away, and a
  revocation commits only when it has every row it found), that an
  unissued token has no history, a family's first token has been issued and a
  token's parent is spent (`LineageInv`), and that no claims, held or in flight, are
  ahead of the stored version (`VersionInv`). Refinement and
  `ClosedFamilies` follow from it: `RefreshCommit` is `Rotate`, `LoginIssue` is `Open`,
  every deletion is a `Close`, everything else stutters.
- *Accounts.* `WriteInv` says that a request about to take an administrator away, unless
  it was crossed, still has another one to count on: every other step leaves the active
  administrators there (`ElsewhereKeeps`), and an update that is written crosses every one
  under way (`LastAdminWrite`). `AcceptInv` ties a chosen password to a consumed invite;
  `SpentInv` says that where somebody knows a password no invite is left to accept, so an
  activation is a status update.
- *MasterKey.* Unless a key file was replaced or the legacy key loaded beside one out of
  reach, a process that runs has the key the next start would load (`UpIsCurrent`). A
  process that mints had found no file when it started and there is no legacy key
  (`Minting`); one that had found a file still has one before it, and one that reads
  where there is none has no legacy key to miss (`Reading`), although the operator may copy
  the legacy key in between.
- *AuditChain.* An entry without a doubt has the newest hash for its predecessor
  (`Undoubted`), so appending it keeps the chain verified (`AppendVerifies`), as long as
  its text comes back joined as it was hashed. A removed entry is missed unless the next
  chained row refers to it. That there is a next one is carried along as `Linked` instead
  of being found by induction over the log. That an altered row no longer has its hash
  needs only that its columns are joined to another text.
- *Automation.* `OrderInv` says where a run and an execution stand: at a step, with
  those before it done. For the first draft the count of approvals has to cover effects
  and the executions that were resumed and have the draft still before them
  (`CoveredInv`); it needs that runs wait at drafts only (`WaitInv`), that an execution of
  a new run is the only one of it (`OriginInv`) and has drafted nothing (`UndraftedInv`),
  and that nothing was done for a run nobody began (`FreshInv`). A run no approval of
  which overlapped has one execution, and waits while it is resumed (`AloneInv`), which
  gives `TerminalIsFinal`. For repeated effects, what a step has done, the executions that
  may still do it and the row that may be approved for it are together at most the
  attempts (`AttemptInv`).
- *LoginGuard.* Bounding a window is not inductive without the record: a record without
  a lock counts at least what its window saw, and a lock is as old as the last update
  (`PassesFit`). For logins the failures of a window and the logins in flight together
  stay within the bound while the lock holds (`GuessesFit`), so every later failure
  uses up one of them. Because a window is shorter than a lock, a record that lapsed has
  nothing left to count (`Covers`). For codes, as long as accesses do not overlap, every
  accepted step of the current secret is at most the recorded one or the one about to be
  recorded (`Used`).
- *Backup.* What the open transaction holds is a prefix of the accepted file in
  registry order (`RestoreInv`), and contacts name companies that exist, in the live
  tables, in what the transaction sees and in every file exported while nobody wrote
  (`LinkInv`, which rests on `QuietInv`: such an export has read what is still live).
  A passed drill is evidence because the rows that stayed as they were since it began
  are among those it has read or is importing at every step (`DrillInv`).
- *EmailSync.* `NoMailIsSkipped` is not inductive: a watermark is written from what a
  sync remembers of a fetch long past. `SyncReaches` says that everything below the
  watermark a sync is going to write is known (stored, purged or dropped) or still
  among the mails it has to ingest. It survives everything others do because mailboxes
  and the set of known Message-IDs only grow (`MailboxStep`, `KnownStep`) and a sync of
  an account that was moved or deleted is excused. `TriggersHold` ties a trigger to a
  row that is there or went with its account, which is why a second insert, and so a
  second trigger, is impossible; `SettledStep` is the same for the triage.
  `SyncsHold` (a sync writes at least the watermark it read) gives the last part of
  `HandledOnce`.
- *Launcher.* Five invariants, each kept by every step on its own once `TypeInv` has
  given each kind of job its shape. A job that replaces the executable is alone or noted
  (`SwapInv`); a staging directory has an owner, among the jobs or in the history
  (`StagingInv`: an update that waits for its backup is one); the only copier has written
  the files that are no longer on its list, and with no copier they are of one version
  (`FilesInv`). `BackupInv` follows a backup from the first byte: a name being dumped has
  one writer and no report yet (`DumpInv`), a report has its copy and no writer
  (`ReportInv`), the safety copy of a restore was reported before the database stops
  (`SnapInv`), and the file a restore has chosen is as it was and nobody writes it
  (`ChosenInv`), so the import reads what was chosen.

- *SqlStore and DemoStore.* A call has the shape the services give it (`CallShape`), so
  whatever a method does to the rows is one of a few edits (a new row; rows whose state,
  owner, tags or references are set; rows deleted with those that refer to them), and each edit has
  a lemma of what it keeps. Each table's methods cite them, and `DemoCallStep` and
  `SqlCallStep` put the tables together. The invariant adds to the property that the
  store is sound until a call of the demo store has strayed from PostgreSQL
  (`StoreInv`), and that the copy a transaction works on is sound in the same way and
  later than the rows it will replace: nothing that is final in them is undone in it
  (`TxInv`), without which a commit could not be shown to keep `FinalStaysFinal`. That
  the seeded store is sound is shown row by row. For the comparison a call is the same
  edit on both stores, so the results are equal unless a constraint refuses what the
  demo store takes, a delete reaches rows that refer to the deleted one
  (`DeletesDiffer`), or the method is one of those `Differs` names (`CallDiffers`, for
  every sound store, reachable or not). Both directions are proved: in each listed case
  the results are shown to be different.

Only model-checked: liveness (`EveryRequestEnds`, `RequestsEnd`, `JobsEnd`,
`MailIsProcessed`), which under fairness is outside what the prover supports.

What a recursive definition computes for every input cannot be proved, so the modules
with theorems describe the chain, the walk over the tables and the histories by
quantifiers and functions. The one recursive function, `DemoAppendTags`, appends one
tag after the other; a call brings one, so its value follows from the definition at 0
and 1 (`AppendOne`).

## 6. Not modelled

The components without a module are listed in section 1 and, with reasons, in
`PROJECT.json`: ownership, the services of the CRM records (their queries are in
`SqlStore`), live events, notifications, connectors, the AI gateway, file storage and
the migrator. Left out for good: formatting, templates, reports, the web client,
prompts, and the cryptographic primitives (Argon2, AES-GCM, Ed25519, SHA-256), which
are taken as ideal.

Within the modelled components: the masking of personal data in audit payloads, equal
timestamps of audit rows, step numbers a user chooses freely, the hourly inactivity
scan, listing handlers and permission checks, which change nothing; paging, order,
full-text and vector columns of the query layer; the launcher's preflight checks,
administrator password reset, AI probe, tray and log; the demo ingest, the connection
test, contact matching, threading and password rotation of mail accounts.
