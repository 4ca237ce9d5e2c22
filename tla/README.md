# TLA+ models of the accounts API

The program is one NestJS service (`src/apps/api`): an HTTP API for user accounts with JWT
authentication, Google sign-in, avatars, local or S3 media storage, PostgreSQL through
TypeORM, file logging, health checks, and command-line scripts for the database. Handlers
run on one event loop, so two requests interleave only where a handler awaits; rows, files
and tables outlive the process.

## 1. Inventory

| Component | State | Operations | Interacts with | What is hard | What makes it correct |
|---|---|---|---|---|---|
| Authentication tokens (`modules/accounts/auth`) | rows of `accounts.token_blacklist`; the tokens clients hold | login, register, Google callback, guard, refresh, logout, `cleanupExpiredTokens` | JWT library, PostgreSQL, users | reads before awaits, clock against expiry, identical tokens within a second, 408 while the handler runs | a revoked token is not honoured; a refresh token is spent once per arrival; requests finish |
| User avatars (`users/services/user-avatars.service.ts`) | rows of `accounts.user_avatars`, files, temp files | `trySetRemoteAvatar`, `setRemoteAvatar`, `removeAvatar` | media storage, Google sign-in, `ON DELETE CASCADE` | row and file are not written together; long downloads | no row without its file; a replacement does not lose the avatar; files do not pile up |
| Media storage (`infrastructure/storage`) | the media and temp folders, or a bucket; a cached SDK import | persist, duplicate, delete, remote ingest, image upload | avatars, image attachments | partial failures, downloads that break off | temp files are dropped, deletions are idempotent |
| Image attachments (`image-attachment.service.ts`) | rows of any image entity, files | `replaceOne`, `appendMany`, `findLimitSnapshot` | media storage, limits | count, upload, save without a transaction | the maximum holds, orders are distinct |
| Log file (`infrastructure/logging`) | the log file and its rotated copies; the promise chain | `write`, rotation | every logger | failing renames and stats, a restart between two renames | entries stay in order, only the oldest go, one failure does not stop the chain |
| User accounts (`users/services`) | rows of `accounts.users` | create, update, remove, updatePassword, updateLastLogin, queries | auth, avatars | check-then-save, soft deletion, lost updates | uniqueness answered as a conflict; what was answered was done |
| Credential validation (`auth-validation.service.ts`) | none of its own | local and Google sign-in, unique usernames | users, avatars | users that change between two reads | no account is created or used that should not be |
| Request timeout | none | 408 | every handler | the handler goes on | the late result reaches nobody |
| Limits (`common/limits`) | none; snapshots per request | guard, collection, per-parent and tree strategies | repositories | check-then-act, walking a tree that changes | the walk ends; a snapshot is consistent |
| SQL assets (`infrastructure/sql-assets`) | registry table, database objects | `syncSqlAssets` | database scripts | one transaction per asset or none; two syncs at once | registered means run |
| Database administration and seeding (`database`) | databases, schemas, seed rows | create, drop, fresh, reset, truncate, migrate, seed | PostgreSQL | steps that fail half-way, guards against production | a re-run finishes the job |
| Health (`infrastructure/health`) | none; one file per probe of a local storage | liveness, readiness, full | database, Redis, storage | checks that settle at different moments, dependencies that stay silent | a verdict is about the time of its probe; a probe is answered and leaves nothing behind |
| Pagination and collection responses (`common/pagination`, `common/repositories`) | none | normalise, page, count, link | every list | a list that changes between two queries and between two pages | a walk along the links misses and repeats nobody without a cause |
| Response envelopes and error mapping (`common/responses`, `exception-filters`) | `request.__limits` | envelope, links, filter | every handler and guard | an envelope that is made twice, nested validation errors, any thrown value | what was returned arrives; every error gives its reasons |
| Configuration, bootstrap, middlewares, DTOs, translations | none | parsing, wiring and wording | libraries | – | – |

`PROJECT.json` lists the same components with their status, and the hazards with the line
where each one bites.

## 2. Plan

The modules, in the order in which they were written, the most important first:

1. `RevocationContract` – what the token service promises, with no table, clock or queries.
2. `TokenLifecycle` – the token service, checked and proved to implement the contract;
   `TokenLifecycleProofs`.
3. `UserAvatars` – rows and files of avatars with the remote-image path of the storage
   layer; `UserAvatarsProofs`.
4. `LogFileWriter` – the log chain and rotation; `OperationsProofs`.
5. `UserAccounts` – create, update, soft and hard removal, password changes, local and
   Google sign-in; `UserAccountsProofs`.
6. `ResourceLimits` – the limit guard and its strategies; `ResourceLimitsProofs`.
7. `ImageAttachments` – `replaceOne`, `appendMany` and the limit snapshot over both storage
   drivers; `ImageAttachmentsProofs`.
8. `DatabaseScripts` – the command-line scripts and the sync of SQL assets, which share one
   database; `DatabaseScriptsProofs`.
9. `ResponseEnvelopes`, `ErrorDocuments` – the pure functions that make the two kinds of
   answers, and `ApiRequests`, the way of a request through guards, interceptors and filter;
   proofs in `ApiProofs`.
10. `CollectionPages` – a client that walks along the pages of a list; proofs in `ApiProofs`.
11. `HealthProbes` – probes, their indicators and what they leave behind; proofs in
    `OperationsProofs`.

What composes what: `TokenLifecycle` instantiates `RevocationContract`; `ApiRequests`
extends `ErrorDocuments`, and that `ResponseEnvelopes`, which `CollectionPages` extends,
too. `MCApi`, `MCOperations`, `MCRequestLiveness` and `MCUserScenarios` put two instances
side by side (section 4).

Left: the composition of `UserAccounts` with `UserAvatars` in a Google sign-in (that a
failing avatar does not fail a sign-in is in `UserAvatars!Finish`, and neither module reads
the state of the other).

## 3. Modules

### RevocationContract and TokenLifecycle

Time is in seconds, the unit of `iat` and `exp`. A token is the record `[kind, payload,
iat]`: the service adds no `jti`, so these three decide the bytes of the token, and with
them its hash, the key of the blacklist. `blacklist` is the table, `held` the tokens clients
have, `pc` and the other functions on `Request` the handlers in flight, one action per
stretch of code between two awaits:

| Code | Actions |
|---|---|
| login, register, Google callback | `StartLogin`, `SignLogin` |
| passport and `JwtStrategy.validate` | `StartGuard`, `Validate`, `CheckAccess` |
| a protected handler, `logout` | `Serve`, `Logout` |
| `TokenService.refreshTokens` | `StartRefresh`, `CheckRefresh`, `VerifyRefresh`, `Consume`, `SignRefreshed` |
| `isTokenBlacklisted`, `addToBlacklist` that fail | `QueryFails` |
| `TimeoutInterceptor` | `TimeOut` (guards run before interceptors and are not timed out) |
| `cleanupExpiredTokens` | `CleanupExpiredTokens(date)`: nothing in the code calls it, so it may run at any time, with a date of now or earlier |
| process, clock | `Restart`, `Tick` |

`revoked` and `late` are history: every token ever written to the table, and whether the
token of a request was one of them on arrival. `Validate` and `CheckAccess` are two actions
because the date is bound to the query before the database runs it.

The contract is kept with the mapping `expired <- Expired`, `verdict <- Verdict(pc)`,
`subject <- token`. What it promises is weaker than "a revoked token is never honoured": the
guard compares `exp` with the clock first and asks the table for unexpired rows second, so a
revoked token that expires between the two is let through once, in its last second. The
models state exactly this exception.

A statement of the tests does not hold within one second of a signature, because of the
missing `jti`: `RefreshYieldsLiveTokens`. A second login within the second of a logout hands
out the revoked token for the same reason.

### UserAvatars

`row` is the unique row per user, `media` and `temp` the two folders, `used` the random
names drawn so far (one name stands for the temp file and its copy, which get a random name
each). `setRemoteAvatar` is `StartSet`, `FindExisting`, `Download`, `Persist`, `DropTemp`,
`DeleteRow`, `Insert`, `DeleteOld`; `removeAvatar` is `StartRemove`, `FindForRemoval`,
`DeleteForRemoval`, `DeleteRemoved`. Errors are actions of their own: `DownloadFails` (the
temp file is created outside the `try`), `PersistFails` (then the `finally` block:
`DropTempFailed`), `InsertRejected` (unique index, or the foreign key after a hard
deletion), `Fail` anywhere else, `Stall` (the response breaks off and nothing ends the
writer), `Restart`, `HardDelete`. `kept` and `calm` are history. Losing the avatar when a
call fails between its delete and its insert is what the code does; `AvatarKept` says it is
the only such way.

### LogFileWriter

An entry waits for the entries before it (`ItsTurn`, the promise chain), checks the size
(`Stat`), runs the loop of renames (`Shift`), renames the current file (`Move`) and appends
(`AppendEntry`). A file is the set of its entries and its size; an entry has any length up to
`MaxLength`, and the code compares the limit with the size before the entry is appended, so
a file may outgrow the limit by less than one entry (`FilesBounded`). A failed append is
taken to leave nothing behind.

The code swallows the errors of all file operations. `StatFails` is `safeStat` on the
current file, which then is not rotated; `ShiftFails` is either error of a turn of the loop:
that of the rename, or that of `safeStat` in `exists`, which makes the file count as absent.
In both cases the next turn renames another file over one that is still there.
`MoveFails` and `WriteFails` are the rest, `Restart` may come between any two of these. After
a failed rename or stat entries from the middle may be lost and the current file may grow
without a bound: `OldestGoFirst`, `Retention` and `FilesBounded` are therefore stated as long
as none has failed (`smooth`), `FilesInOrder` for all.

### UserAccounts

`rows` is the table (a row carries its soft deletion), `used` the ids handed out, and the
functions on `Request` are the handlers in flight. There are no transactions, so a handler
is one action per statement sent to the database, with what it makes of the result; a
request is refused, goes on or has written in that one action.

| Code | Actions |
|---|---|
| validation of the body, `resolveCreatePayload` | `Start`, `Create`, `Valid` |
| `assertUniqueFields` | `CheckEmail`, `CheckUsername` (soft-deleted users count) |
| `create`, and the unique indexes | `Insert`, `InsertRefused`, `FindCreated` |
| `update` | `AssertExists`, the two checks, `ApplyUpdate`, `UpdateRefused`, `FindUpdated` |
| `softRemove`, `hardRemove` | `FindForRemoval`, `SoftDelete`, `HardDelete` |
| `updatePassword` | `FindPassword`, `SavePassword` |
| `validateLocalUser` | `ReadCredentials`, `FindSignedIn` |
| `validateGoogleUser`, `generateUniqueUsername` | `FindGoogle`, `NameFree`, `NameTaken`, then a creation, `FindSignedIn` |
| any statement that fails | `Fail` (a 500, or a 401 from `LocalStrategy`) |
| the answer | `Respond` |

A password stands for its hash: nothing in the code compares two hashes. Who is an
administrator is left out; every caller may ask for every operation. Three variables are
history. `grounds` collects, in every state while a request is served, the accounts it is
entitled to *then*; `clashed` whether another account had its keys; `wrote` whether it has
changed the table. A handler that reads twice has no single moment it can be judged at, and
these say what survives: *some* moment of the request justifies the sign-in
(`SignInJustified`), the password change (`PasswordsProved`) and the refusal
(`ClashesAreReal`). A user locked or given another password between the two reads of a
sign-in is still signed in, and the models say so by asking for one moment only.

What came out while modelling:

* Two overlapping registrations of one email pass both checks; the unique index refuses the
  second, and since the exception filter knows no database errors it is a 500
  (`DuplicatesAreConflicts`, run `user_duplicate`).
* An update of a soft-deleted user is stored and then answered with a 404, as `updateById`
  touches it and `findOne` does not see it: the exception of `RefusalsChangeNothing`.
* `updatePassword` answers 204 also when the user was hard-deleted before the write, and of
  two overlapping changes with the same old password the later one wins.

### ResourceLimits

`rows` is the table of one limited entity, `config` its `@Limit`, and the functions on
`Request` the guards at work, one action per query with what the guard makes of the result:

| Code | Actions |
|---|---|
| `resolveLimitAction`, `resolveContext` | `Arrive`, `Action`, `Resolve`, `Userless` |
| `hydrateContextFromEntityId` | `Hydrate` (reads deleted rows) |
| `TreeLimitStrategy.resolveParentInfo` | `Walk`, one row per step |
| the count of the four strategies, the depth limit | `Count`, `Group`, `Place`, `MaximumAt` |
| `resolveDynamicUnits` | `Link`, one row per step, and `Children` |
| `assertCanConsume`, the snapshot of a list | `Consume`, `Judge` |
| any query that fails | `Fail` |

No controller of the repository uses the guard yet; what its handlers do is external:
`Perform` creates the rows that were asked for where the guard looked, `Respond` answers
without writing, `Delete` and `MoveRow` are writes by handlers without a limit. `up` is the
parent in a tree and the link of a linked list, `owner` the user, the parent of another
entity or the scope. `user` of a request says whether a guard before this one has set
`request.user`: `resolveAuthenticatedUserId` reads `sub` of it without a check, so a limit by
user on a public route ends as a TypeError, that is a 500, when the body, route and query
name no user either (`typeError`); with a user whose ids are blank it is a 400. The depth a
linked list may have on its own is `Safety`. `late` and
`stale` are history: how many rows joined the group after the count, and whether the table
has changed at all since the request came.

The verdict of an undisturbed request is compared with `Due`, which is written from the
shape of the table (least sets closed under parents) instead of the walk. Of a disturbed one
the code can promise two things: the walk ends, and a maximum is exceeded only by rows that
came in between. Of the walks, the one towards the root tests the depth after the query and
reads `Safety` + 1 rows before it gives up, the one along a list tests it before and reads
`Safety`. That it can be exceeded at all follows from the code: the guard neither
locks nor counts again.

### ImageAttachments

`cover` is the unique row per owner `replaceOne` keeps, `gallery` the rows with the order
numbers of `appendMany`, `files` the store, `used` the names drawn. Nothing in the
repository calls the service yet: the callers are external (`Start`, `RemoveImage`).

| Code | Actions |
|---|---|
| `ImageFilesInterceptor`, `ImageFileInterceptor`, the pipes | `Start`, `StartAppend`, `StartReplace` |
| `findLimitSnapshot` | `Snapshot`, `Remaining` |
| `appendMany` | `CountImages`, `Upload`, `SaveImages` |
| `replaceOne` | `FindExisting`, `Upload`, `Create` or `Merge`, `DeletePrevious` |
| `Promise.all` over the uploads | `Pending`, `UploadFails`, and `StrayUpload`: an upload that goes on after the call was answered |
| `getAwsS3Module` of the S3 driver | `ImportResolves`, `ImportFails`: all uploads wait for one cached import |
| a query that fails, a restart | `Fail`, `Restart` |

History says how far two calls disturbed each other: `joined` counts the pictures others
added since a call counted, `removed` the owners who lost one, `calm` whether anything
failed or overlapped. As in `ResourceLimits`, what the code can promise is that the maximum
is exceeded, and order numbers are shared, by overlaps only. Overlapping replacements leave
files behind, since both delete the path both have read; rows never lose theirs.

### DatabaseScripts

A script of `package.json` is a list of statements (`Steps`, `todo`), each of them one
action: a SQL statement, or a whole transaction where the code opens one. Some look at what
is there and put further statements in front (`Query`): `FindToDrop`, `ListTables`,
`FindPending`, `CheckAsset`. `data` is the content of the database: schemas, tables, the
record of migrations, rows, the registry of SQL assets and which version of each asset is
installed.

| Code | Scripts and actions |
|---|---|
| `db-drop.ts`, `db-create.ts`, `db-reset.ts` | `Terminate`, `FindToDrop`, `DropDatabase`, `FindToCreate`, `CreateDatabase` |
| `ensureDatabaseSchemas`, `db-schemas.ts` and the start of every data source | `CreateSchema` |
| `db-reset-schemas.ts`, `db-truncate.ts` | `WipeSchema`, `ListTables`, `TruncateTables` |
| `migrate.ts` | `FindPending`, `Migrate`, `FindLast`, `Undo` |
| `db-fresh.ts` | `RemoveInitialSchemaMigrations`, `Generate`, and the scripts it runs |
| `db-seed.ts` | `Seed` (one transaction) |
| `sync-sql-assets.ts` | `EnsureRegistryTable`, `CheckAsset`, then `RunAndRegister` or `RunAsset` and `UpsertRegistry` |
| a statement that is refused, a kill | `Fail`, `Works` |
| everybody else | `ClientConnects`, `ClientWrites`, `EditAsset` |

`quiet` says whether a script has been alone since it started; `suspect` collects the assets
that were half synced or lost the table they sit on, `skewed` whether schemas were reset, or
the record emptied, apart. What came out:

* With `DB_SCHEMA=public`, `schemas:reset` drops the tables and leaves the record of
  migrations: the next `migrate` finds nothing to do. `skewed` is that case.
* In the manifest of the repository the one asset that is not transactional is also the one
  that sits on a table, the index.
* `RecordTellsTruth` is checked, and proved, for two scripts at a time. It does not hold for
  three: two `db:fresh` that cross each other record two migrations although the tables are
  created once, and a revert then drops the tables and leaves the other migration on
  record. Four starts are enough.

### ResponseEnvelopes, ErrorDocuments and ApiRequests

The first two hold the pure functions, translated one by one, with a URL as its segments and
parameters and a text as what the filter tells apart of it (an i18n key, the generic text of
a status, or another). `ApiRequests` is the control: `Receive`, `PassGuards`, `Throw`
(guard, pipe or handler), `TimeOut`, `Redirect`, `Return`, `Intercept`, `Catch`. Both
`CommonModule` and `AppModule` register the interceptors, so `Intercept` happens twice, and
the second takes the envelope of the first for a payload. `SuccessIsDue` compares the answer
with a definition that knows of one layer only, `FieldsReported` with the set of nodes of
the tree of validation errors.

What came out, none of it against a word of the docs:

* A template passed as the whole body of an exception, as `HealthController` and others do,
  has no `message`: the client gets the default text of the status.
* A 4xx without a default (405, 413) is answered with the message and the code of an
  internal error.
* A list of texts with a status of 500 or more is filed as a business failure.
* The report in the `ServiceUnavailableException` of a failing probe is lost in the filter.
* `AppException` has no callers; given `ApiErrors` with a field named `errors`, `code`,
  `kind` or `path` it would take them for its options.

### CollectionPages

`rows` gives the users who match the filter their sort key, `deleted` says who is
soft-deleted. `Ask` is `normalizeFilter` with the scope, page and limit, `ReadIds` and
`ReadRows` are the two statements TypeORM makes of a page with a join, `CountRows` is
`countList` on another connection, `Respond` makes the page and its links, and the client
goes to `next` (`Follow`) until there is none. `Create`, `Update`, `SoftDelete` and
`HardDelete` come in between. `left`, `came` and `late` count who left or came, and the two
properties say that each user missed or seen twice is accounted for by one of them. The
links of `DELETE /users/:id` and of other single resources lead to pages of that path, which
do not exist; no client follows them here.

### HealthProbes

A slot of `Probe` serves `/health`, `/health/live` or `/health/ready`. `check` says where
each check stands; `state` is what each dependency does when asked: answer, refuse or keep
silent.

| Code | Actions |
|---|---|
| `HealthController`, `HealthService` | `Ask` (all checks begin in one stretch; 404 when disabled), `Report`, `BuildReport` |
| `DatabaseHealthIndicator` | `Replies`, `Refuses`; down at once after `Destroy` |
| `RedisHealthIndicator.pingTcp` | `Replies`, `Refuses`, `ConnectTimesOut` |
| `StorageHealthIndicator`, local driver | `WritesFile`, `Unlinks`, `Refuses` (which may leave a file) |
| S3 driver | `Replies`, `Refuses` |
| `TimeoutInterceptor` | `TimeOut`: the checks go on |

`works` and `fails` are history: which dependencies worked, or did not, at some moment since
the probe came. A 200 does not say that all worked at the same moment, and `VerdictsAreTrue`
does not claim it. A handler that asks a silent database or storage hangs past its 408;
`ProbesSettle` has that exception and no other.

## 4. Runs

| Run | Shows |
|---|---|
| `token_safety` | `RevocationLasts`, `RevokedNotHonoured`, `ReplayRejected`, `ExchangedTokenIsDead`, and the refinement `KeepsContract` |
| `request_liveness` | `RequestsFinish` of tokens, and `RequestsAnswered` of accounts, also when no name is free for a Google account |
| `refresh_live` | the counterexample within one second |
| `avatar_safety` | `NoDanglingAvatar`, `AvatarKept`, `NoLeak` |
| `avatar_stall` | the login that gets no answer when a download breaks off |
| `log_and_health` | of the log `FilesInOrder`, `OldestGoFirst`, `Retention`, `FilesBounded`, `EntriesSettle`; of the probes `VerdictsAreTrue`, `ProbesCleanUp`, `ProbesSettle` |
| `user_accounts` | `UniqueKeys`, `ClashesAreReal` under clients that compete for keys; `SignInJustified`, `PasswordsProved`, `RefusalsChangeNothing` under clients that sign in while accounts are locked, changed and removed |
| `user_duplicate` | the 500 of two overlapping registrations |
| `image_attachments` | `RowsHaveFiles`, `NoLeak`, `OverrunIsOverlap`, `AppendedLast`, `SnapshotKept` |
| `database_scripts` | `RegistryTellsTruth`, `RecordTellsTruth`, `RepairsSucceed`, `FinishedMeansDone` |
| `api_requests` | `SuccessIsDue`, `FieldsReported`, `ErrorsExplained` of one request; `WalkMissesNoOne`, `WalkRepeatsNoOne` of a walk |
| `limit_guard` | `VerdictIsRight`, `OverrunIsOverlap`, `WalksAreShort` |

Four runs hold two instances side by side, told apart by a variable `part` (or `clients`)
that never changes: a behaviour belongs to one of them and leaves the state of the other one
as it was. The state space is the sum of the two, and nothing is claimed of their interplay;
it saves a run where two questions have small instances of their own. The type invariants
are proved and no run lists them, but for the ones of `ResponseEnvelopes`, `ErrorDocuments`
and `ApiRequests`, which need none: a document of the wrong shape is not the one that is due.

Each property of a passing run has a mutant of the code in the module (the definitions
commented "Mistake, for mutation") under which the same run refutes it.

**Bounds.**

* Tokens: two request slots, since every race here is between two handlers (or one and the
  clock, the clean-up or a restart); slots are reused, so a run holds any number of
  requests. One payload, as tokens of different users share no state. The clock stops at 2
  with lifetimes of 1 and 2: a token expires during a request, and a refresh token outlives
  an access token. Liveness uses one second less.
* Avatars: one user, as rows of different users are independent, three overlapping calls and
  four pictures, so that two replacements overlap on top of an existing avatar.
* Log: three rotated files, so the loop runs twice, a limit of two bytes and entries of one or
  two, so files reach the limit with one entry or two and outgrow it by one byte; with seven
  entries the oldest file is dropped, also after a restart or a failure. The model stops
  when all entries are logged, hence `CHECK_DEADLOCK FALSE`, as a logger with nothing to log
  does.
* Probes: one slot, as probes share nothing but the files, of which `MaxTemps` may be left
  from before, and two changes, so that a dependency fails and comes back, or two change,
  while a third is awaited. The two theorems are for any number.
* Accounts: two ids, so there is an account besides the one a request is about, two requests
  (slots are reused), two emails and usernames, one or two passwords, and for each kind of
  clients only the bodies its question is about. `IdLeft` keeps an id for each creation in
  flight. `Attempts` is 1 or 2 instead of 10, as the rounds are alike.
* Limits: three rows, the least that hold a cycle that does not come back to where the walk
  began and a chain longer than a `Safety` of 2 (1000 in the code); the run starts from
  every table of three rows. A walk towards the root may read all three, `Safety` + 1: its
  bound is reached here, and only a row read twice could break `WalksAreShort` in this run;
  the theorem is for tables of any size. One request slot sends every kind of request, the other creates
  a row, and one write may come at any moment; `OneDisturbance` keeps the second request and
  the write from both disturbing the first, as either alone can come between any two
  queries.
* Images: one owner, two calls of up to two files, a gallery of three and five paths: the
  maximum is reached with one call and exceeded with two, and a replacement overlaps another
  one on top of a row that exists.
* Database scripts: two slots and two starts from six kinds of database, so any of the
  fourteen scripts runs after, or across, any other; one application schema, `DB_SCHEMA`
  that is `public` and one that is not, one asset of each kind of the manifest, two versions
  of a file, three names of migrations (one in the tree and one per `db:fresh`). It stops
  when both starts are used up, hence `CHECK_DEADLOCK FALSE`.
* Requests: 3299 payloads (each extra in each of the places it may be given in, absent, well
  formed or not) and 2336 exceptions (the four classes, statuses with and without a default,
  the shapes of bodies, trees of validation errors of depth two), on five kinds of routes. A
  request is answered once, and a walk ends, hence `CHECK_DEADLOCK FALSE`.
* Walk: three users with two sort keys, so keys tie; pages of one, and of two by the
  maximum; two changes of the table, one before and one behind the place where the client
  stands.

Slots, users, files, ids, rows and keys are symmetric in the safety runs; those with a
liveness property use no symmetry.

**Fairness.** Weak fairness of the steps of each call or entry: the event loop resumes a
handler whose promise settled, and the database, the file system and the hashing library
settle theirs with a result or an error. Of probes, weak fairness of the steps of a probe
and of its 408, which is a timer of the event loop; a dependency that keeps silent is a
state in which no step of its check is enabled. Nothing is assumed of clients, the clock,
the clean-up, timeouts of other requests, restarts, or of the remote server an avatar comes
from. The runs with two parts state the same fairness for each part as long as the behaviour
is of it.

## 5. Proofs

The theorems hold for all values of the constants.

* `TokenLifecycleProofs`: the inductive invariant adds to `TypeOK` and `RevocationLasts`
  what a request knows at each stage (`RequestOK`): a token that was late is still recorded
  as revoked, and the date of its query is not in the future; so a look-up that misses it
  ran at or after its expiry (`LookupFindsRevoked`), which gives `RevokedNotHonoured` in the
  guard and, since `refreshTokens` looks the token up before it verifies it, the stronger
  `ReplayRejected`. Without the stage facts the properties are not inductive: a request in
  `verifyRefresh` could carry a revoked, unexpired token. The same invariant gives the step
  simulation of `ImplementsContract`.
* `UserAvatarsProofs`: no two rows name one file, a name being ingested is in no row and in
  no other call (`FreshFiles`), and a path about to be deleted is in no row once the row is
  gone (`OldPaths`). `NoDanglingAvatar` alone is not inductive: a call could be about to
  delete a file that a row names. `NoLeak` has an invariant of its own (`CalmInv`): as long as
  nothing failed or overlapped, a user has one call at a time (`Alone`) and what it has read
  is still what his row says (`Seen`), so a replacement deletes the file it replaces.
* `OperationsProofs`, of the log: the chain lets one entry at a time at the files (`OneAtATime`),
  what is on disk precedes whatever is not yet settled (`DiskIsPast`), and the loop variable
  stays in range (`LoopBounds`); a rename onto the next suffix then keeps `FilesInOrder`,
  whether or not an earlier rename or stat failed. The three properties about rotations in
  which none fails rest on `RInv`: the suffix a rotation renames to next is empty (`MovedAway`), so only the
  first rename can drop a file, and that is the oldest; but for this `Gap` the rotated
  files have consecutive suffixes, and nothing was dropped while one is to spare
  (`NoHoles`); each had reached the limit when it was rotated (`RotatedFull`), and an entry
  about to be appended finds the current file below it (`AppendRoom`). That sizes and entries
  move together, so a file has a size if and only if it has entries, is `Sized`. Counting the
  files that have reached the limit gives `Retention`.
* `UserAccountsProofs`: the invariant says for each stage which operation is being served,
  that a creation has its whole payload, that `grounds` and `clashed` hold what the request
  is entitled to now, and that a request about to be signed in has its account in `grounds`
  or the account is invisible for good. The last rests on `Mono`: ids are not given twice
  and nothing undeletes. `OneRequest` reduces a step to its own request: the facts about the
  others survive because they are about history, about stages, or about deletions.
  `UniqueKeys` is kept by the index alone; the checks before it matter for `ClashesAreReal`.
  `RefusalsHarmless` needs that a request that has written can only be refused by a final
  read that does not see its account.
* `ResourceLimitsProofs`: the invariant adds to the types that a walk has seen as many rows
  as it is deep (`WalkOK`) and that, from the count on, the group is no larger than what was
  counted plus `late` (`CountOK`); an admitted request fits what was counted. `Outgrows` is
  the fact about cardinalities behind it. `WalksAreShort` needs nothing of the
  table: the depth is at most `Safety` while a row is queried towards the root, as `Stops`
  tests it after the query, and less along a list (`StageOK`). The level rules need that a set of configured rules has a first
  (`SmallestNat`). `VerdictIsRight` compares a walk with a least set. `RInv` says that what
  an undisturbed walk has seen is a path of the table upwards from where it began, and that
  the rows above a row are the least closed set that holds it; a walk that ends has then seen
  the whole of that set, and its depth is the one `Due` computes.
* `ImageAttachmentsProofs`: the invariant is the types with `Paths` and `Counts`. `Paths`:
  rows have files and no two rows one path (`RowsDistinct`), an upload is known to one call
  only and in no row (`UploadsOwned`), the path a replacement read is its owner's until it
  writes the row and nobody's afterwards (`SeenIsOld`), and a call that uploads nothing
  holds nothing (`EmptyHanded`). `RowsHaveFiles` alone is not inductive: `DeletePrevious`
  deletes what was seen before an upload. `Counts`: from its count on, the gallery of a call
  has no more rows than it counted plus `joined` (`CountsKept`), and all orders are below
  the number of rows, and no call has counted more, as long as no picture was removed
  (`OrdersKept`). `NoLeak` follows from a `CalmInv` like the one of the avatars, with no
  stray uploads and `Current` in place of `Seen`. `SnapshotKept` needs `PromisesHold`: what
  a snapshot left an owner is no more than what remains, since only a save makes less
  remain, and it withdraws the promise.
* `DatabaseScriptsProofs`: `Programs` says what the list of statements of a script looks
  like: the run of an asset that is not transactional is directly followed by its record
  (`Formed`), and a script that holds a connection ends in closing it (`Ended`), so a script
  that is done holds none. `Registered` and `Truthful` say for an asset that a script
  between the two steps has just run the version it is about to record, unless the asset is
  suspect. The sequences of statements are why it needs lemmas about `Tail` and `\o`, and
  about a manifest of any length. `QInv` is about scripts that nobody crosses. The
  statements of `db:drop`, `db:create` and `db:reset` are stretches of those of `db:fresh`,
  so one account of what `db:fresh` has established after its first k statements
  (`Rebuilt`) serves all four; the others begin by ensuring the schemas and end by closing,
  and differ in the part between, for which `Served` says what k statements have achieved.
  A script that is quiet and k statements on is there (`Undisturbed`), and any step of
  anybody else ends its quiet: from the first follow `RepairsSucceed` and, at the end of the
  list, `FinishedMeansDone`. `PInv` is for `RecordTellsTruth`, with no more than two scripts
  at once: there is one migration on record or none (`OneMigration`), and what a script is
  about to undo is on record, or the other script has just undone it and cannot record
  another one before this one is done (`UndoesTheLast`).
* `OperationsProofs`, of the probes: a probe under way has asked what it covers (`Asking`), a settled
  check whose client still waits is something the probe lived to see (`Witnessed`), and each
  probe between write and unlink has a file (`FilesThere`). `Witnessed` is what
  `VerdictsAreTrue` needs: the verdict reads settled checks, which may be older than the
  present state of their dependencies.
* `ApiProofs`, of a request: `Twice` says that the second interceptor makes of the envelope
  of the first that envelope again: the extras it extracts are those of the envelope, none is
  refused as malformed, the pagination has its links already, and laying the links of the
  request and the page over links that hold them changes nothing. `Due` says that one pass
  makes what the property calls due, which is said without the merging: a candidate after the
  other (`FirstOfThree`), the links of the pages by their numbers. With these, `Enveloped` is
  inductive: between the passes the payload is what the handler returned or its envelope.
* `ApiProofs`, of a failed request: the document of an answer is the one of what was thrown
  (`Explaining`), so both theorems are about functions. What stands for induction is a least
  counterexample: a set of numbers that is not empty has a least one (`LeastOf`). With it, the
  functions that append one failure after another (`FiledThere`), concatenate (`JoinedThere`)
  and flatten a tree (`AllFlat`, by the depth of its lists, each depth agreeing with the ones
  below it, `OneWay`) are shown to exist, and so to be what their equations say. A bag of
  failures has at least one at each path (`FiledIn`), which gives `ErrorsAlwaysExplained` for
  trees of any depth the assumptions allow. For `FieldsAlwaysReported`, `Enumerated` says that
  a sequence holds what a function gives for each member of a set, once: it is kept by
  concatenation (`ListedAll`), holds of what flattening finds and the nodes that are told of
  (`ListedNodes`), and of what is filed and the constraints of these (`ListedFilings`); so
  the failures at a path are as many as the constraints violated there (`ListedCounts`,
  `BagCounts`).
* `ApiProofs`, of the walk: a user's place is the number of users listed before. The order is
  total, so each place is one user's (`RanksDiffer`), a window of the query is the users with
  its places (`WindowIs`), and a change to one user moves the others by one place at most
  (`RanksMove`). The links matter through three facts: a next page has the same list and
  begins where this one ends (`UrlOfPage`), there is none only if the count is not beyond this
  page (`MetaIs`, `NextLink`), and the answers about pages and links lead to the first page
  (`FirstLink`). `WalkInv` counts, while the walk is under way: who was not met although his
  place is among those asked for (`Skipped`, paid for by `left`: a user slips below the
  boundary only when someone before him leaves, and only one stands at the boundary), and who
  was met and stands beyond it (`Overtaken`), is on the present page again (`Again`) or has
  been seen again, paid for together by `came`. Neither property is inductive without the
  users who are about to be missed or repeated. `CountOK` carries `late` from the count to the
  rows of a page.

Assumptions: there are finitely many rows, users and probes, the lifetimes are positive, null
values are not data, the limits of the log are natural numbers, a gallery takes a natural
number of pictures and a call brings at least one file, the schemas and the assets are
sequences of names, of which the assets on a table or in steps are some. In the model
itself: access and refresh secrets differ (the environment does not check it), one clock
serves the process and the dates it sends to the database, both tokens of a pair are signed
in the same second, random names do not repeat, the hash of a token or of an SQL file does
not collide.

Of a request, the assumptions say what handlers and `LimitGuard` send: pages are counted from
one, as `PaginationService` does, a link that is there is not null, what is hidden under the
symbol was put there by the code and is well formed. What is sent beside the data may be
malformed, as it is checked at run time. Of what is thrown they say that statuses are those
of errors (400 to 599), that lists are finite, that a body made of texts has one, and that
validation errors come with the two classes that carry them and are nested once at most:
class-validator nests as deep as DTOs do, and none of the API nests another; `FieldsReported`
knows nodes of such trees only. `MergedAssumption` and `RouteAssumption` also say
that an object the code makes is not null, which the model leaves open, null being a constant.

Model-checked only: liveness (`RequestsFinish`, `EntriesSettle`, `RequestsAnswered`,
`ProbesSettle`, which the provers cannot reach); `RecordTellsTruth` is proved for two scripts
at once and false for three.

## 6. Not modelled

* Configuration: it is read once before anything else, by a schema that lists each variable
  with its default, and a model could only repeat the list. The values that matter are
  constants.
* Bootstrap, middlewares, DTOs, serialization and translations: wiring of libraries, shapes
  and wording, without state. The order of interceptors and filter that the wiring fixes is
  in `ApiRequests`.
* Of the storage, `duplicateRelativePath` (nothing calls it) and the parsing of multipart
  bodies by multer.
* Of the users, `updateLastLogin` (nothing calls it and it writes a column nothing reads),
  the search text and the read of a single user.
* Of the scripts, the dry run and assets that are switched off (they write nothing),
  `SqlAssetsService` (it calls the same function and swallows its errors), `--schemas` with
  other schemas than the required ones, `migration:show`, the values of the seeder.
* Of the responses, wording, locale, meta data, time stamps, request ids,
  `request.__responseExtras` (nothing sets it) and paths named like what every object
  inherits.
* Of the probes, latencies and details; what else happens in the shutdown `main.ts` hooks
  into: `Destroy` is the end of the data source, which may come before the last probe.
* `AccountsModule` is imported by no module `AppModule` imports; the models describe what
  its handlers do where it is mounted.
* Passwords and profile data are abstracted from the token model (a login is a payload), the
  contents of images from the avatar and image models.
