# Palworld Companion in TLA+

Models, model-checking runs and proofs of the server of Palworld Companion: its
accounts and sessions, who is who, the roster of players it keeps in step with
the game server, the server summary, the tasks, the rate limiter and the migrations of its
database. Every definition translates code under `src/`; `PROJECT.json` names
the lines (`map`), the runs, the hazards and the theorems.

Six of the seven components are stated twice: as the code has them, with the
steps of their requests, their mutexes and their failures, and as what they
promise, in a specification without any of these. That the first implements the
second is checked by TLC on an instance and proved for every instance.

## The system

| Component | Code | State | Operations | Talks to |
| --- | --- | --- | --- | --- |
| Accounts, sessions, administration | `internal/auth`, `internal/httpapi/auth_handlers.go` | tables `users`, `sessions`, `system_settings.setup_completed` | setup, register, login, logout, change and reset of passwords, approve, reject, disable, enable, delete, restore, roles, revocation | roster (to register), storage |
| Command line | `cmd/companion/main.go` | none of its own: opens the same database from another process | `users create-admin/approve/reject/set-role/reset-password/list` | the account operations |
| Player roster | `internal/roster` | table `player_roster`, `player_roster_last_success_at`, cache and cooldown in memory, one mutex | `Players`, `FreshPlayers` | game server, storage, the bound rows of `users` |
| Palworld client | `internal/palworld` | none | `GetInfo`, `GetMetrics`, `GetPlayers`, validation | game server, with a timeout |
| Server status | `internal/serverstatus` | two caches, a mutex each | `Summary`, `Players` | client, roster |
| Tasks | `internal/tasks` | table `tasks` | create, list, get, update, delete | storage, names of owners in `users` |
| Rate limiter | `internal/httpapi/ratelimit.go` | a map of windows, a mutex | `allow` | in front of login, registration, setup, password change |
| Storage | `internal/storage` | the database file, `schema_migrations` | open, migrate | one connection for the whole process |
| HTTP | `internal/httpapi/api.go` | none | routing, decoding, static files | all of the above |
| Application, configuration | `internal/app`, `internal/config` | none after the start | wiring, defaults, durations | all |
| Steam OpenID | `internal/auth/openid.go` | none: disabled | answers 410 | – |
| Browser application | `frontend/src` | stores of the session, the status and the tasks; the router guard | calls of the API | HTTP |
| Breeding data | `tools/paldata` | none: an offline converter | – | – |

Interaction is by call, inside one process, on a database pool of one connection;
the command line is a second process on the same file. There are no queues and
no background jobs: everything happens in some HTTP request or command.

What is hard about it:

- an HTTP request is several database steps with slow work in between (Argon2id,
  a call to the game server), so it acts on what it read earlier;
- administrators act on each other, from several browsers and from the command
  line, and there must remain one;
- a deleted account keeps the status it had under the mark of its deletion, and
  must come back as what it was;
- the roster joins rows of the database with a snapshot in memory, and either
  may be ahead when something fails in between;
- many callers queue for one mutex that is held across a network request.

What makes each component correct: nobody is admitted without an approval, a
revocation leaves no session, an administrator remains, setup happens once
(accounts); an answer that claims to know who is online comes from one recent
snapshot, the game server is not asked too often, everybody is answered
(roster); every reader sees only what is theirs or shared, the total and the
page agree (tasks); a value is never shown as fresh longer than its time
(status cache); no key gets more than its limit in a window, and the map stays
small (rate limiter); a database is at a whole version, whatever dies in between
(migrations).

## Modules

### Accounts

`Accounts.tla` models `internal/auth` with its handlers and the commands of
`companion users`. One record per account stands for its row in `users`, one per
token for its row in `sessions`; `req` holds, for each HTTP request or command in
flight, its stage and the values it has read.

| TLA+ | Code |
| --- | --- |
| `SetupAdmin`, `CreateRecoveryAdmin` | `Repository.CreateInitialAdmin`, `.CreateRecoveryAdmin` |
| `Register` | `Service.Register` (the INSERT; where the snapshot comes from is in `Roster`) |
| `LoginRead`, `LoginInsert` | `Service.Login` before and at `CreateSession` |
| `ChangeRead`, `ChangeCommit` | `requireUser` + `VerifyPassword`, then `UpdatePassword` keeping the caller's session |
| `AdminRead`, then `SetStatus`, `Restore`, `Approve`, `Reject`, `SetRole`, `ResetPassword`, `RevokeUserSessions` | `requireAdmin`, then the operation on whatever the tables hold by then |
| `RejectRevoke` | the second statement of `Repository.Reject` |
| `ByCli` | the same operations from the command line, without an actor |
| `Logout`, `Expire`, `Abort`, `Restart` | the end of a session, of a request, of the process |

*Granularity.* `storage.Open` limits the pool to one connection, so in the
server a statement, or a transaction, is one step. The command line is another
process: SQLite runs its transactions with snapshot isolation under WAL, and a
transaction that read a snapshot which is no longer the newest fails to upgrade
to a writer, so what commits is serializable and a step here too; what does not
commit is `Abort`.

*Data.* A password is the version number of the hash stored for it: every
`HashPassword` draws a salt, so a hash is never stored twice, and 0 is the NULL
of a row that came from schema 3. `Tokens` are random and never reused while a
row exists. Names, display names, reasons and time stamps are left out. `late`
of a session and `overtaken` of a request are history, not columns: the login
read its account before the account's sessions were revoked.

*Initial states.* An empty database, or the one migration 4 leaves of schema 3:
players without a password in the three statuses of schema 3, with live sessions
of the active ones (schema 3 revoked the sessions of the others when it
disabled or deleted them), and setup complete if one of them is an administrator.

`AccountLifecycle.tla` is what this promises to somebody who sees neither rows
nor requests: an account has a standing, may be an administrator and may be
archived; archiving changes neither of the others; somebody stays in charge.
`Accounts!LifecycleSpec` is that specification under the mapping
`Standing`/`archived`/`admins`.

### Roster

`Roster.tla` models `internal/roster` and the registrations that call it. A
caller waits for the mutex, then answers from the cache, answers that it does
not know (cooldown), or fetches, applies the snapshot in a transaction, fills the
cache and answers; `FreshPlayers` always fetches and hands its snapshot to a
registration, which goes on without the mutex.

| TLA+ | Code |
| --- | --- |
| `EnterCached`, `EnterCooling`, `EnterFetch` | the three ways through `Service.Players`, and `FreshPlayers` |
| `FetchFails`, `FetchSucceeds` | `GetPlayers` and `ValidatePlayers` |
| `ApplyCommits`, `ApplyFails` | `Repository.ApplySnapshot` |
| `Succeeds`, `Fails` | the cache and `finishRefresh` |
| `StateFails`, `Answer` | `responseFromState`, with and without an error of `Repository.State`, and the deferred unlock |
| `Register`, `RegisterRefused` | the end of `Service.Register` |
| `Tick`, `Restart` | the clock; the death of the process, tables kept |

*Abstractions.* A snapshot is a function from the players online to their
names. Levels, pings and positions travel with the name. A clash of player ids
is one of the reasons for `ApplyFails`, which may always happen; when it really
does is in `Identity`. A failure of `State` turns an answer that knew who is
online into one that does not (`StateFails`); for one that did not it is the same
answer. `sentAt`, `calledAt` and `settledAt` are history. The clock does not go
back: the code takes the wall clock without its monotonic reading, and on a host
whose clock is set back both time bounds fail by as much.

`Presence.tla` is what this promises to somebody who sees neither mutex, cache,
cooldown nor transaction: there is one latest snapshot, which changes as a whole
and is learned or told by one caller at a time; an answer tells all of it or
nothing; a player joins on a snapshot that was learned for the occasion, never on
a cached one, and keeps the name the latest snapshot had.
`Roster!PresenceSpec` is that specification under the mapping at the end of
`Roster.tla`.

### Identity

`Identity.tla` models who is who: the identifying columns of `users` and
`player_roster` with their unique indexes, the snapshots that rewrite them row by
row, registration by character name or SteamID, and the lookup behind a login.

| TLA+ | Code |
| --- | --- |
| `Snapshots` | what passes `palworld.ValidatePlayers` |
| `RosterClash`, `UserClash`, `Applies` | the upsert and the update of `Repository.ApplySnapshot`, one player after the other, against the rows written so far |
| `ApplySnapshot`, `Sync` | the transaction, on its own or in `Service.loadFresh` |
| `Asks`, `Insert`, `GivesUp` | `Service.Register` up to the hash, the INSERT, and its refusal |
| `CreateAdmin` | `SetupAdmin` and `CreateRecoveryAdmin` |
| `Reached` | `Repository.ResolveByIdentifier` |

*Abstractions.* A text is a member of a set: some are SteamIDs, some are
acceptable usernames, some are both, and `Fold` is what `COLLATE NOCASE` leaves
of it. `steam_id` and `palworld_user_id` are one column, since both are written
together and one is the other with a prefix. `IdsOf` says which player ids the
game may show for a user: one that it shows for two is the case in which a
snapshot is refused. Rows never leave `users`, so deletion needs no action here.

### Tasks

`Tasks.tla` models `internal/tasks` behind its handlers. A request reads its
actor (`Authenticate`), reads the task or the total (`ReadToWrite`, `Get`,
`ListCount`), and then writes by id alone or reads the page (`Update`, `Delete`,
`ListPage`); every statement is a step, since none of them shares a transaction
with another. `SetRole` changes roles under way. Ids come from `sqlite_sequence`
(`lastId`) and are never given twice.

Title, notes and sort order are one value, of the completion stamp only its
presence is kept, the order within a page is left out. `touched` of a request is
history: of the tasks it has read (`Concerns`: the one of its id, or for a list
all that was counted), those that others have written since.

`TaskBoard.tla` is what this promises: a request acts by the role its actor had
when it arrived; whether it may write is decided on the task that is there at the
instant of the write, whose a task is never changes, an id is given once, status
and stamp go together, and what is told was visible to the actor at an instant
before the answer. `Tasks!BoardSpec` is that specification, with an actor for
each request (`ActorFor`): that the code checks on one read and writes later, by
id alone, is what disappears in the mapping. Two restrictions make it hold, and
the proof names them: a task's owner and visibility are never updated, and a freed
id is never given again.

### StatusCache

`StatusCache.tla` models `internal/serverstatus`: `Hit`, `Load`, `Loaded` and
`LoadFails` are the ways through `Cache.Get`, `Present` is the roster's part of
`Service.Summary` and `Answer` its end. A value is the instant of the game server
that it shows (`asOf`), between the beginning and the end of its load; the cache
keeps, as the code does, the instant at which the load began. The roster answers
in one of the ways it can. `promised` is history.

`Gauges.tla` is what this promises without mutexes, loads and entries kept past
their time: one gauge per part, which a viewer reads anew in one step or recalls.
A reading is called stale exactly when it is older than its lifetime at the
moment it is shown; only what was never read is missing; no reading is followed
by one of an earlier state of the game server. `StatusCache!GaugesSpec` is that
specification: a caller that waits, or holds a mutex over a request, is a viewer
that is still looking.

### RateLimiter

`RateLimiter.tla` models `limiter.allow`, which runs under a mutex and is one
step: `Opens` a window, `Counts` in it (and purges), `Refuses`. One limit and one
window serve all keys, because keys meet only in the purge. `total` and `before`
are history: calls let in, so far and at the beginning of each instant.

`Allowance.tla` is what this promises: a window opens with a call and closes by
itself a fixed time later, with no map to look into or to purge, and no key's
calls matter to another. `RateLimiter!AllowanceSpec` is that specification, with
an entry that is over, or purged, read as a closed window (`OpenWindow`).

### Migrations

`Migrations.tla` models `storage.Open` for processes that share a file, each with
the binary of some schema: `ReadHighest`, `RefuseNewer`, then for each version
`Skip`, or `Prepare` (the pragma), `Apply`, `Commit`, `Verify` (the check of foreign keys);
`Busy`, `ApplyFails`, `Fail` and `Exit` are the errors and the death at any point.
The tables are named by the last migration that made them. What is uncommitted
when a process dies is gone, which is SQLite's promise. While one binary uses the
file another is not started, as the manual's upgrade says; two of the same are.
`Verify` leaves out a read of the violations that breaks off half-way, which
`storage.go:245` takes for none found.

`Schema.tla` is what this promises: the schema moves one version at a time, each
version once and with its record, never under a process that serves, and a
process serves the version that is there when it begins. `Migrations!SchemaSpec` is that
specification: a version moves when a transaction commits.

## Runs

| Run | Instance | States | Shows |
| --- | --- | --- | --- |
| `upgraded` | one founder, one legacy player, 2 tokens, 2 requests, 2 password versions | 157 880 | deactivation and password writes end the sessions they should; `AccountLifecycle` is implemented |
| `council` | empty database, two founders, one player, 1 password version | 436 422 | an active administrator remains; approval and sessions; one setup, and first |
| `presence` | 1 player, 2 names, 2 callers, TTL 1, timeout 1, clock to 3, fair | 465 943 | an answer joins one recent snapshot; spacing; renaming against registration; everybody is answered; `Presence` is implemented |
| `lookup` | 2 players, 2 accounts, 2 registrations, 2 player ids, names and usernames that collide | 49 297 | one account per player, logins reach it, the roster is not stopped |
| `rights` | 2 users whose roles change, 2 requests, 2 tasks | 432 821 | who sees and writes what; two editors of one task; `TaskBoard` is implemented |
| `listing` | 1 user, 2 requests, 2 tasks, pages of 1 and 2 | 2 346 060 | total and page against writes in between |
| `windows` | 2 keys, limit 2, window 2, capacity 1, clock to 5 | 19 542 | limit per window, across windows and purges; `Allowance` is implemented |
| `answers` | 2 summaries, lives 1 and 2, timeout 1, clock to 3, fair | 318 524 | age and stamp of values; every summary is finished; `Gauges` is implemented |
| `upgrades` | 2 processes, binaries of schema 3, 4 and 5, fair | 20 632 | versions and tables agree; every start ends; `Schema` is implemented |
| `revocation`, `placeholder`, `check` | as `council` with one founder, as `upgraded`, one process | – | three of the divergences below |

The runs on `Migrations` check for deadlock. The others set `CHECK_DEADLOCK
FALSE`: an instance stops when its finite supply is used up (accounts created,
password versions, the clock, ids of tasks), which the program does not.

*Why the bounds are enough.* Two requests are what a race needs, one that has
read and one that writes; the properties of `Accounts` speak of one account, one
session, or of one account against another. A second token lets a password change
keep one session and end another; two password versions let one write overtake
another. `council` has three accounts so that two administrators can act on each
other while a third is promoted; it has no password writes, which touch neither
roles nor statuses. In the roster and the caches one caller holds the mutex and
one waits, and the clock reaches a load, the end of its value's life and the load
after it. In `lookup` one name differs from another only in case, one username is
somebody's SteamID, one player calls himself by the other's SteamID, and one
player id may move. Two ids of tasks let one be freed and the next be asked for.
Capacity 1 makes every count purge; time 5 is two windows and the beginning of a
third. Three binaries are one before, at and after the migration that rebuilds
`users`. Every named bound (`MaxHash`, `MaxTime`, `MaxTasks`) only ends an
instance; no proof depends on its value.

*What the runs do not say.* In `upgraded` the one player is a legacy row, which
never applies: registration, approval and rejection are in `council`. `rights` has
one text, so there `UpdatesAreConfined` speaks of status and stamp; of texts it is
proved (`UpdatesStayConfined`). It, and `TaskBoard`, allow the later of two edits
to write back what the earlier had changed, because the code does. `SnapshotsApply`
excepts a player id that the game shows for two users: nothing in the code keeps
such an id from stopping the roster. No property forbids that one client's
cancelled refresh starts a cooldown for all (`roster/service.go:89`).

*Symmetry* is used for tokens, requests, keys, users and texts, never with
liveness, and in `lookup` for registrations only, since `Legacy` and `IdsOf`
tell the others apart.

*Fairness.* `presence` and `answers` assume weak fairness of a caller that holds
a mutex (a request to the game server has a timeout, `palworld.timeout`; SQLite
has `busy_timeout`) and strong fairness of taking the mutex (Go's `sync.Mutex`
hands itself to a waiter after a millisecond). `upgrades` assumes weak fairness
of the steps of a process that is starting. Nothing is assumed of the game
server, the clock, the clients, or of deaths.

## Where the documents and the code part

Three runs end in a counterexample:

| Run | Document | Code |
| --- | --- | --- |
| `revocation` | `docs/architecture.md:65`: disabling, deletion and reset revoke the sessions of the account | `service.go:236`: a login that read the account before inserts its session after |
| `placeholder` | `docs/deployment.md:51`: a row without a hash must not log in | `service.go:210`: it is compared with the placeholder hash, and a match is accepted |
| `check` | the migration's check that a violation of foreign keys is an error | `storage.go:240`: it looks after the commit, so that the next start finds the version recorded and serves |

For the first, `OnlyALateLoginOutlivesItsAccount` says exactly how far the
divergence goes: no other live session of an inactive account exists.

Others are visible in the models without a run of their own:

- `docs/security.md:23` says that changing a password verifies the current one;
  `auth/service.go:262` verifies the hash of an earlier read and overwrites one
  that a reset has stored since (`ChangeRead`, `ChangeCommit`).
- `README.md:51` and `docs/security.md:43` promise a limiter of finite capacity;
  `ratelimit.go:37` purges only when an existing entry is counted up, so keys
  that call once pile up until then (`Opens` purges nothing).
- `README.md:17` lets administrators log in by username; one that is all digits
  is looked up as a SteamID (`auth/repository.go:420`), which is why
  `LoginsReachTheirAccount` excepts it.
- `docs/architecture.md:51` lets players log in by a locally unique character
  name; one that equals a username up to case, or is all digits, is looked up as
  that instead. No property is stated of logins by character name.

## Proofs

`AccountsProofs.tla`, for every finite set of accounts and every set of tokens
and requests, from `ConstantsAssumption` alone (founders and players are
different, legacy accounts are players, accounts are finite, the null values are
none of them):

| Theorem | Argument |
| --- | --- |
| `TypeCorrect` | `TypeOK` is inductive, one step per action |
| `ActiveAdminAlways` | a step writes one account (`StepsOnAccounts`, `OtherRows`); if that was the last active administrator the guard refuses it, otherwise another stays (`SomebodyStays`). Finite cardinality is what connects `count <= 1` with "no other" |
| `ApprovalIsNeeded` | inductive with `TypeOK`: what is admitted was admitted, or is being approved or founded |
| `SessionsAreOfAdmitted` | a session comes from a setup or from a login in flight (`SessionOrigin`), that from an active account (`RequestOrigin`); admission is never lost (`AdmittedStays`). The invariant has to speak of logins in flight as well as of rows |
| `OnlyLateSessionsOutlive` | an account stops being active only in a step that revokes its sessions and overtakes its logins (`DeactivationRevokes`, `AfterRevoking`) |
| `RevocationCompletes` | an action property, from `TypeOK` |
| `SetupMeansAdmin` | with `SetupInv`: the flag is set as soon as any account exists on a database that was empty |
| `SetupFoundsOnce` | an action property, from `FoundersInv` (before setup nobody is there but the players of schema 3) and `SessionsAreOfAdmitted`: an account that appears with a session is one that `SetupAdmin` writes |
| `AccountsImplementLifecycle` | `AbsentRows` strengthens `TypeOK`; each write of a row is one abstract step (`LifecycleStep`), everything else a stutter |

`RosterProofs.tla`, for every set of users, names and callers, from
`RosterAssumption` alone (a positive TTL, a timeout of zero or more, a clock
whose bound no proof uses the value of):

| Theorem | Argument |
| --- | --- |
| `TypeCorrect` | shapes step by step, then mutual exclusion: who enters finds the mutex free, who goes on behind it held it |
| `AnswersAreOneSnapshot` | `SnapshotInv` says whom the tables follow while cache and tables are apart: between the commit and the assignment the snapshot of the caller in between, otherwise the cache. `KnownIsOneSnapshot` alone says nothing of that moment and is not inductive |
| `AnswersAreRecent` | `RecentInv` carries the age of a snapshot from the request through transaction and cache to the answer |
| `RegistrationsAreLive` | `LiveInv`: only `FreshPlayers` leads to a registration, and it never answers from the cache |
| `NamesFollowRoster` | `NamesInv`, with the two invariants above: whom a registration works on is in the roster, and no row was seen in the future, so a name replaced meanwhile was last seen before the INSERT |
| `RefreshesKeepApart` | an action property, from `SettledInv`: the end of the latest attempt is in the cache or in the failure, and only `EnterFetch` leads to a request |
| `RosterImplementsPresence` | from `Shapes`, `Exclusion` and `SnapshotInv`: the commit is the step that learns a snapshot, the assignment of the cache the one that passes it on. Nobody is disturbed because the mutex is held throughout (`NobodyDisturbed`), and what is told from the cache is what the tables show (`ShownIsSnapshot`) |

Each action's effect on its caller is stated once (`EnterCachedMoves`,
`FailsShapes`, ...) and cited by every invariant.

`TasksProofs.tla`, for every set of users, texts and requests and every number of
tasks, from `TasksAssumption` alone. `TasksInv` says what a request knows between
its read and its write: the task is the one it read, unless somebody has touched
it since (`ReadOK`), and the total was the size of a set that differs from the
scope only in what has been touched (`CountedOK`, which is what makes
`TotalFitsPage` provable: the total alone says nothing of which tasks it counted).
`IdsStandForGood`, `WritersAlwaysManage` and `UpdatesStayConfined` are action
properties that follow from it, and so does `TasksImplementBoard`: between a
request's check and its write only text, status and stamp of the task may have
changed, or the task be gone, when the write affects no row; so what was decided
on the task that was read holds of the task that is there.
`CompletionAlwaysAgrees` and `IdsStandForGood` are proved here and left out of
the runs, where `BoardSpec` has taken their place.

`RateLimiterProofs.tla`, for every set of keys, limit, window and capacity, from
`RateLimiterAssumption` alone. `LimiterInv` bounds what a key has been let in
since any earlier instant: by what its entry counts since the window opened, by
the limit more before that, by one window's worth when there is no entry
(`KeyOK`). A purge is then harmless because it removes only windows that are over
(`OverIsFree`). `LimiterImplementsAllowance` maps an entry that has expired and
one that is not there to the same closed window: what a
call purges for other keys stands for closed windows already, and the tick that
reaches the end of a window is the one that closes it.

`StatusCacheProofs.tla`, for every set of callers, every time to live and
timeout, from `StatusAssumption` alone. `StatusInv` says that who loads began
after everything the cache holds was obtained (`LoadOK`, from mutual exclusion),
what a caller has been given so far, and that what was promised is still there.
`CachesImplementGauges` needs one more thing of `LoadOK`: while somebody loads,
the entry he found too old is still the entry and still too old, so that what a
failed load falls back on is stale when it is shown, not only when it was looked
at. `ValuesOnlyGoForward` and `PromisesAreKept` are proved here and left out of
the run, where `GaugesSpec` has taken their place.

`MigrationsProofs.tla`, for every set of processes, every number of migrations
and every set of binaries, from `MigrationsAssumption` alone. `MigInv` says which versions
a process has passed at each stage, that active processes share a binary, that
one transaction is open, and that what is applied is what the tables show.
`MigrationsImplementSchema` follows from it: the abstract version changes with a
commit and with nothing else, by one, and never under a server.
`NeverAppliedTwice` is contained in it and is no longer part of the run.
`StartsAreFinite` is the half of `StartsEnd` that needs no fairness: each step of
a starting process lowers `StepsLeft`, no step of another process raises it, and
it is four at most per migration with four more. What remains for TLC is that
such a process is not stopped for ever by the lock of another.

`IdentityProofs.tla`, for every set of texts, SteamIDs and player ids and every
folding of case, from `IdentityAssumption` alone. `IdentityInv` is the unique
indexes together with the shape of each kind of row and the fact that ids in rows
are the game's for that player.

| Theorem | Argument |
| --- | --- |
| `TypeCorrect` | of two rows, the index compares the one written later with the other as it will stay (`LastWriter`, `Earlier`): that every single write was accepted makes the result unique |
| `LoginsReach` | from the indexes on `steam_id` and on the folded username |
| `OnePerPlayer`, `NotDiverted` | no step changes the SteamID or the username of an account (`Kept`), and both stay unique |
| `RosterGoesOn` | an id in a row belongs to its player, so an id shown for one user only cannot clash with another row, old or new |
| `SnapshotsAreWrittenRowByRow` | `Identity` writes a snapshot in one step where `ApplySnapshot` loops over its players, in the order in which the game server lists them. For any order of the players the turns of the loop lead to the tables of the step, and a turn violates a unique index exactly when the step's guard (`Applies`) says that it does. For `users` this needs `IdentityInv`: two accounts never have the same SteamID, so a turn writes one row |

`Identity` has no abstract counterpart: its properties are already what accounts
and names promise. `OneAccountPerPlayer` and `LoginsAreNotDiverted` are what lets
`Accounts` speak of accounts by fixed names.

Also proved and not run: `RegistrationsAreLive`, which `presence` has left for
`PresenceSpec`.

Only model-checked: that every caller is answered (`CallersAreServed`, of the
roster and of the caches) and that every start ends (`StartsEnd`), since liveness
under fairness is beyond the prover; and the three divergences.

## Not modelled

- Routing, decoding of requests, wording of answers and logs, static files: no
  state. The handlers that change state are in the module of the component.
- Sorting of lists and of the roster, levels, pings, positions: data that no
  property tells apart.
- The order of time stamps within a second, where RFC 3339 strings of different
  length compare differently from times: `Accounts` lets an expired row survive a
  cleanup, which is its only effect.
- Waiting for the single database connection: result sets are closed before
  the next statement of their reader and no transaction calls another component,
  so there is no cycle of waits to look for.
- `SetStatus` and `SetRole` as two statements in two processes: SQLite refuses
  to upgrade a stale read transaction, so what commits is serializable; that is
  SQLite's promise and is taken as external.
- The browser application (stores and router guard): the project ends at the
  HTTP API. What is worth a model there is the order of answers to two loads in
  `stores/tasks.ts`.
- Configuration and assembly (read once), deployment files, Steam OpenID
  (disabled, answers 410), the converter of game data (offline, another
  language).

## What could come next

A clock that steps back, to bound by how much it can keep a cache or a cooldown;
the task store of the browser, whose loads with different filters may be answered
in the other order; the failure between `CreateSession` and the cookie, which
leaves a session whose token nobody has.
