# Waygates: TLA+ models, model checking and proofs

Waygates is a web UI and API in front of a Caddy server. Its backend (Go, under
`src/backend`) keeps proxies, access rules, users and settings in PostgreSQL,
turns them into one Caddy configuration, writes that to `caddy.json` and makes
Caddy load it. This directory models the parts of the backend whose correctness
depends on the order of things: the pipeline from the database to Caddy with
what it builds and how it replaces the file, the operations that change proxies
of both kinds, access control, accounts and sign-on, settings and the audit log,
and what the dashboard shows of Caddy's log and traffic.

## 1. Inventory

### Parts, their state and their operations

| part | state | operations | talks to |
|---|---|---|---|
| sync service (`service/sync_service.go`) | `SyncStatus`, mutex `s.mu`, ticker | `Start`, `FullSync`, `SyncProxy*`, `RemoveProxy`, `EnableProxy`, `DisableProxy`, `UpdateCatchAll`, `Stop`, previews | repositories, builder, file manager, reloader |
| config builder (`caddy/config`) | none (pure) | `Build`, `BuildJSON` | called by the sync service |
| file manager (`caddy/file_manager.go`) | `caddy.json`, temp files, backup directory, mutex | compare, atomic write, backup, clean-up by age | called by the sync service |
| reloader (`caddy/reloader.go`) | mutex `r.mu`, counters | `ValidateJSON`, `ReloadJSON` | the `caddy` binary, Caddy's admin API |
| proxy service and repository | table `proxies` | create, update, delete, enable, disable, bulk, import | sync service |
| layer-4 proxies | tables `l4_proxies`, `l4_routes` | create, update, toggle, delete, bulk, export | read by the build; starts no sync itself |
| ACL service, verify endpoint, sync of assignments | groups, IP rules, basic-auth users, providers, restrictions, assignments, sessions, branding | CRUD, login, the access decision for each proxied request | repositories, sync service |
| single sign-on | `sso.*` settings, cached provider, one-time codes in memory, accounts | OIDC round trip, provisioning, code exchange, configuration | external provider, users, goauth |
| user service, registration | table `users`, goauth's roles | create, update, reset password, delete; register, change password, default user of a start | goauth |
| settings | table `settings`, one row per key | not-found page, metrics endpoint, any single key | sync service |
| audit service | audit log, cached configuration | log, list, configure | every handler |
| traffic metrics, scraper | table `traffic_samples` | scrape, prune, compute rates | Caddy's metrics |
| Caddy log tail | offset and carry of one stream | backfill, follow | a rotated file |
| entrypoint (`docker/entrypoint.sh`) | two processes | start backend, start Caddy, exit when either ends | container runtime |
| login and tokens, routes, middleware, web UI | none of their own | | goauth |

### What is hard here

* **Nothing runs in one transaction.** A request is a read, a check, a write and
  a sync, each on its own; the build reads table after table.
* **Syncs overlap.** `IsSyncing` guards `FullSync` only. The syncs of request
  handlers call `performFullSyncJSON` directly and run beside it and beside each
  other; `s.mu` covers a build and `r.mu` a reload, nothing covers the way from
  the build to the write or from the write to the reload.
* **Every step can fail after the one before it took effect.** The file is
  written before it is validated and loaded; a proxy is stored before it is
  synced; a profile is stored before its role.
* **Order is meaning.** Caddy takes the first route that matches; the builder
  flattens proxies, groups, security rules and the rest into one list.
* **Other programs are watched, not asked.** Caddy rotates its log and restarts
  with counters at zero, and says so to nobody.
* **Answers get lost.** Caddy may have loaded what the client timed out on.
* **The container restarts** with a half-done sync behind it, and Caddy comes up
  from whatever the file holds.
* **Convergence is the promise.** Failed syncs are left to "the periodic sync".

The hazards, each at its line and with the properties that would catch it, are
in `PROJECT.json`. Properties that make the parts correct:

* sync service: the file gets to Caddy; one `FullSync` at a time and never a
  stuck flag; eventually file and Caddy agree with the database;
* proxy service: hostnames stay unique; what a client is told is what the table
  holds; an update touches nothing it was not asked to;
* proxy service on the sync service: every request ends; a deleted proxy is gone;
* access control: the phases and the loop over groups decide as the union of the
  groups says; a deny rule is never outrun by an edit; a client who is logged in
  is not sent to log in; every change to a group in use is followed by a sync;
* user service: an active administrator always remains; until there is one, the
  next to register becomes it;
* settings: an update that is answered is in the last configuration built;
* audit service: events are logged as the stored configuration says;
* file manager: an atomic file, and nothing replaced without a backup;
* config builder: the list of routes means what is stored, host by host;
* layer-4 proxies: endpoints stay unique, deleted routes stay deleted, an export
  is complete;
* single sign-on: only the saved issuer vouches, a code is spent once, a
  provisioned account gets its role;
* log tail: every line once and in order, and no goroutine left behind;
* traffic: never more than was served, whatever restarts were missed.

## 2. Modules

```
ProxyTable            the proxies table and its UNIQUE(hostname)
  |        \
SyncService  ProxyService      the pipeline; the request handlers
  |     \      /    |
  |     ProxySync   |          handlers running on the pipeline
  |        |        |
  ProxySyncProofs   ProxyServiceProofs
AclVerify -- AclVerifyProofs   one access decision beside edits and sessions
AclService -- AclServiceProofs editing ACL groups and assignments, with syncs
UserService                    accounts and roles
SettingsService                settings stored and read key by key
AuditService                   which events are logged, and its cache
FileManager -- AtomicFile      temp file, rename, backups; what they promise
ConfigBuilder                  the routes, domains and listeners of one build
L4Proxy                        layer-4 requests
SsoService                     sign-on flows, accounts, one-time codes
LogTail                        the live view of a rotated log
TrafficMetrics                 scraped counters and the series made of them
CaddyStores -- CaddyStoresProofs   FileManager and TrafficMetrics side by side; each
                               of them, and that FileManager implements AtomicFile
AdminTables -- AdminTablesProofs   UserService, L4Proxy, SsoService, SettingsService
                               and AuditService side by side; L4Proxy,
                               SettingsService and AuditService, and the five
AccountProofs                  UserService and SsoService
CaddyViewsProofs               LogTail and ConfigBuilder
MCCaddyViews                   LogTail and ConfigBuilder side by side
MC*                            the model values for TLC
```

### SyncService

One process per goroutine: the `Periodic` ticker, `Triggers` (the initial sync
and `POST /api/sync/trigger`) and `Handlers`. `pc[w]` is where worker `w` is in
`FullSync` / `performFullSyncJSON`:

| `pc` | code | actions that leave it |
|---|---|---|
| `idle` | before the call | `FullSyncBegin` (guard and flag in one critical section), `HandlerBegin` |
| `build` | waiting for `s.mu` | `BuildProxies` (`proxyRepo.List`), `BuildFails` |
| `rest` | `s.mu` held, other tables to read | `BuildRest`, `BuildRestDegraded` (a failed read is logged and left out), `BuildFails` |
| `compare` | `ConfigChanged` | `Compare`, `CompareFails` |
| `write` | backup, clean-up, atomic write | `Write`, `WriteFails` |
| `validate` | waiting for `r.mu` in `ValidateJSON` | `Validate` |
| `reload` | waiting for `r.mu` in `ReloadJSON` | `Reload` (the second validation) |
| `read`, `post` | `r.mu` held | `ReadFile`; `PostLoad`, `PostRejected`, `PostTimeout` |
| `ok`, `err` | the pipeline has returned | `FullSyncRecord`, `HandlerReturn` |
| `release` | `FullSync`'s deferred function | `FullSyncRelease` |

A configuration is what the properties tell apart: the set of routes (hostname
and a `body` that stands for all other columns), `side` (everything read from
the other tables: settings, ACL groups and assignments, layer-4 proxies) and
`order` (in which order the layer-4 TLS routes came out of the Go map). `file`
is `caddy.json`, `live` what Caddy runs. The mutexes are control points, not
variables. `abandoned` and `calm` are history and prophecy for the properties:
"a sync gave up between write and load, and the file was not loaded since", and
"from now on nobody writes and nothing fails". `Faults` selects what may fail.

`Crash` is the end of either process, upon which the entrypoint stops the other
and the container starts again; `EntrypointExit` is Caddy not coming up from the
file. Both start backend and Caddy in one step. In the code the backend is up a
few seconds earlier and could write the file before Caddy reads it.

### ProxyService

`hp[h]` is where handler `h` is in its request: `read` (`GetByID`), `check`
(`HostnameExists`), `store` (the one write), `remove`/`sync` (about to call the
sync service; a rename syncs twice), `removing`/`syncing` (inside it),
`rollback`. `seen` is `existing`, the row it read. `UpdateStore` is GORM's
`Save`: all columns, and an insert where there is no row. A create gets a fresh
key (the `id` sequence never gives one twice). `SyncReturn` is what each
operation makes of the outcome: create and enable undo their write, update
reports the error and keeps it, delete and disable only log. `disturbed[h]`
remembers whether anybody else wrote the row meanwhile. Bulk operations and
imports are one handler doing these operations in a row.

### ProxySync

The composition: `SyncCall` of a handler is its `HandlerBegin`, `SyncReturn`
carries the outcome of its pipeline, the commits of handlers are the only writes
of `proxies`. `SyncService` is at the same time the abstract specification: it
lets anybody write any row at any time as long as hostnames stay unique
(`DbWrite`), and `SyncImplemented` says that the real handlers do no more.

### AclVerify

One request of Caddy's `forward_auth`. `pc` is `proxy` (`GetByHostname`),
`assignments`, `groups` and `content` (the queries of `GetProxyACLAssignments`,
one for each preloaded table, by name as GORM sorts them), `decide` (path filter, phases 1 and
2 of `evaluateUnionAccess`) and `auth` (phase 3, one step per group, each with a
session lookup of its own; phase 4). `snap` is what has been read. Around it,
`Login`, `OAuthCallback`, `Expire`, `Logout` and `GetSession` change the session
row, and an administrator commits changes to groups, their content and their
assignments; every query and lookup may fail. `steady`, `sessionSteady` and
`dead` record what stayed as it was since the request began.

The operators in the code's spelling (`evaluateGroupAuth`, `isOAuthUserAllowed`,
...) are the pure part. Two details of the code show in them: in mode `all` only
successes are collected, so one method is enough and none is needed where the
group has no method; and `evaluateIPRules` takes rules in CIDR form only, while
the deny and bypass checks over all groups take a single address too. Left out:
the branding row that `GetBranding` creates on the way to a 401, the path
patterns (an assignment applies or it does not), and which user the allow
headers name.

### AclService

`ap[h]` follows a request of `acl_handler.go` or `proxy_acl_handler.go`: `load`
(the row it is about), `collect` (`DeleteGroupWithSync`'s first query), `write`
(the commit), then what `NextPoint` says: `usage` (`syncProxiesUsingGroup` asks
who uses the group), `reread` (the assignments for the answer), `sync` (one
`SyncProxyByID` per proxy in `todo`). IP rules, basic auth users and external
providers are the items. GORM's `Save` is what it does: an update, an insert if
the row is gone, and for a group the insert of associated rows that are gone.
`asked` is the tables when a sync was last asked for; what becomes of the sync
is SyncService's matter. `UpdateGroup` and `CreateGroup` ask for none.

### UserService

`up[h]` follows `Create`, `Update`, `ResetPassword` and `Delete` of the user
service, and `Register` and `ChangePassword` of the auth handler, over the users
table and goauth's role store (outside `src/`, known by its calls): `gate` (what
`Register` decides under `firstUserRegistrationMu`), `load`, `role`, `count`
(`adminCount`), `password` (`UpdatePassword`), `store`, `assign`, `undo`. "viewer"
is to every guard what "operator" is. Names, addresses and passwords decide
nothing; whether registration is open may be anything at any time. `Restart` ends
all requests where they are and runs `createDefaultUserIfNeeded`. `hadAdmin` and
`stranded` are history: there has been an active administrator; a row was left
without a role by an undo that failed or a stop between the two stores.

### SettingsService

`stp[r]` follows `UpdateNotFound`, `UpdateMetricsPublish` and the generic `Update`:
`existing` (the read for the hash that a blank password keeps), `store` (one key
after the other), `sync`, `build`, `answer`. `mu` is the build under `s.mu`, of a
request or of `Ticker`, which stands for every other sync: it reads the keys in
the order of the getters, which is not the order in which they are stored. A read
that fails gives the default (`GetValue` drops the error). `built` is what the
last build had read; what becomes of it is SyncService's matter. "host" stands
for host, path and user, which go together. `touched` and `missed` excuse keys
that somebody else stored meanwhile or that could not be read.

### AuditService

A configuration is the set of actions it switches on. `apc[h]` follows `SetConfig`
(store, then `cache`) and `LogEvent` (`event`: the cache is there or not; `load`:
`GetConfig`; `fill`: it goes into the cache; `insert`). `StoreElsewhere` is the
generic settings endpoint storing the same key. `Unlisted` are actions without a
case in `isEventEnabled`, which are always written. `raced` and `stale` say
whether a configuration was overtaken before it was cached, and whether the
cache holds such a one or was passed by.

### FileManager and AtomicFile

`fpc[p]` follows sync `p` through `ConfigChanged`, `BackupJSONConfig`,
`CleanupOldBackupsByAge` and `WriteJSONConfig`: each takes `m.mu` (`MuFree`) and
gives it back, so syncs interleave between the calls; inside a call the steps are
those a crash of the host can separate (`copy`, `fill`, `sync`, `rename`). A file
has a version, is `whole` once its bytes are written and `synced` once they are
on disk; `cfgFile` is what an open finds, `cfgDisk` the directory entry on disk.
A rename moves the entry, `FlushDirectory` brings it to disk some time later (the
code does not sync the directory), `Crash` falls back to what is there. Backups
live under the second of their name. Time stands still at most for one sync's
own retention period: `Second` does not pass while a sync would keep a backup
for longer than a day between two calls.

`AtomicFile` is what Caddy and `caddy validate` rely on, which open the file
without the mutex: a version or nothing, changed only to one a caller is writing.
`FileIsAtomic` maps `cfgFile` and `cfgDisk` to the version they hold, "torn" if
they are not whole, and a sync between `CreateTemp` and its return to a writer.

### ConfigBuilder

`Built` is `buildConfigBytes` with everything it calls, as a function of the
stored rows; `Sync` applies it, with any one read failing, and `Edit` changes a
row. A route is the set of hosts, paths and addresses it accepts, whether it is
terminal, and its handlers by what they do. `Served` is Caddy's reading of a
list of routes (external). `Expected(db, req)` says without routes what a request
should get; `RoutesMeanSettings` asks it of what the sync read, which after a
failed read is less than what is stored. Two things the code does are in both: a group lets static assets through on
all paths of its host, wherever it is attached, and groups attached to redirect
or static proxies are not looked at, although the API accepts them there.

### L4Proxy

`l4pc[h]` is `load` (`GetByID`), `check` (`checkPortConflict`), `store` (the
write), `page`, `find` and `exported` (an export: `List` counts the rows and then
reads the page, in two queries). `Newest(rows, n)` are the n rows with the highest
keys, the order of the default sort. `moved` says that a row went since the export
began, or came between a count and its page; what an export promises leaves those
cases out. `L4Save` is the transaction of
`Update`: the routes are deleted, GORM's `Save` updates the row or inserts it
where it is gone, and inserts the routes. `Inserted` and `Stored` are the column
defaults: `is_active` and `tls_passthrough` are declared `default:true`, and GORM
leaves a zero value to the default when it inserts; so a proxy created inactive
is active. A bulk request is its operations one after another.

### SsoService

A flow (`spc`) is a request of `Login` or `Callback`: `config` (`LoadSSOConfig`,
key by key, a failing read is the default), `provider` (`providerFor` under
`s.mu`), `match` (exchange, ID token, `matchOrProvision`'s look-up), `username`,
`create`, `role`, `issue` (mint and `OneTimeCodeStore.Issue`). `UpdateKey` stores
one key at a time, `enabled` first as in the code, `Invalidate` ends an update.
`Consume` is `Exchange`: the entry is removed first and then looked at.

### LogTail

Everything Caddy logs is one sequence of pieces, two to a line; the file in place
is the part after `fileFrom`. `tpc` follows `Stream`: `backfill`, `sendBackfill`,
`tick` (Stat), `read`, `send`, `done`. The channel is bounded and a send waits.
A rotation is a rename (`LogRotate`) and a new file some time later
(`LogCreate`).

### TrafficMetrics

`live` is Caddy's counters, by code and latency bucket, `ever` and `boots` what
really happened; `Scrape` stores `ParseSnapshot` and prunes. `ComputeSeries` and
`histogramQuantile` are the code's functions, the latter as a fraction.

## 3. What is checked

The last three runs each take several components that share no state. A
behaviour of such a run belongs to the component its initial state picks
(`part`, `store`), the others rest: it is as many runs in one, and every property says
something in the part it is about and nothing in the others.

Passing runs:

| run | instance | shows |
|---|---|---|
| `sync_safety` | ticker, a trigger, a handler; a body Caddy refuses and one that cannot be built; two contents of the other tables, one with ambiguous order; every fault. 1.1 million states | `FileReachesCaddy`: whenever Caddy does not run the file, a worker is still to load it or a sync gave up; so an old file read before another worker's write is never posted last. `FullSyncExclusive`: one `FullSync`, and the flag says exactly when. |
| `joint` | one handler on the pipeline beside the ticker, one proxy, two contents of the other tables; failing reads, late answers, restarts. 98,000 states | `SyncImplemented`; under fairness `RequestsEnd`, `SyncEnds` and `Converges`: after the last change file and Caddy become what the table says, whatever was rolled back or half built. |
| `proxy_answers` | two requests at a time, three keys, two hostnames; any call or sync may fail, the backend may restart. 259,000 states | `HostnamesUnique`, and `AnswerMatchesTable`: a refused request changed nothing, a failed create or enable was undone, delete and disable are final. |
| `acl_verify` | two groups with four kinds of content, one session, one commit of an administrator at any moment, failing queries. 696,000 states | `UnionDecision`: undisturbed, the answer is that of a definition without phases and loops. `DenyHonoured`: torn reads never let a client past a deny rule that was there all the time. `NoLoginLoop`, and `DeadSessionIsNone`: a session that had ended is as good as none, also when its row disappears between two groups. |
| `acl_admin` | two requests at a time, every operation, one group, item and assignment, two contents of a row, failing reads. 2.6 million states | `EditsSynced`: at rest, a sync was asked for after every assignment and all content of its group was stored, but for what `UpdateGroup` or a failed read left. |
| `caddy_stores` | file: two versions, two syncs at a time, three seconds, one crash or failing removal; traffic: three requests of two classes, two finite buckets, a restart, three scrapes, two ranges. 572,000 states | `FileIsAtomic`: the refinement, through crashes. `ReplacedIsBackedUp`: unless another sync got in between, what a rename replaces is in a whole backup. `SeriesMatchesTraffic`: between what was surely and what was at most served, also when a restart went unnoticed. `QuantilesOrdered`. |
| `caddy_views` | log: two lines written in pieces, a rotation, a channel of one; configuration: two proxies of four kinds, two groups of four kinds, three sets of assignments, two layer-4 tables, two settings, any one read failing, five kinds of request. 57,000 states | `RoutesMeanSettings`: the list of routes answers as what was read means. `HostsIsolated`: also after a failing read no host feels another. `TerminatedHasCertificate`. `SentInOrder`, `StreamIsLog`; under fairness `LinesArrive` and `NoLeak`. |
| `admin_tables` | accounts: one request at a time, three users, any store access may fail, restarts; layer-4: two requests at a time, three rows, two endpoints, pages of one; sign-on: two flows, one address, two issuers, one update, restart or edit; settings: two requests of any kind beside other syncs, one failing access or restart; audit: three goroutines, three actions, two failing reads or restarts. 1.5 million states | `AdminRemains`: also when an update fails between profile and role. `SetupStaysOpen`: a first registration that fails leaves the way open for the next. `EndpointsUnique`, `RoutesNeverReturn`, `ExportCovers`. `SavedIssuerVouches`: a stale provider in the cache or a failed read never opens anything. `RoleComes`, `CodeUsedOnce`. `AnsweredIsBuilt`: a build that began between two keys is never the last one when the request is answered. `EventsAsConfigured`: the cache is behind the setting only where `Behind` says so. |

Runs that end in a counterexample, each a statement of the repository that its
code does not keep:

| run | property | what happens |
|---|---|---|
| `sync_reconcile` | `PeriodicReconciles` | one `POST /load` fails; the file is already written, so every later sync finds it unchanged and skips the reload. Caddy stays behind until the database changes again or the container restarts. |
| `joint_delete` | `DeletedNotServed` | a sync that listed the proxies before a delete writes after the delete's own sync has written; the delete's reload loads that file and reports success. |
| `acl_delete` | `RemovalsSynced` | a group is assigned and its proxy synced between the two queries of `DeleteGroupWithSync`: the transaction, at READ COMMITTED and without a lock, deletes the assignment, and its proxy is not among those it syncs. |
| `users_overlap` | `AdminRemains` | two administrators remove each other: both counts are taken before either write. |

More observations that are in the model without a run: a sync overwrites
`caddy.json` before it validates it and does not take it back; saving an ACL
group brings back an IP rule or user deleted since it was read; two layer-4 TLS
hostnames come out of a Go map in any order, so an unchanged database can be
rewritten and reloaded (`order` in SyncService); an update of a proxy that
overlaps a disable switches it on again, and one that overlaps a delete inserts
it again (`UpdateStore`); a layer-4 proxy created inactive is stored active
(`Inserted`), and its edits wait for somebody else's sync; a log file that was
rotated and has outgrown the tailer's offset within one tick is read from the
middle, where the comment speaks of the file's identity (`TailTick`); an account
whose `AssignRole` failed stays without a role, and its next login is let in
(`GiveRole`); `uniqueUsername` goes on for as long as the store fails; `ResetPassword`
writes back the `active` flag it read before hashing, and the last-admin guard
counts active administrators whoever the target is, so it also refuses to delete
an inactive administrator while one active one is left.

Of registration: `firstUserRegistrationMu` is released before the row is created,
so two first registrations that overlap both find an empty table and both become
administrator, where the comments call the decision race-free (`RegisterGate`);
an error of `Count` is dropped and counts as an empty table; a first user whose
role could not be assigned and whose row could not be deleted, or a default user
whose role assignment failed, closes the set-up for good (`stranded`).
`ChangePassword` writes back the `active` flag it read before hashing.

Of settings: a setter that fails half way has stored the keys before it and asks
for no sync, so the next sync of anybody builds half an update; a metrics update
with a blank password writes back the hash it read and undoes a password set
meanwhile; a read that fails is built as the default. Of the audit log: that
default is also cached, until the next update or restart; the generic endpoint
stores `audit_config` without `InvalidateConfigCache`, whose comment says "call
after settings update" and which nothing calls; the configuration and its UI have
a switch `acl_oauth_login`, for which `isEventEnabled` has no case, so the event
is written whatever it says (`Unlisted`).

### Bounds

The constants are sets of model values, and no counter is unbounded.
`ProxyIDs` and `UserIDs` bound how many rows are ever created, because keys are
not reused; a client can still send any number of other requests. Two workers
are enough for each overlap (one that built first and writes last, one that
reloads what the other wrote); `sync_safety` has three. Two hostnames are needed
for renames and conflicts, two contents of the other tables for a stale build,
two orders for the map. `joint` keeps one handler, since the product of request
and pipeline control points with two handlers exceeds four million states; for
any number of handlers the refinement is proved (below).

`acl_verify` has two groups, as many as a disagreement between groups needs, and
`MaxEdits = 1`: a torn read needs one commit between two queries. Its rows are
chosen so that the groups disagree: no method at all, a deny rule that is no CIDR,
basic auth beside an OAuth list without the client, a restriction that admits it. The groups are interchangeable (symmetry). In `acl_admin` the keys
bound the inserts: with one key each, a group is created, assigned and deleted
once, and everything else happens any number of times. With a second assignment
key the run has 5.4 million states and passes as well.

In `caddy_stores` the retention period is one second and the clock shows three,
so that a backup expires; two syncs are what it takes to share a backup's name.
Three requests and one restart give a counter that falls, one that is as high as
before and one that is higher. In `caddy_views` the rows, groups and tables are
chosen one for each branch of the builder, and all combinations of them are
built; a channel of one is full as soon as the browser stalls. In `admin_tables`
pages of one row make every insert shift a page; an address, its flow and a
second flow are enough for two first logins of one person, and one change
(update, restart or edit) for a stale cache or a half-stored configuration. Two
requests for settings are an update and one that overtakes it, with the page, the
metrics endpoint with and without a password, and a single key; three goroutines
of the audit part are one that stores a configuration, one that fills the cache
and one that logs. Three users are two who can administer and one more that is
created meanwhile. The same two model values serve as goroutines of all parts and
are interchangeable (symmetry).

### Fairness

`FairSpec` and `FairJointSpec` assume that

* `FullSync`s keep starting: the ticker fires for ever, and a tick either starts
  one or finds one running (strong fairness, as `IsSyncing` comes and goes);
* a goroutine that has begun takes its next step, also when that is a lock other
  workers keep taking: Go's `sync.Mutex` hands the lock to a waiter that starves
  (strong fairness per worker); HTTP and exec calls end by their timeouts;
* a request that is under way goes on.

For the log view (`Fair` in MCCaddyViews): the ticker fires for ever and both
goroutines are scheduled (weak fairness); a Go `select` takes one of its ready
cases at random, so a cancelled context that stays ready is taken some time
although a tick or a line is ready as well (strong fairness of `TailStops` and
`HandlerStops`); a browser that stays connected takes what it is sent.

Clients owe nothing, and neither does the environment, except in what
`Converges` says explicitly: `calm`. The liveness run has no body that Caddy
refuses: with one in the file, Caddy cannot start and the entrypoint's thirty
seconds of retries race the initial sync after five, a matter of timing the model
leaves out. It has no failing reload either, as `sync_reconcile` shows what that
does to Caddy; `Converges` as stated covers it (`abandoned`).

## 4. What is proved

With TLAPS, for every value of the constants that satisfies the named
assumptions of the modules. These say that the "absent" values are not rows, that
the sets of workers are disjoint, that the bad bodies are bodies, that `Gone` is
no second of the clock, that there are finitely many user keys and status codes, and the like; TLC
evaluates them on every run.

| module | theorem | states |
|---|---|---|
| ProxySyncProofs | `TypeCorrect` | `Spec => []TypeOK` |
| | `FullSyncExclusiveHolds` | one `FullSync`, and the flag says when |
| | `FileReachesCaddyHolds` | the file reaches Caddy or a sync gave up |
| | `SyncImplementedHolds` | `JointSpec => Spec`: the handlers on the pipeline implement SyncService |
| | `JointFileReachesCaddy` | hence the pipeline's guarantee holds for them |
| ProxyServiceProofs | `HandlersTypeCorrect` | `PTypeOK` |
| | `HostnamesUniqueHolds` | no two rows share a hostname |
| | `AnswerMatchesTableHolds` | what a client was told is what the table holds |
| AclVerifyProofs | `VerifyTypeCorrect` | `VTypeOK` |
| | `DenyHonouredHolds` | a deny rule in force throughout a request is honoured |
| | `UnionDecisionHolds` | phases and loop give the answer of the union |
| | `DeadSessionIsNoneHolds` | an ended session counts for nothing |
| | `NoLoginLoopHolds` | a client that is known is not sent to log in |
| AclServiceProofs | `AclTypeCorrect` | `ATypeOK` |
| | `EditsSyncedHolds` | every change of a group in use is followed by a sync |
| CaddyStoresProofs | `FileTypeCorrect`, `TrafficTypeCorrect` | `FileTypeOK`, `TrafficTypeOK` |
| | `ReplacedIsBackedUpHolds` | what a rename replaces is in a whole backup |
| | `FileIsAtomicHolds` | `FileSpec => FileIsAtomic`: the file manager implements AtomicFile |
| | `SeriesMatchesTrafficHolds` | a series lies between what was surely and what was at most served |
| | `QuantilesOrderedHolds` | the quantiles of every point are in order and within the buckets |
| | `StoreTypesHold` | the types of both stores side by side |
| AdminTablesProofs | `L4TypeCorrect`, `SetTypeCorrect`, `AuditTypeCorrect` | types of the three components |
| | `EndpointsUniqueHolds` | no two layer-4 rows share an endpoint |
| | `RoutesNeverReturnHolds` | deleted routes stay deleted (an action property) |
| | `ExportCoversHolds` | an export has every row that was there |
| | `AnsweredIsBuiltHolds` | an answered update is in the last configuration built |
| | `EventsAsConfiguredHolds` | events are logged as configured (an action property) |
| | `TableTypesHold` | the types of the five parts side by side |
| AccountProofs | `SsoTypeCorrect`, `UserTypeCorrect` | types of the two components |
| | `CodeUsedOnceHolds` | a one-time code is spent once |
| | `SavedIssuerVouchesHolds` | only the saved issuer vouches |
| | `RoleComesHolds` | a provisioned account gets its role or an error |
| | `AdminRemainsHolds`, `SetupStaysOpenHolds` | an administrator remains; until then the set-up is open; one request at a time |
| CaddyViewsProofs | `SentInOrderHolds` | no piece of the log twice or before an earlier one |
| | `StreamIsLogHolds` | until a rotation the stream is the log from its start on |
| | `RoutesMeanSettingsHolds` | the list of routes answers as what was read means |
| | `HostsIsolatedHolds` | no host feels another |
| | `TerminatedHasCertificateHolds` | terminated TLS has its certificate and its route |

Each inductive invariant was checked by TLC on the instances of section 3 before
it was proved.

**FileReachesCaddy** is not inductive: it does not say why a worker that posts an
older file leaves somebody behind who posts the newer one. The strengthening
(`ReloadInv`) adds the reload mutex: at most one worker is between reading the
file and posting it, so when another worker has replaced the file meanwhile, that
worker cannot have got past `read` and is counted in `HasToReload`.

**FullSyncExclusive** is inductive together with the types.

**HostnamesUnique** and **EndpointsUnique** rest on the constraint at the write,
not on the check before it: the proofs never use what `HostnameExists` or
`checkPortConflict` answered.

**AnswerMatchesTable** needs to know, at every control point, what the row of an
undisturbed handler holds (`AnswerInv`): the row it read until it stores, what it
promised from then on, and what it undoes at `rollback`. A step of another
handler either leaves the row alone or sets `disturbed` (`OthersKeep`).

**SyncImplemented** has the identity as its mapping. Initial states are clear; of
the steps, a commit is a `DbWrite` because of `HostnamesUnique'`, which is
ProxyService's theorem used through `INSTANCE`; it happens only before `calm`,
because the environment calms down once no request is under way
(`CalmHandlers`); calls and returns are `HandlerBegin` and `HandlerReturn`;
request steps without a commit stutter.

**DenyHonoured** needs what the request knows while it is under way (`DenyInv`):
for a group that has not changed since the request began, whatever part of its
copy is loaded agrees with the tables. An edit takes its group out of `steady`, a
query adds one more table that agrees, and past `decide` no such group denies.

**UnionDecision**, **DeadSessionIsNone** and **NoLoginLoop** share one invariant
(`RequestInv`). `CopyInv` says the same of all six tables; `PhaseInv` what the
first phases leave to the third: groups apply, none denies, none bypasses.
`TriedInv` carries the loop: the groups tried so far admit nobody with this
session, and `unauthorized` says whether one of them knows it. It holds of the
session as shown, if that stayed the same, and of no session at all, if the
session had ended; the latter needs that an ended session never comes back to
life, and that to `evaluateGroupAuth` all sessions that are not live are alike
(`UnionNotLive`). That the phases compute the union is a lemma about the
operators (`AllowedIsAdmitted`, `AdmittedIsAllowed`): it rests on the deny check
having passed, without which CIDR form would make a difference.

**EditsSynced** says nothing until everything is quiet. Its invariant
(`PendingInv`) says at any time: an assignment whose group differs from what the
last sync saw belongs to a group known to drift, or some request is `Pending`: it
will ask who uses that group, or has a proxy to sync. A commit changes rows of
one group only (`WriteChanges`), which needs that a row never moves from one
group to another, in the tables or in any request's copy, although `Save` inserts
rows anew (`KeyInv`: keys are not reused), and that an assignment refers to a
group that exists (`RefInv`).

**ReplacedIsBackedUp** and **FileIsAtomic** need that what is in place is whole
and on disk before it is renamed (`WholeInv`), that only one sync is inside a
call at a time (`LockInv`), and that a backup made in this sync holds what is in
place until another sync spoils it (`BackupInv`). The refinement maps a rename to
the abstract write, a crash to the abstract one, and everything else to a stutter.

**SeriesMatchesTraffic** is about two rows of the table at a time: without a restart
between them every class grew by exactly what was served, with one the later row
has no more than was served (`Follows`). `TrafficInv` says so of any two rows in a
row and of the last one and the counters of now, which a request, a restart and the
removal of old rows keep (`Chain`). A drop of the request count cannot happen
without a restart, so a pair without one is never reset. What follows is about
sums: the points partition the pairs (`SumParts`), and sums compare when their
terms do (`SumLess`, `SumNat`). The community modules' sum is a fold over a finite
set; that it unfolds element by element is proved (`SumUnfold`) by induction on
cardinality, taken as an argument about least numbers (`SomeLeast`,
`FiniteInduction`), which needs no operator as a parameter.

**QuantilesOrdered** needs of the rows only that no difference is below zero. The
quantile lies between the bounds of the first bucket that reaches its rank
(`QuantileBounds`): the bucket before it did not, although the counts of the buckets
may fall from one to the next. Two quantiles in one bucket are ordered by their
ranks, in two buckets by the bound between them. The products are of unknowns, so
they are taken one at a time (`TimesLess`, `AcrossBound`, `Between`). Assumed are
finitely many codes and at least one finite bucket, as Caddy has.

**StoreTypes** and **TableTypes** follow from the components' types: a behaviour of
the components side by side is a behaviour of each (`StoresArePart`,
`TablesArePart`), which also carries every other theorem about them over to the
runs `caddy_stores` and `admin_tables`.

**ExportCovers** needs a count (`ExportInv`): while nothing goes, the pages read
are whole, and a row that was not collected has at least as many rows before it
as were collected, so that once as many were read as were counted none is
missing. Finite sets and their cardinality come from
FiniteSetTheorems.

**RoutesNeverReturn** holds because a save inserts a row that is gone only without
routes: the foreign key refuses the others.

**AnsweredIsBuilt** needs, for each request and key, that the value stored stays
in the table unless somebody else stores that key (`TableInv`), that a build which
counts for the request has read it there (`GotInv`), and that it is what was built
once the request is answered (`BuiltInv`). A build that read the key earlier does
not count: the request then waits for one of its own.

**EventsAsConfigured**: the cache holds the stored configuration unless it is
marked `stale` or about to be overwritten, and what a request has read is the
stored configuration unless an edit overtook it (`CacheInv`).

**SavedIssuerVouches** and **RoleComes** need, per flow, what it has read of the
settings, which provider it uses and which account it made (`FlowInv`).
**CodeUsedOnce** is about the store: an entry is removed in the step that looks at
it.

**AdminRemains** and **SetupStaysOpen** are proved under `OneAtATime`, that there
is at most one request goroutine; it is a hypothesis of the two theorems and not
of the specification. Without it the first is false, as `users_overlap` shows,
and the second is as well, when the first registration's role assignment fails
and its row is deleted after another has registered as an operator. The invariant
says that a request past its guard still knows what is stored (`Current`), so
that what it counted is the number of administrators when it writes.

**SentInOrder** and **StreamIsLog** are about the cut of what was read into lines
and its rest. Cutting text that continues what was cut before gives the same
lines, and one rest, as cutting all of it at once: newlines are counted, not
followed one by one, so this is arithmetic on cardinalities. `LogInv` adds what
each control point still knows (`TailInv`), that everything taken lies before the
offset of the file in place or, where that is shorter than the offset, before the
file (`OrderInv`), and that until a rotation the offset stays between start and
end (`StreamInv`).

**RoutesMeanSettings** is a statement about the builder: `ConfigInv` says that the
tables are typed and that a configuration is `Built` from what was read, and the
rest is a lemma for every readable database (`BuildAnswers`). Its notion is
`Decides(routes, req, c, a)`: if `c`, the list answers `req` with `a`, otherwise
it lets it through to what follows. Lists joined decide as the first that applies
(`JoinDecides`, `ListDecides`, by counting up their positions), so each
piece is looked at alone: the routes of a group in each mode (`GroupDecides`), of a
proxy's groups in order of priority (`ReverseProxyDecides`), of a proxy, of all
proxies, of the layer-4 names. **HostsIsolated** follows from it, since `Expected`
looks at one host only. **TerminatedHasCertificate** needs that a list in order
of priority has its rows in that order and each once (`ByPriority`), and
that the build of a name's page or proxy is in the list (`BuildHas`).

Only model-checked, and why:

* `Converges`, `SyncEnds`, `RequestsEnd`, `LinesArrive`, `NoLeak`: liveness under
  fairness is out of the prover's reach.

## 5. Not modelled, and the plan

Left out for good: the web UI, routes, middleware and database start-up (no
state of their own), goauth and the OAuth providers (external), layout and
wording of configuration and log entries. The entries of the audit log are only
appended, listed and exported, and nothing depends on them; login, refresh and
logout of the API are calls of goauth. Of the builder: headers, load balancing,
health checks, transports and logging, which no property tells apart, and the
preview of a single proxy.

Next, proofs: `EditsSynced` carried over to the pipeline, once
AclService is composed with SyncService as ProxySync is.

And of the model: that composition; OAuth restrictions and branding in
AclService; bulk operations and imports of proxies.
