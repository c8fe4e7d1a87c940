# A verification project for settings-api

settings-api stores what a person has chosen (time zone, search market, whether a
tool may act without asking, ...) and answers other services that ask for it. It
is one process over one SQLite file, with a caching Python client that the
consuming services embed. This directory holds TLA+ models of it, the TLC runs
that check them, and the proofs that TLAPS checks.

Paths below are relative to the repository; `settings_api/` is
`src/settings_api/`.

## 1. The system

### Components, state, operations

| component | code | state it keeps | operations |
|---|---|---|---|
| settings store | `settings_api/settings/sql_store.py`, port in `store.py` | tables `accounts` (id, revision) and `settings` (account, profile, key, value) | `read`, `apply`, `forget`, `purge_setting` |
| event log | `settings_api/events/sql_log.py` | table `settings_events`, numbered by AUTOINCREMENT, capped per account | `append_in` (and trim), `delete_for_account_in`, `read` (paged) |
| settings service | `settings_api/settings/service.py` | none of its own; the policy and the catalogue of the running process | `get_all`, `get_namespace`, `get_setting`, `describe`, `resolve_for`, `export`, `set_setting`, `update`, `import_document`, `reset_setting`, `reset_namespace`, `forget`, `read_events` |
| resolution | `settings_api/domain/resolution.py` | none | pin over row over default |
| policy | `settings_api/domain/policy.py` | the parsed policy file, fixed at start | parse, narrow, pin |
| catalogue | `settings_api/domain/catalogue/`, `registry.py`, `types.py`, `values.py` | none (data): entries with scope, default, bounds, retirement date | assemble, look up, validate |
| configuration | `settings_api/core/config.py` | the environment as read at start | accept or refuse it |
| authentication | `settings_api/auth/` | configured service tokens; the keys fetched from keyring | identify a service, verify a person's token |
| namespaces and grants | `settings_api/domain/namespaces.py` | none | what an audience grants |
| request dependencies | `settings_api/api/dependencies.py`, `api/errors.py` | none | tokens to identity, `If-Match` and `If-None-Match` to revisions, errors to statuses |
| request context and logging | `settings_api/core/logging.py`, `core/context.py`, `api/middleware.py` | three context variables per task | bind, read, unbind |
| container and lifecycle | `settings_api/core/container.py`, `main.py` | the collaborators of one process | build in order, run the sweeper, close |
| retired sweeper | `settings_api/settings/sweeper.py`, loop in `core/container.py` | an asyncio task | purge every key past its window, then checkpoint |
| erasure | `settings_api/settings/erasure.py` | none | forget, then checkpoint |
| database | `settings_api/storage/database.py` | one connection, one worker thread and its queue, the write-ahead log | `run`, `transact`, `checkpoint_truncate`, `close` |
| migrator | `settings_api/storage/migrator.py`, `storage/migrations/*.sql` | table `schema_version` | apply pending scripts |
| http surfaces | `settings_api/api/` | none | person-facing routes (with `If-Match`), service-facing routes (with `If-None-Match`), health |
| client library | `clients/python/settings_client/client.py` | entries per (token, namespace, profile), learned fallbacks, flights | `resolve`, `set`, `forget` |

### How they interact

A request is verified (`auth/`), becomes an `Identity` with the namespaces its
audience grants, and calls one method of the service. Read methods take one
consistent read of the account from the store, keep the rows the scope of each
key reads (`_stored_for`) and resolve them against policy and catalogue. Write
methods turn the request into a list of `Change`s, refusing it whole if any part
is refused, and hand the list to `SqlSettingsStore.apply`. That method compares
`If-Match`, enforces the profile cap, writes, bumps the revision, appends one
event and trims the log in ONE `BEGIN IMMEDIATE` transaction, and a transaction is
one callable on the database's only thread. So the interleaving of requests is
that of whole transactions, while everything outside them is shared
with nobody: what a caller keeps between two requests (an ETag, a document, a
backup) is what can go stale. A sweeper task purges retired keys beside the
requests; a restart may bring another catalogue and another policy file; the
rows, the revision and the log survive it.

A process starts by importing the build (which assembles and checks the catalogue),
reading its environment, opening the file, migrating it, and loading the policy, in this
order; each may refuse the start. Two processes may do so over one file, as
during a deployment that starts the new one before it stops the old.

### What is hard here

- A caller that comes back: with an ETag (`If-Match`, `If-None-Match`), with a
  backup, with a cursor into the log; in between there were writes, a sweep, a
  restart or an erasure.
- Six paths that store a value (`set`, service `set`, `update`, import version 1
  and 2, a restored backup) and must enforce the same rules.
- Rows that outlive the build that wrote them: a key whose scope changed, a key
  that was retired, a value the policy has since narrowed away, a pinned key.
- A start that overlaps another start, a serving process or an operator's edit, and is
  killed in the middle of a migration.
- Requests that overlap between middleware, dependencies and handler, each with
  its own idea of who is asking; the order of the checks, which decides what a refusal tells.
- A reader who pages through a history that is appended to, trimmed and erased in between.
- Caps: profile names per account, events per account; one transaction that
  appends several events.
- Erasure that must reach the write-ahead log; cancellation, crash and failure
  between a transaction and its checkpoint.
- The client: single flight, a write racing a read, an answer that arrives after
  its entry was dropped, outages.

`PROJECT.json` lists each of these as a hazard at its line, with the properties
that would catch it going wrong, or why none does yet.

### What makes each component correct

- *Store*: rows, revision and history tell the same story; no call touches two
  accounts but the sweeper's; caps hold; a sequence once given to an event is never
  another's, also after an erasure; a history read page by page loses and repeats nothing.
- *Service*: no path stores what the deployment refuses; nobody leaves their
  compartment; pins and retirements destroy nothing; an accepted write is what is
  read; an ETag that has not moved names an unchanged document, and a conditional
  write overwrites nothing its caller has not seen; a backup is accepted back whole or
  not at all, and then restores every choice, also under another policy or catalogue.
- *Database*: whatever becomes of its caller, a call is whole, takes effect at most
  once and between being made and being answered; every call ends; an acknowledged
  erasure left no bytes; retired rows go in the end; nothing follows the close.
- *Client*: one fetch at a time per key; answers for a key never go back, after a drop
  nothing from before it is answered, and no late 304 or outage brings back what was
  dropped; every call ends.
- *Policy*: what it leaves of an entry admits nothing the catalogue refuses.
- *Starting*: the tables are always what the recorded versions say; no start
  changes anybody's choice; who serves, serves what its own build accepts; every
  start ends.
- *Requests*: only who is entitled is served; a refusal is about the right token; a
  record names nobody but its own request's account and service.

## 2. Modules

| module | what it is |
|---|---|
| `SettingsStore` | the three tables and the store's transactions |
| `SettingsStore_proofs` | theorems about them |
| `MCSettingsStore` | small instances for TLC |
| `SettingsService` | EXTENDS `SettingsStore`: requests, deployments, a caller that keeps a paper |
| `SettingsService_proofs` | theorems about it, and that it implements `SettingsStore` |
| `MCSettingsService` | small instances for TLC |
| `SettingsClient` | the client library's cache, against a server whose revision grows |
| `SettingsClient_proofs` | theorems about it |
| `MCSettingsClient` | small instances for TLC |
| `Policy` | which catalogues and policy files a build accepts, and what a policy leaves of an entry |
| `Policy_proofs` | theorems about it |
| `Configuration` | EXTENDS `Policy`: which environments a build accepts |
| `AtomicMigration` | what `migrate` promises whoever uses the file: abstract, no scripts, locks or crashes |
| `Startup` | EXTENDS `Configuration`: starting, migrating, serving and stopping over one file; shown to implement `AtomicMigration` |
| `Startup_proofs` | theorems about it, and that it implements `AtomicMigration` |
| `MCStartup` | a small instance for TLC |
| `Catalogue` | EXTENDS `Policy`: the entries this repository ships |
| `Requests` | EXTENDS `Configuration`: a request through middleware, dependencies and handler |
| `Requests_proofs` | theorems about it |
| `MCRequests` | a small instance for TLC, over `Catalogue` |
| `AtomicCalls` | what `transact` promises its callers: abstract, no queue, worker or log |
| `Database` | the queue, the worker thread, the write-ahead log, and the callers whose steps depend on them; shown to implement `AtomicCalls` |
| `Database_proofs` | theorems about it, and that it implements `AtomicCalls` |
| `MCDatabase` | small instances for TLC |

### SettingsStore

State: `accounts`, `revision`, `rows` (per account, a total function on row keys
with `Unset` where the table has no row), `events` (records of account, sequence,
action, actor, revision, changed keys), `lastSequence` (the AUTOINCREMENT
counter). One action per operation of the store:

- `Apply` is `SqlSettingsStore.apply` with everything it calls: `_ensure_account`
  (the account row appears even when nothing else changes), the `If-Match`
  comparison, `_enforce_profile_cap`, `_apply_changes` (each change is compared
  with the rows as they were *before* the loop, the last real change to a row
  wins), `_bump`, `append_in` and the trim.
- `Forget` deletes the rows, the history and the account row; the revision of an
  account without a row is 0.
- `PurgeSetting` deletes one key's rows in every account and appends one event
  *per row*, in whatever order SQLite returned the rows, at the revision each
  account is at.

`Page` and `NextBefore` are a page of `read` (newest first, older than the cursor, at most
`limit`) and the cursor the answer hands out. They change nothing, so they have no action:
the property about them quantifies over every page that could have been read before a step.

A call that raises is rolled back: no step. Timestamps are left out, values are
model values.

### SettingsService

`deployment` is the build together with its policy (live keys, scope, default and
accepted values before and after narrowing, pins); `Redeploy` is a restart with
another one. `paper` is what one caller keeps: a document it read together with the
revision in the ETag, or a backup it exported; the flags `forgotten` and
`redeployed` say whether an erasure or a restart came since, and only the
properties look at them. Each public method of `SettingsService` is an action whose guard is
what the code checks before it calls the store, and which calls `Apply`, `Forget` or
`PurgeSetting`. `AcceptsWrite` is what `_definition`, `_check_writable`,
`validate` and `_storage_profile` check; `ChangesFor` is `_changes_for`;
`StoredFor`, `Resolve`, `DocumentOf` are the read path, and `Shown` says what a document names: a service's is
`common` with its namespace merged over it by bare name, so there an entry of the namespace hides one of `common`; `ExportedRows` is the
filter in `export`. An imported document is the sequence of its entries, as the
JSON names them, because the store's answer depends on the order.

### SettingsClient

The client runs on one event loop, so what lies between two awaits is one action.
State: `entries` (the dict `_entries`) and `newer` (its insertion order: for each cached key
the keys inserted after it), `known`
(the namespaces in `_fallbacks`), `flights`, `holder` and `waiters` (`_flights` and
the lock of each), `tasks` (where each task of the consuming service is, with the
local `cached` of its `_fetch`). `resolve` is `Hit`, or `Miss` (which takes the
lock or queues), `Resume` (woken with the lock, looks again), `Answer` (the server's
step) and one of `ReceiveNotModified`, `ReceiveDocument` (with `_store`, `_remember` and
the eviction: an entry goes when as many as the bound are newer), `ReceiveRefusal`, `Degrade`; each way out runs the `finally`, which is
`Leave`. `set` is `SetSend`, `SetLand` (the server's step) and `SetAcknowledged` (with
`_drop_namespace`), `SetRejected` or `SetLost`. `Cancel` is a cancellation at any
await. asyncio hands a released lock to its first waiter and lets no newcomer past
one, which is what `holder` passing to the head of `waiters` says.

The server is external here: one account, not erased, whose revision grows; a
document is the revision it was read at, and 304 is answered exactly when the ETag
is current. `SettingsService` shows what an ETag fails to say (an erasure, a restart);
the client's properties are about the rest. The age of an entry is a Boolean, which
`Expire` may turn at any time. `owed` (what the drops of a key promise its readers), `due` (the
revision when a key last ran out or was asked for) and `delivered` (the last revision answered for it) are
history: no guard reads them.

### Policy, Configuration, Catalogue

`Policy` is `SettingDef` with its checkers, the checks a catalogue passes at import, the
policy file's, and the narrowing. A JSON value is a record tagged with its type, since
the code's checks turn on it (`True` is an `int` in Python, and `CheckInt` refuses
it); texts are elements with a length, and a pattern is the set of texts it matches.
`Validate` chooses among `CheckInt`, `CheckStr`, `CheckEnum` and `CheckStrList` by the type of the entry;
`ValidateWrite` adds what is asked of a write only (credentials). `Check` is an entry's own check, with `EntryBounds`,
`EntryFallback`, `EntryAgentAccess` and `EntryScope`; `ModuleIsSound` and `Assembles` are `_assemble`. `Loads` is
`policy.load` with `parse`; `AcceptsClauses` is `_check_clauses` with what `_narrow` and `_checked` refuse, and
`Narrowed`, with `Raised`, `Lowered`, `Subset` and `Fewer`, what `_narrow` leaves of the entry. `DefinitionOf`, `PinOn` and
`IsPinned` are the methods of `Policy`. The checks of `_entry_lifecycle` (that a retirement date is a date and a replacement
names a key) are about spelling and left out, as those of names and prose are. `LoadsSettings` in `Configuration` is
`Settings` and `ServiceConfig`: names pydantic does not know, prefixes (`CheckNamespaceNames`), namespaces and tokens
(`CheckService`, `CheckServices`), limits.
`Catalogue` is data, one line per setting, for the fields that decide something. TLC evaluates
`Assembles(Shipped)`: the catalogue as shipped passes the checks of its own build.

### Startup

State: `installed` (the build, environment and policy in place), `disk` (which versions are
recorded, the layout of the tables, the rows), `process` (where each is in its start and what it
has loaded), `lock` and `staged` (an open `BEGIN IMMEDIATE` and the tables as it has them).
`Import`, `LoadSettings`, `Open`, `EnsureVersionTable`, `ReadApplied`, `RunScript`, `RecordVersion`,
`LoadPolicy` are the steps of `Container.build` and `migrate` in their order, each one call of the
worker thread or one read of what is installed; `GiveUpWaiting` is the busy timeout, `Unwind` the
closing of what a refused start had opened, `Crash` may come at any point and `Install` between any
two. The two scripts are modelled by what they do to the tables: the second copies
every row under `*` into a table with profiles. Seen from outside, a migration is one step:
`AtomicMigration` has the layout, the record of it, the choices and who serves, and `Startup` implements it
with a mapping that takes the choices from whichever layout the file is in. `Write` and `Remove` stand for the requests of a serving process;
`SettingsService` has them in full.

### Requests

State: per slot the request in it (`task`), the context variables of the middleware's task
(`outer`) and of the application's (`inner`, a copy, which is what `BaseHTTPMiddleware` makes
of it), each account's `revision`, and the `record` the last step logged. `Arrive` binds the
request id, `Authenticate` is the dependencies up to the person's token, `KeysUnavailable`,
`TokenRefused`, `ScopeRefused` and `TokenAccepted` the verifier's answer (keyring's, which is external) and the scope
a surface asks for; `TokenAccepted` binds account and service in `inner` (`Bind`). `Checks` gives what each check of the
handler would say, in the order of the code, and `FirstOf` the first that is not 200 (`Verdict`). A call then ends in one of
`HandlerRefuses`, `StoreFails` (an exception no handler maps, which the middleware turns into the 500), `Read`,
`StoreRefuses` (the profile cap or a stale revision, inside the transaction), `Write` and `Forget`. `Complete` logs
`request_completed`, in the middleware's context, and `Leave` undoes its binding. Of what a request stores there is only the
revision.

### Database

`SettingsStore` and `SettingsService` take a transaction to be one step. `Database` is
where that is earned, with values reduced to rows that are there or not.

State on disk: `file` (the rows whose bytes are in the database file), `log` (the
`-wal` file: the table after each commit in it), `synced` (how much of it a power loss
cannot take). In the process: `queue` and `running` (the executor and its one thread),
`waiting` and `answer` (what each task awaits, and its future), `sweep` (the locals of
`sweep_once`), `life` (up, `aclose` under way, down). Outside: `reading`, the snapshot of
a `.backup` that another process runs. `doomed`, `owed` and `cleared` are history: what
erasures have removed, and which of it has been acknowledged.

- `Submit` is `run`; `Begin` is the thread taking the next callable, and one of `Commit`,
  `Rollback`, `CheckpointTruncate`, `CheckpointBusy`, `CheckpointFails`,
  `CloseConnection` its end. Only this thread touches the connection, so nothing is
  visible of a transaction before its `COMMIT`.
- A write is `RequestWrite`, `WriteReturns`. `Erasure.forget` is `RequestForget`,
  `ForgetGoesOn` (the checkpoint, or the failure propagates), `ForgetReturns`. The sweep is
  `SweepBegins`, `SweepGoesOn` (the next key, the checkpoint if anything went, or the end),
  `SweepEnds`; a failure anywhere in it ends it and the loop begins another.
- `Disconnect` is a cancellation at the await. `asyncio` cancels the concurrent future,
  which succeeds only while the callable is queued: the worker passes over it (`live`).
  A running one runs on. (The docstring of `database.py` says a *queued* callable runs
  to completion regardless of who waits; it is the running one that does.)
- `Stop` and `CloseDatabase` are `Container.aclose`: the server runs it when no request is
  left, the sweeper is cancelled, the close goes through the queue. `Kill` and
  `PowerLoss` end the process anywhere; `Start` opens what is on disk.

SQLite is external. What the model takes from it: a commit appends to the log; a
transaction that changes nothing logs nothing; `wal_checkpoint(TRUNCATE)` moves and
empties the log, or, while another connection reads, moves what that snapshot covers and
answers "busy"; the last connection to close does the same; `synchronous = NORMAL` keeps
commits over a kill and not over a power loss. A failing `COMMIT` is rolled back by SQLite
itself, as `Rollback`. `AtomicCalls` is about calls: it lets a power loss take the table back, also with no call
open, so that a kill keeps every commit is said by `Kill`, and not shown by the refinement. Left out: reads (they occupy the thread and change nothing),
and the checkpoint SQLite makes by itself after 1000 pages of log.

## 3. Runs

Every property is stated, with the code behaviour it is about, above its
definition. For every property of a passing run `PROJECT.json` names a mutant:
a plausible bug in a mapped definition under which TLC finds that property violated.

| run | what it asks | bounds |
|---|---|---|
| `store` | rows, revision and history stay consistent through every order of the store's operations, no number of an event is given to another, and paging through the history loses and repeats nothing | 2 accounts, 2 keys, 3 profiles under a cap of 2, 2 values, log cap 3, 4 events; symmetric accounts, profiles and values |
| `store_repeats` | (violation) no event has the revision of the one before it | the same |
| `service` | every write path under every deployment, and a caller that keeps a document and its ETag, or a backup, and brings it back | 1 account, 3 keys (one account-scoped in `common`, one profile-scoped, one owner-only), 2 profiles, 2 values, 2 callers, 1 reader, 4 deployments, log cap 1, 2 events, any number of restarts |
| `service_redeployed_etag` | (violation) 304 only when nothing has changed, under an ETag kept over restarts and erasures | the reader is the service, whose namespace and `common` have an entry of one name; 2 deployments, 3 events |
| `client_cache` | answers never go back, follow drops, and are recent unless marked stale; nothing dropped comes back | 2 tasks, 2 profiles of a namespace, a cache of one entry, 2 revisions |
| `client_flights` | one fetch per key, no flight outlives its callers, every call ends, and what an answer drives out is the oldest entry | 3 tasks, 3 profiles of a namespace (one used by all, one by each of two), a cache of two, the revision fixed; with fairness |
| `client_forget` | (violation) after `forget` the next resolve asks again | 2 tasks, 2 keys, 1 revision |
| `database_calls` | atomic calls, acknowledged erasures, the end of every call, the fate of retired rows | 1 writer, 1 eraser, the sweeper with 2 keys, 2 rows, writes until the log has 2 entries, 1 trouble; with fairness |
| `database_backup` | (violation) a forget leaves no trace, also while a backup runs | 1 retired key |
| `startup` | the tables, the choices, `AtomicMigration` and the policy through starts, stops, kills and installations | 2 processes, 4 installations (two of them refused, one for several reasons), a fresh file and one of the first layout with a choice in it; with fairness |
| `requests` | who is served, what a refusal tells, whom a record names | 2 slots, 24 kinds of call, 2 accounts, 2 services, 2 request ids (symmetric, as the slots are), revisions up to 2, part of the shipped catalogue, a policy |
| `requests_records` | (violation) every record of an authenticated service-facing request names the service | the same |

The bounds. `MaxSequence` bounds the number of events ever appended, so it is
the length of a run in writes; four are one more than it takes to fill a log
with cap three, trim it, and purge it in one step with two events. Three is the least cap at
which a purge's event can stand between two requests' in one history. Two accounts
suffice for what one may do to another; three profiles are one more than the cap.
The service run needs one account because the store run has shown that no
operation but a purge relates two. Its events are two: what it asks is about a caller that comes
back, for which something was stored before and something happened in between, and restarts, which append
nothing, are not bounded. Three profiles would add nothing
to it: a property names at most two. Its callers are the owner and a service that is granted one namespace;
what other grants allow is in the theorems, which hold for all of them. The four deployments are the
pairwise interesting ones: plain, pinned and narrowed, a key retired, a key
with its former scope. `CHECK_DEADLOCK` stays on everywhere: an account can
always be forgotten.

The client's runs: two tasks are enough for a fetch and whatever overtakes it, three
for a holder, a waiter and the one that is cancelled; a cache of one entry makes
every second document an eviction; two revisions give a document before, between and
after two writes. `Uses` says which keys a task resolves and writes: in
`client_cache` all of them, in `client_flights` one key of all three tasks, and one more of each of two of them. These three keys
are one more than fits the cache, with every order of inserts, hits, drops and late answers; that one
key is used by all three tasks is what the lock's line needs. The revisions do not matter to either.

The database's runs: a *trouble* is a callable that fails, a backup, a stop, a kill or a
power loss (`MaxTroubles`). Cancellations are not bounded. `MaxLog` bounds what writes add to
the log; erasures and purges go past it, so three commits meet one checkpoint. Of the two
retired keys one has a row, which the erased account owns too, so an erasure and a sweep
compete for it, and the other has none, so the sweep must remember over its second key
what its first removed.

The start's run: one process is enough for a crash between any two steps; two overlap in a
migration, or one serves and writes while another starts. As a start reads the build, the
environment and the policy one after the other, four installations give every mixture of two of
them. Both shipped migrations run from both files.

The requests' run: two requests are enough for one to overlap another at every await, and to
meet in a request id, which callers may choose. Revisions up to two are enough for a stale write, and for a
forget and a write after it. The calls are picked to meet each check once, alone and in the company of
one that comes later. The deployment names two services, one of which
is granted `spotify` and one `keyring`; another deployment in which they share a token is
among the constants and must not start. The catalogue is the shipped one's `common`,
`keyring` and `spotify`; no call names another.

Liveness (`ResolvesEnd`) assumes weak fairness of three things per task: `Resume`
(asyncio runs a task that is ready), `Receive` and `SetReceive` (httpx raises on
its timeout if no answer comes, so `Degrade` and `SetLost` stay enabled as long as a
request is out; the timeout is one for each read, and a server that sends a byte before each runs out is outside
the assumption). Nothing is assumed of the server, of cancellation or of the TTL.
`DueRowsAreDestroyed` and `CallsEnd` assume that the thread runs what is queued (`Begin`,
`Finish`: SQLite answers, with an error if need be, within its busy timeout), that a task
whose future is done is resumed (`RequestReturns`), that the sweeper's sleep ends (`Sweep`), that
`aclose` goes on to close the database, and that a process that ended is started
again. Nothing is assumed of callers, operators or failures.
`StartsEnd` assumes that a start under way goes on (`StartStep`, per process, the one that
holds the lock included): SQLite answers within its busy timeout and imports end. Nobody has to begin a start,
or stop one. The store, the service and the requests state no liveness: there no step ever has to happen, as a
request may not come and the sweeper's window may not pass.

### What the violations show

Each contradicts a sentence of the repository, quoted in `PROJECT.json`:

- A restart with another policy changes what is resolved and not the ETag, so a
  client's revalidation is answered 304 and keeps the old document. An erasure breaks the same property: it restarts
  the revision, so `If-Match` with an ETag from before it can succeed in the account's next life.
- A purge appends its event at the revision the account is at, which the event before it has; of
  two keys purged in one sweep both events do. Two events of one account with one revision are what
  `events/log.py` says cannot exist. `HistoryHasNoGaps` is about the events of requests, and allows purges between them.
- `request_completed`, and the two records of an unexpected failure, are logged in the middleware's task,
  while account and service are bound in the application's, whose context is a copy. A successful service-facing
  read logs nothing else, so nothing in the log says which service made it.
- A fetch under way when `forget` or `set` drops its entry stores its answer
  afterwards, so later resolves are served a document from before the drop.
- `checkpoint_truncate` does not look at SQLite's answer. While a `.backup` reads, the
  checkpoint of an erasure is busy, the erasure is acknowledged, and the erased bytes
  stay in the log until some later checkpoint.

Seen while modelling, not given runs of their own: a purge appends one event for
each row, where `settings/store.py:227` says each account; `reset_namespace` says it skips owner-only settings, and the only
callers that reach it are owners, for whom nothing is skipped; the profile cap counts the names of all stored rows, also of those that a pin, a
retirement or a new scope has put out of reach of a reset, so that an account at the cap may have no profile to forget, though the
refusal tells it to; a 304, and the second look inside the lock, use an entry without moving it to the recently used
end, so an eviction may take what was used last; `max_cached_tokens` bounds entries, of which one token has
one for each namespace and profile it reads; an export may hold choices that the policy pins or
has narrowed away, and the same deployment refuses such a document whole; an import that names
an account-scoped key under `settings` and under a profile counts as a change each time it is
repeated; a sweep runs its checkpoint only if it removed something itself, so when the purge commits and
its checkpoint fails, is busy or is never reached, the purged values stay in the log until another checkpoint, where
`core/container.py:178` says the next tick tries again; `set` raises `SettingsRejected` for a 5xx as well, which a proxy may answer after the
write was saved; `set` on `common` leaves the documents that
`common` is merged into cached.

Of the start and the policy: a contradictory policy (a minimum above the
catalogue's maximum, or one that leaves the default outside) is accepted, where the docstring of `policy.py`
says a deployment with one does not start; a policy's default for a `use_default` entry is not
checked against the entry's conservative values; the fallbacks handed to clients hold the default of a
pinned key, not its pin; `namespaces.py` says a key of `common` and one of a namespace cannot currently
collide, and `job_retention_hours` is in `common` and in `spotify`; of two starts that overlap on a file of the
first layout the second is refused; the file is migrated before the policy is looked at, so a start refused for its
policy leaves a migrated file; an older build does not refuse a newer file. A page that
ends exactly at the oldest event hands out a cursor, to an empty page.

Of the requests: a body that is no JSON is answered 422 before anybody is authenticated; a tag
whose revision is written in digits that `isdigit` accepts and `int` does not is answered 500, not 412; the
service-facing PUT does not look at `If-Match`; a bare prefix does not grant `common` where `allowed_namespaces` omits it, and a scoped token does.

## 4. Proofs

`tlapm` on the seven `_proofs` modules checks:

| theorem | statement |
|---|---|
| `TypeCorrect` | `Spec => []TypeOK` |
| `RowsAlwaysBelong` | `Spec => []RowsBelongToAccounts` |
| `ProfilesAlwaysCapped` | `Spec => []ProfilesStayCapped` |
| `LogAlwaysCapped` | `Spec => []LogStaysCapped` |
| `NewestEventAlwaysCarriesTheRevision` | `Spec => []NewestEventCarriesTheRevision` |
| `HistoryNeverHasGaps` | `Spec => []HistoryHasNoGaps` |
| `SequencesOnlyGrow` | `Spec => SequencesAreNeverReused` |
| `SequencesAreNeverEverReused` | an event that is in the log once has its number for itself for ever: for every `e`, `Spec => []((e \in events) => []NumberIsOf(e))` |
| `TrimAlwaysTakesTheOldest` | `Spec => TrimTakesTheOldest` |
| `RevisionAlwaysMovesWithTheRows` | `Spec => RevisionMovesWithTheRows` |
| `EveryChangeIsAlwaysRecorded` | `Spec => EveryChangeIsRecorded` |
| `PagesNeverSkipNorRepeat` | `Spec => PagesNeitherSkipNorRepeat` |
| `ServiceTypeCorrect` | `ServiceSpec => []ServiceTypeOK` |
| `ServiceImplementsStore` | `ServiceSpec => Spec` |
| `ServiceKeepsTheTables` | the store's invariants, and what it says of changes, revisions and pages, under `ServiceSpec` |
| `EveryWritePathAlwaysObeys` | `ServiceSpec => EveryWritePathObeysTheDeployment` |
| `HiddenChoicesAlwaysSurvive` | `ServiceSpec => HiddenChoicesSurvive` |
| `EverybodyAlwaysStaysInTheirCompartment` | `ServiceSpec => []EverybodyStaysInTheirCompartment` |
| `EtagAlwaysNamesItsDocument` | `ServiceSpec => []EtagNamesItsDocument` |
| `ConditionalWriteNeverOverwritesUnseen` | `ServiceSpec => ConditionalWriteOverwritesNothingUnseen` |
| `RestoreAlwaysBringsBackEveryChoice` | `ServiceSpec => RestoreBringsBackEveryChoice` |
| `AcceptedWriteIsAlwaysRead` | `ServiceSpec => AcceptedWriteIsRead` |
| `OneFetchAlways` | client: `Spec => []OneFetchPerKey` |
| `FlightsAlwaysEndWithTheirCallers` | client: `Spec => []FlightsEndWithTheirCallers` |
| `AnswersNeverGoBackAlways` | client: `Spec => AnswersNeverGoBack` |
| `ReadsFollowDropsAlways` | client: `Spec => ReadsFollowDrops` |
| `FreshAnswersAreRecentAlways` | client: `Spec => FreshAnswersAreRecent` |
| `CacheIsAlwaysBounded` | client: `Spec => []CacheIsBounded` |
| `EvictionAlwaysTakesTheOldest` | client: `Spec => EvictionTakesTheOldest` |
| `ClientTypeOK` | client: `Spec => []TypeOK` |
| `DatabaseTypeCorrect` | database: `Spec => []TypeOK` |
| `ErasedIsGoneAlways` | database: `Spec => []ErasedIsGone` |
| `CloseComesLastAlways` | database: `Spec => []CloseComesLast` |
| `DatabaseImplementsAtomicCalls` | database: `Spec => CallsAreAtomic` |
| `NarrowingNeverWidens` | what a policy leaves of an entry admits nothing new |
| `LoadedPolicyNarrows` | a policy that is loaded does so for every live entry, which also admits its own pin and its own default, and keeps the scope of `common` |
| `StartupTypeCorrect` | startup: `Spec => []StartupTypeOK` |
| `TablesAlwaysMatchVersions` | startup: `Spec => []TablesMatchVersions` |
| `StartingAlwaysKeepsChoices` | startup: `Spec => StartingKeepsChoices` |
| `AlwaysServesWithinTheCatalogue` | startup: `Spec => []ServesWithinTheCatalogue` |
| `StartupImplementsAtomicMigration` | startup: `Spec => MigrationsAreAtomic` |
| `RequestsTypeCorrect` | requests: `Spec => []RequestsTypeOK` |
| `RefusalsAlwaysTellWhose` | requests: `Spec => []RefusalsTellWhose` |
| `RecordsAlwaysNameTheirOwn` | requests: `Spec => []RecordsNameTheirOwnRequest` |
| `OnlyTheEntitledAreAlwaysServed` | requests: `Spec => OnlyTheEntitledAreServed` |

They hold for every choice of the constants that satisfies the `ASSUME`s of the
modules, each of which TLC evaluates in the runs: finite sets of accounts,
keys and profiles, sentinels outside the sets they stand beside, caps that are
naturals, change lists that are sequences of changes, policy clauses that hold JSON values,
files a first start may find that are of this service.

- *Types* are inductive by themselves; what has to be shown is that the row
  function after a change list, the recorded keys and the trimmed log stay in their
  sets. `RowAfter` picks the last real change to a row, so the lemma behind it is
  that a finite non-empty set of positions has a largest one.
- *RowsBelongToAccounts* is inductive: `Apply` raises the revision whenever it
  changes a row, and `Forget` clears rows and revision together.
- *ProfilesStayCapped*: the profile names of the rows after a list are among those
  stored before and those incoming, whose number `WithinProfileCap` bounds; a list
  that sets nothing under a profile adds none.
- *LogStaysCapped*: what a trim leaves of an account is the `TopOf` its events, the
  `EventCap` of highest sequence: an event is kept only with fewer than that many above it. The
  oldest event kept has at most `EventCap - 1` others above it, and these
  are all the others. That the log is finite, and that two events never share a
  sequence, is the strengthening.
- *The history*: a step leaves the log alone, forgets an account, or grows the log
  by events numbered above all there were and then trims. The newest event, the
  neighbour of an event and the sequences ever handed out are then the old ones or new
  events, and a trim cuts from the low end, so it parts no neighbours. The neighbours meant by
  `HistoryHasNoGaps` are events of requests, between which purges may lie.
- *Sequences*: the counter never goes down, which `Forget` could break as well as an append, and every event
  is at or below it. An event that has got its number keeps it, also once it is trimmed or erased, as whatever
  comes later is numbered above.
- *Paging*: a page is the top of the events below the cursor, and the next cursor its
  least sequence. What the reader has met is above the cursor, what is still there and below it
  is still to come, and a new event is above everything as sequences are not reused.
- *The service implements the store* by identity on the tables: each request is one
  `Apply` with a list from `Seq(Change)`, one `Forget`, one `PurgeSetting` or a
  step that leaves the tables alone. The theorem is stated under
  `ChangeLists = Seq(Change)`, the store that takes any list.
- *The service over several requests*: `set`, `update`, both imports and a restore are
  each shown to hand the store a `Ruled` list, whose entries passed the checks of the deployment
  of that moment; validation, resolution and visibility are then facts about single entries. An
  ETag needs `EtagKept`: the account's revision never runs behind an ETag
  somebody holds, and while it is at it the document reads as it did, since under an
  unmoved revision rows move only as a purge of retired keys, which no document shows. A backup
  needs `BackupFits`: it holds a key's choices from the account's column or from profiles', never from
  both, whatever scope the key has got since. So choices can meet in one row only when the key
  has gone from the profiles to the account, which is the loss the property allows.
- *The client* is proved from one inductive invariant, `CacheInv`: types, one fetch per
  key, no fetch of a fresh key, nothing newer than the server, and *floors*. A floor
  under a key is a revision that nothing the client may still answer with (the entry,
  the entry a request was sent with, an answer on its way) is older than. No
  step takes a floor away. A drop puts one in when no fetch is under way, and an answer
  when no other fetch of the key is, which is where the lock is needed: without
  it, an answer still on its way would be below. The last revision delivered for a key and
  what its clean drops promise are floors themselves, so an answer is above both.
  That an entry dropped under a fetch stays dropped needs `DocumentsAreNews`: to a request that names a
  revision the server sends a document only if it is newer, and a 304 or an outage inserts nothing.
- *Fresh answers* need only that a fresh entry, and an answer on its way, is of the revision
  the key was `due` at or a later one: an entry turns unfresh in the step that sets `due`, and a
  request is answered after it is made.
- *The order of the cache* is proved from `OrderInv`: `newer` is a strict total order of the
  cached keys. So the sets of newer keys are nested, the oldest entry is the one that has all
  others in its set (it exists, as the strict subsets of a finite set are well founded), and at most one entry has as
  many as the bound after the insert. It is driven out from a full cache, alone.
- *Flights* need `LockInv`: the line behind a lock is of those who wait for the key and do not
  hold its lock, each once; the holder is a caller, and nobody is in line for a lock that is
  free. Append, the wake of the first and the removal of one from the middle keep it, and a
  cancelled waiter who was woken is a holder, so it passes the lock on.
- *The database* is proved from one inductive invariant, `IInv`, in four parts. `QueueInv`: a
  live job is the one its task awaits and has no answer for, no task has two, and only the
  closer closes. `LifeInv`: when the process closes no other task awaits anything, and the
  close is last. `DiskInv`: what an erasure removed stays out of the table, and off the disk
  once the checkpoint submitted after it has been answered. `RestTypes` has, besides types, that
  nothing is left of a sweep that is over. Without `QueueInv` the answer
  a task takes for its checkpoint's could be that of another job, or of the same
  task's job before. The refinement maps a call to what its task awaits, or to the
  running job it left behind; it needs `OrphanInv`: a task that left a running job behind
  makes no other call while that runs, which for the sweeper is because it is cancelled
  only when the process closes.
- *The policy*: each clause narrows its own field and each checker is monotone in
  it (a higher minimum, fewer choices), so `Validate` of what is left implies `Validate` of what was
  there; pins and defaults were checked against what is left.
- *Starting* is proved from `StartInv`: the file is well formed, and what each phase relies on.
  Recorded versions only grow, so what a process read as pending may since have been
  recorded and nothing pending for it has been forgotten; while one process records a
  version it holds the lock and nobody else commits, so the tables it staged are still
  those of the file after the script; a serving process has seen every version recorded, so
  the layout is the last. The same invariant gives the refinement: the commit of `RecordVersion`
  is `Migrate`, since the script and its record are staged together; `LoadPolicy` is `Serve`, for which every
  version must be recorded; requests are `Choose` and `TakeBack`; the end of a process is `Leave`;
  every other step of a start stutters, rolled back and killed ones included.
- *Requests* are proved from `RequestsInv`, which says of every slot by itself (`Sound`) what
  it takes from its call and its phase: an accepted token was good and for this
  surface, the identity is that token's, and the application's context has nobody else's names.
  Slots share only revisions and keys, so a step of one keeps the others'. `FirstOf` is a
  least position, which exists by well-foundedness of the naturals; that a token has one holder is
  `CheckServices`.

Every invariant, action property and refinement of the passing runs is proved. `RowsBelongToAccounts`,
`TablesMatchVersions`, `StartingKeepsChoices` and `CacheIsBounded` have theorems and are not checked by name: a run
checks a property that says as much (`EveryChangeIsRecorded` with `NewestEventCarriesTheRevision`, `MigrationsAreAtomic`,
`EvictionTakesTheOldest`). Out of TLAPS's reach: liveness under fairness (`DueRowsAreDestroyed`, `CallsEnd`,
`ResolvesEnd`, `StartsEnd`), which stays with TLC, and ENABLED, and induction over data (the library's induction
theorems take an operator as parameter, which the installed provers cannot instantiate),
so documents are sequences transformed pointwise rather than folded,
and no module here declares a RECURSIVE operator.

## 5. What is not modelled, and why

- *Authentication*: signatures, claims, expiry and the cache of keyring's keys are the shared
  verifier's; `Requests` has what it answers and what is made of it.
- *Formatting*: the bodies of problem documents, headers, timestamps, the layout of log records,
  health answers.
- *Checks on text*: which texts look like credentials, which a pattern matches, which are time zones, how
  large a value is once serialised: constants, or left out (the size).
- *The spelling of names and the prose of catalogue entries*, and the rules about them.
- *The clock*: ages are Booleans that may turn at any time.
- *Scripts and site*.
- *The client's documents*: which values a document built from fallbacks holds, and
  the error a refused key raises when it is read (`models.py`, no state).

## 6. Plan

Done: `SettingsStore` with paging, `SettingsService` over it, `SettingsClient`, `Database`
implementing `AtomicCalls`, `Policy`, `Configuration`, `Catalogue`, `Startup` implementing `AtomicMigration`, `Requests`.

Left:

1. The client over the service: an INSTANCE of `SettingsService` as its server, with
   erasure and redeployment, to say which client properties survive them.
2. The composition of `Startup` and `Database`: a backup or a close while another process migrates.
