# A verification development for rakuyomi

rakuyomi is a manga and novel reader for e-book devices: a plugin of KOReader
(Lua) that talks over a socket to a backend (Rust, `src/backend`).  This
directory holds TLA+ modules translated from the backend's code, TLC
configurations that check them on small instances, and theorems about them that
TLAPS checks for every value of the constants.

Contents: [the system](#the-system), [the models](#the-models),
[the runs](#the-runs), [disagreements](#disagreements-between-the-code-and-its-words),
[the proofs](#the-proofs), [what is not modelled](#what-is-not-modelled),
[the plan](#the-plan), [how to run it](#how-to-run-it).

## The system

The server is one process: an axum router on a multi-threaded tokio runtime.
Handlers of different requests run in parallel and share one `State`
(`server/src/state.rs`), whose parts stand behind asynchronous mutexes; the
database is a pool of SQLite connections.  A handler may be dropped at any
await, when its client goes away.  Background work runs in spawned tasks.
Content sources are foreign code (WASM, Dart, JavaScript, Android packages)
that runs on blocking threads.

| Part | State | Operations | What is hard | What makes it correct |
|---|---|---|---|---|
| Background jobs, `server/src/job` | the map of jobs; per job a task, a cancellation token, a result cell; the download semaphore | create, poll, cancel; the tasks' own loops | a poll takes the job out of the map and is not atomic; a cancel races the end of the task; a dropped request; aborted tasks in the semaphore's queue | no job in two hands, none lost but with its request; a result answered once and never early; no permit lost; a cancelled job stops; a queued one is served |
| Chapter storage, `shared/src/chapter_storage.rs`, `chapter_downloader.rs` | the downloads folder, the tmpfs, an atomic size counter | store a downloaded chapter with evictions, delete, clean the tmpfs, restart | tasks evict on a stale copy of the counter; eviction and deletion meet on one file; the counter wraps; removals and subtractions are separate steps | the counter is the size of the folder; the limit is kept; the eviction loop ends |
| Source packages, `shared/src/source_manager.rs` | the sources folder, the loaded sources, a staging directory | install, replace, uninstall, reload, restart | a package is several files that are renamed one by one; each step fails or is the last of the process | an installation happens or does not; the prior package survives a failure; what is reported is so |
| Shared state, `server/src/state.rs` and the route modules | the mutexes and their lines | every handler's sequence of locks; a source's thread that saves a setting | two orders of two mutexes; calls to sources under a mutex that the source wants | no circle of waiting requests; every request ends |
| Source registry, `source_manager.rs`, `source/source_settings.rs` | source ids, the package and the instance of each, stored settings in three places | scan, install, reload of several packages, settings stored by the user or by a source | a call works with an instance while the manager replaces it; a reload loop that stops at a failure; files beside a package that outlive it | an instance describes the code it runs, has the settings that were stored, and keeps where it came from |
| Database, `database.rs` | SQLite tables | listings, read marks, playlists, chapter refresh, notifications | statements with awaits between them and no transaction; one number written as SQL twenty times | listings agree; a cached chapter that is still published stays; a cache is one answer |
| Update checks, `usecases/check_mangas_update.rs`, `arima_light.rs` | scheduled times, notifications | the manual check, the cron loop | checks and refreshes overlap on what they have read; errors inside the loop; a copy of the source manager taken before sources are loaded | a chapter is announced once; the cron task outlives errors; every due series is checked |
| Synchronisation, `usecases/sync_database.rs`, `Database::hot_replace` | three files on a WebDAV server, the database file, its log, its backup, the pool | compare, upload, download, exchange the file | an upload is three writes; the exchange is a rename and a write; the pool is in memory meanwhile | the server's hash is that of its database; read progress is in one of the files |
| Requests to sources, `manga/routes.rs`, `usecases/search_mangas.rs` | tokens by id | search, refresh, library refresh, cancel, clean up | sources that never answer; a token that is removed by a task of its own | a cancellation reaches the request that waits |
| Source health, `source_health.rs` | observations per source, in memory and in a file | record, prune, summarise, restart | requests record in batches that overlap; a bounded history; a write that fails after memory has changed | the bounded history judges as the whole one would |
| Source catalog, `source_catalog.rs`, `fetch_source_list.rs`, `resolve_source_list.rs`, `source/routes.rs` | one cache file for each list | fetch, refresh one list or all, select a candidate, preview, status, install | read, await the network, write; three forms of index; two orders of versions | the last good cache survives a failed refresh; selection follows version and order; a preview names what a removal would take |
| WebAssembly sources, `source/wasm_store.rs`, `wasm_imports` | handles, values, documents with reference counts, requests, rate limit | about 120 imports, the calls of the host | a document lives as long as a handle to one of its elements; values copied into values | no handle without its document; a rate limit ends |
| Workers, `source/keiyoushi`, `lnreader`, `mangayomi` | a thread with a queue for each source, a handle to it | calls with a deadline, restart, orphaned workers | a time limit drops a handle that others use; one engine keeps state for the next request | every call comes back; an answer is made of what its own request saw |
| Settings, `settings/implementation.rs`, `settings_recovery.rs`, `settings/routes.rs`, `cookie/routes.rs` | settings.json and its backup, one copy in memory, the running storage made from it | start with recovery, update, mount, poll for tokens or a pairing, unpair, track | a form that was opened before newer tokens came; changes in place that are lost with a request; the end of the process between two files | what was reported saved is found again; memory, files and running storage agree |
| Tracking services, cookies, updater | files and remote sessions | merge, synchronise, unpack | partial writes | what was acknowledged stays |
| Frontend, `frontend/rakuyomi.koplugin` | dialogs | sends requests, polls jobs | errors that end a poll | the user sees the final result |

How they meet: a request of the frontend becomes a handler, which locks parts of
the state, calls a source or the database, and answers.  Job handlers spawn
tasks that own *clones*: a `ChapterStorage` clone shares the atomic counter and
the folder but not the mutex, which is why downloads and deletions interleave.
A `SourceManager` clone has a map of its own, which is why the cron task may know no
source.  Installation holds the source manager's mutex from staging to commit, so
there operations do not interleave, but they fail and stop in the middle.  A
source's code calls back into the source manager to save its settings.  The shared
pool of the database is exchanged under everything that queries it.

## The models

Names of variables and actions follow the code.  The comment of each module says
what the steps are split by.  Operators named `Fault...` are not part of a
specification: each is a plausible bug in a definition that follows it, and
shows that a property would notice.

### JobRegistry (with MCJobRegistry)

`registry` is the `HashMap` of `job/state.rs`, `cell` the watch channel or the
shared status of each job, `token` and `abort` the cancellation token and
the abort handle, `queue` and `permits` the `Semaphore` of
`State.download_semaphore`, `left` the items of a batch or refresh loop.
`handler` says where each request is between the awaits of `job/routes.rs`:

- `CreateJob`, `InsertJob`: the task is spawned first, the map is locked later.
- `TakeJob`, then `PollPending` and `ReinsertJob`, or `PollEnded`: `get_job`
  removes the job under the mutex, reads the result without it, and inserts it
  again under it.
- `CancelJob`, `AbortTask`, `SendCancelled`: `cancel_job` keeps the mutex; a
  chapter download is aborted and then its result overwritten, which are two
  steps because its task runs on another worker.  `CancelNotFound` is the answer
  "couldn't find job".
- `DropHandler`: the future of a handler is dropped at an await.
- `AcquirePermit`, `FinishChapter`, `AbortWaiting`, `AbortRunning`:
  `DownloadChapterJob::spawn_new` and `do_job`.  An abort takes effect at an
  await; a task that is being polled still publishes its result.
- `PlanItems`, `PlanFails`, `DoItem`, `BatchItemFails`, `BatchCancelled`,
  `FinishItems`: the loops of the batch and refresh jobs.

`delivered`, `verdict`, `lost`, `refused` and `known` are history: what clients
were told.

### ChapterStorage (with MCChapterStorage)

`disk` and `order` are the downloads folder with its modification order, `ram`
the tmpfs, `counter` is `cached_storage_size`, a machine word whose subtraction
wraps.  A task walks through `ensure_chapter_is_in_storage` and
`persist_chapter`: `StartDownload`, `BeginPersist` (the snapshot of the
counter), rounds of `FindVictim` (the oldest file), `MeasureVictim` (its length, read
separately: 0 if the file has gone since), `RemoveVictim` or `RemoveVictimFails`, and
`SubtractEvicted`, then `RenameToDisk` or `RenameToRam`, and `AddStored`, which
reads the length again.  A delete request, one at a time because it holds the
mutex, is `DeleteStat`, `DeleteRemove`, `DeleteSubtract`.  `AbortTask` and
`DeleteDropped` end either at an await, `Restart` ends the process and computes
the counter from the files.  `Fits` is the comparison with `Size`: a counter in
the upper half of the word is read as negative or saturates, and the check
passes.  `upset` is history: it is set by the events after which the
counter is known to drift: a chapter goes to RAM, a rename replaces a file, a
removal fails or finds another file or none, a task or a request ends between a
removal and its subtraction, a new file is gone before its length is read.  An eviction
and a delete that meet on one file subtract its length twice; below zero the
counter wraps, and the limit no longer holds until the next start.  A round whose file
another task or request has taken lowers nothing, and nothing bounds the number of such rounds:
`PersistEnds` says that the loop ends unless there is one (`Misses`).

### SourcePackage, SourceInstall (with MCSourceInstall)

`SourcePackage` is the contract: a package changes from one version to another,
or to none, in one step.  `SourceInstall` is the code of
`SourceInstallTransaction` and of the operations around it, with one step for
each file operation.  `folder`, `staged` and `backup` are the three
directories, `backedUp`, `installed`, `failed` and `retrying` the fields of the
transaction and of `rollback`, `registered` what is loaded.  `Faults` is a
constant set of what may go wrong, so that each run and each theorem says under
which faults it speaks.  A MangaYomi package stands for all: its versions may
be in Dart or in JavaScript, so `Targets` has artifacts of both, and sidecars.
The refinement maps the abstract package to the folder when nothing runs and to
the folder as the operation found it (`prior`) while it runs.

### SharedLocks (with MCSharedLocks)

A handler is the sequence of its lock operations, read off its body: `Take` where a
lock is taken, `Free` where the statement of a temporary ends, `Call` for a call
to a source; what is not freed lives to the end.  There are 17, one of each shape among the routes that hold two
mutexes or call a source under one.  `line` holds, for each mutex, the holder
and those who wait, in order: tokio's mutexes are fair.  The thread of a source
may answer, stay silent, or save a setting, which takes the source manager's
mutex on that thread; a handler leaves it after 60 seconds
(`CallTimesOut`), and the thread goes on.  Mutex operations are external: they
are modelled from how the code uses `tokio::sync::Mutex`.  `Lines` has the one
operator on lines that ChapterStorage shares, `Without`.

### LibraryTables, Library (with MCLibrary)

`LibraryTables` has the statements of `database.rs` as operators on a record of
tables: a query is a value, a statement that writes is the tables it leaves.  Each
listing is written out as its SQL is, with its joins, its filter and its sorting.  The
library and the playlists keep the order of insertion by row ids, which may have
gaps; rows that a statement does not order come in any order.
`Library` has the requests that use them.  A request of the reader is one statement
and one step; a refresh of chapters, and a check of a series, are several
statements with awaits between them (`task`: what it has read, what the source
answered, what is left of its queue).  `cron` is the task of
`run_manga_cron`: it polls for what is due, sweeps, dozes when there is nothing, and
looks at errors as the code does.  `sync` is the part of `hot_replace` that
exchanges the pool under all of them: queries meet an empty database
(`pool = "memory"`), and a refresh under way
is not undisturbed any more (`alone`).  Times are kept as the time left until a check, so that `Tick` lets a
behaviour go round for ever; a unit is `MIN_UPDATE_INTERVAL`.  The prediction of the
next release is any later time.

### DatabaseSync

Two devices and one WebDAV server.  A database is the set of the edits in it;
SQLite commits to a log (`wal`), which `Checkpoint` moves to the file, and the
synchronisation reads the file alone.  The server keeps the database, its time and
its hash, written by `PutData`, `PutTime` and `PutSha` and read one by one.
`Choice` is the decision of `sync_database`; `TakePool`, `RenameToBackup`,
`WriteFile`, `InstallPool`, `RemoveBackup` and the failure branches are
`hot_replace`.  A request is dropped or the process restarted between any two.
`upset`, `late`, `reached` and `had` are history: whether the last upload was interrupted or met
another, whether the file changed between its hash and its upload, the edits that
have been on the server, what each device held since its last replacement.
`ServerConsistent` says what holds always (what was hashed has been on the
server; no time or hash without a database) and what holds after an upload that was alone with its
three writes, whatever happened before.  It does not say that the server is never torn: while `upset`, its hash
may be of another database than it has, and a device may be told that it is up to date when it is not.
`ProgressFindable` is about a device only, not about the server, which another device may
overwrite: what it held is in its file, log or backup until the replacement that the user accepted
succeeds, or a second one overwrites the backup of one that was interrupted.  After these two
an edit may be in no copy at all; `HeldUntilAccepted` says that there are no others.

### SourceRequests

Searches, refreshes and library refreshes call sources and leave
observations.  A search asks its sources at once, a library refresh one after the
other.  `store` is `cancel_token_store`, `cleanup` the tasks that
`TokenGuard::drop` spawns to remove a token.  `memory` and `disk` are the health
history, `prune` and `summarize` the functions of `source_health.rs`,
`recorded` the history that nothing was pruned from.  No two observations have the same time, and
the time to which a request prunes, read just before it takes the lock, is that of the step.
Its fairness is that a search that is cancelled is polled (`SearchStops`); no source need answer.

### WasmStore

What the host holds for a WebAssembly source: `store` with the handles, the
values behind them, the parsed documents with their reference counts, the
requests, and the rate limit.  An import is an operator from a store and its arguments to
the set of stores it may leave, which is empty where it fails and changes
nothing; a program calls any import with any handle, in any order, between the
calls of the host (`frame`), whose end cleans up what the call has stored.
`Renewed` and `rate_limit_acquire` are the loop that waits for permits.  A value
is what can be told of it through handles: its kind, the documents of its
elements, the values inside it.

### SourceWorkers

The four runtimes that run a script on a thread of their own.  A call of the
host is a series of requests to the worker that the source holds a handle of;
its caller waits for a minute at most (`GiveUp`), then drops the handle, whoever's it is by then.
`Restart`, `start_worker`, `Boot`, `Send` and `Finish` follow `invoke` and
the loops of the workers; a worker that is left behind goes on with its queue
(`Orphaned`).  An engine is what its last requests have left in it: the page list
of a chapter, the address of the last answer.  A parse that fails may change what the extension has kept
of a page list (`FailedParse`), and an image is then fetched with whatever that is; `AnswersOwn` is about the
page lists that were read.  `astray` is history: an answer was made from what another
request saw.

### SourceCatalog

From the bytes of an index to the candidate a user installs.  `published` is
what a site serves; `fetch_source_list`, `decode_repo_index` and
`decode_extension` read the three forms of index, with its fallback to the JSON
beside it; `resolve_source_list` finds the newest branch of a repository and remembers it;
`build_cache` normalises and rejects entries (an id that is a number precedes the package).  `catalog` has the cache files; one
that cannot be read counts as none.  `refresh` and `refresh_one` are steps of a task: read
the cache, await the index, save.  What may or may not be there, such as the cache of a
list, is a set of at most one.
`compare_versions`, `compare_candidate_preference` and
`mark_selected_candidates` are the order of candidates; `build_source_status`,
`build_catalog_change_preview` and `install_source` use it.  The order by name in which candidates
are displayed is left out; `find`, whose first match depends on it, gives every match.

### SourceInstances

What a loaded source knows of its package.  `files` has for each package its version,
the `.source` file and the probe cache beside it; `instances` what was loaded or
probed from them, with the definitions of settings that each kind of source
declares in its own form; `disk`, `app` and `manager` the three
places of the stored settings.  A call takes the registered instance (`Take`), probes or boots
it (`ensure_probed`, `run_probe`, `boot`, `ensure_booted`, `start`), runs, may save
a setting, and ends; meanwhile `Install`, `Overwrite`,
`set_source_stored_settings`, `update_source_setting` and `Restart` replace what
is registered.  `astray`, `apart` and `stuck` are history: the ways in which files
or settings are known to go apart.  A probe that comes late stays among them, for a package that was
probed under a version which it has not is not probed again when that version is installed.

### SettingsStore

`stored` is settings.json and its backup, each a complete version, missing or
damaged; `held` is `State.settings`; `storage` the limit, folder and mode of
the chapter storage that the server made at its start.  A save writes so many of the two files and
then succeeds, fails, or ends with the process, for which the actions have the
parameters `written` and `up`; `load_settings_or_recover` moves damaged files
aside (`moved`) before it saves.  `update_settings`,
`mount_tmpfs`, `poll_pairing` and `unpair` do not await anything once they have the
settings, and are one step.  The handlers of the tracking
services keep them locked across calls (`holder`): `ensure_access_token` and
`poll_oauth_status` change them in place, `Release` is the last answer or error and the save that
follows it or not, `Dropped` the client that goes away.  `forms` are copies that
dialogs hold (`get_settings`) and send back as a whole; they outlive the
server, which the frontend starts again.  `saveTokens` of
`OAuthFlowView.lua` is such a form, sent without an edit of what the poll has stored.  `acceptable`,
`kept`, `unsaved` and `drift` are history.

### MCServices, MCLiveness

Seven components share no state with one another here: DatabaseSync, SourceRequests,
WasmStore, SourceWorkers, SourceCatalog, SourceInstances and SettingsStore (the stored
settings of sources, which SettingsStore leaves out, are in SourceInstances).  `MCServices` is their sum:
a behaviour is one of one of them, `part` says of which, and the variables of the
others are unused or rest.  It EXTENDS DatabaseSync, SettingsStore and `SourceServices`, so that the proofs are
about the very definitions that the run checks; the specification of the sum
itself has names that begin with `Each`.  `SourceServices` puts SourceRequests, WasmStore, SourceWorkers,
SourceInstances and SourceCatalog side by side (`Many`, `Wasm`, `Workers`, `Instances`, `Catalogs`) and
names what each promises.  `MCLiveness` is the same for the progress of SharedLocks,
JobRegistry and ChapterStorage, each in the specification its own module states.

## The runs

| Run | Instance | Shows |
|---|---|---|
| `job_safety` | two chapter downloads on one permit, a batch of at most one item, two handlers | `TypeOK`; `SingleOwner`, `NoJobVanishes`, `DeliveredOnce`: ownership; `HonestVerdict`, `ResultStable`: results; `PermitsConserved`, `QueueExact`: the semaphore |
| `job_cancel_refused` | one download, two handlers | a violation: `CancelAtAnyTime` |
| `storage_safety` | three chapters of length 1, two tasks, limit 1, disk and RAM | `TypeOK`; `CounterExactUnlessUpset`: the counter drifts only by the named events; `OvershootBounded`: tasks on stale copies pass the limit (or a single chapter that is longer) by at most one chapter for each task but one |
| `storage_ram_counter` | one task, disk and RAM | a violation: `CounterExact` |
| `install_atomic` | three versions, two implementations, one sidecar; faults before a rollback | `TypeOK`; `PriorRecoverable`: the prior package is in place or in the rollback directory; `ImplementsSourcePackage`: an operation is one step of the package, or none |
| `install_faults` | every fault | `ReportsTrue`: an answer is so |
| `install_crash` | a crash | a violation: `PackageKept` |
| `locks_all` | 17 handlers, three requests | `TypeOK`; `DeadlocksMixOrders`: every circle mixes the two orders of chapter storage and settings |
| `library` | two manga of two sources, three lists of chapters, two refreshes, the manual check, the cron task | `TypeOK`; `ListingsAgree`: every listing shows each manga once with the number of unread chapters that a marking answers; `CacheIsOneAnswer`, `KnownChaptersStay`: refreshes; `AnnouncedOnce`, `CronOutlivesErrors`, `DueGetsChecked`: checks |
| `library_startup` | the same, with restarts alone | a violation: `CronChecksDue` |
| `liveness` | handlers of one lock order, two downloads on one permit, two chapters for a folder of one | `RequestsEnd`; `NoStarvation`, `CancelStopsTask`, `ResultArrives`; `PersistEnds`: the eviction loop ends unless others take the files it chooses |
| `services` | the seven components of MCServices | `EachTypeOK`; `ServerConsistent`, `ProgressFindable`: synchronisation; `SummaryHonest`, `CancelReaches`: requests to sources; `DocumentsHeld`: WebAssembly; `AnswersOwn`, `CallsEnd`: workers and rate limits; `CatalogsHonest`; `InstancesTrue`; `SettingsKept` |

Three properties of `services` are conjunctions over one component.
`CatalogsHonest` is `LastGoodKept` (a failed refresh leaves the cache that was
saved last), `PreferenceHolds` (of two candidates the selected one is newer, or as
new and earlier) and `PreviewComplete` (who loses their candidate is named).
`InstancesTrue` is `MetadataTrue` (an instance describes the code it runs),
`SettingsReach` (it has the settings that were stored) and `ProvenanceKept` (the
`.source` file says where the package came from).  `SettingsKept` is
`RecoveryHonest` (a start finds what was reported saved last or tried since,
unless both files are unreadable), `MemoryStored` (memory and file agree, but for
what was changed in place and not saved), `NothingOlder` (a token or pairing that
was reported saved gives way to none older) and `StorageFollows` (the running
storage is as the settings say).  Each excepts, by a named history
variable, exactly the events that are listed below as disagreements.

**Bounds.**  `MaxItems` bounds the items of a loop: with one item a
cancellation comes before or after it.  One permit for two downloads
makes a queue; the permit is the only thing downloads compete for, and the code's
three permits add no new kind of step.  Two handlers give every pair of overlapping
requests; `SingleOwner` and its companions are proved for any number.  In
ChapterStorage two tasks suffice for a stale copy and for two removals of one
file, and a delete request is a third actor; three chapters make
both tasks evict and still leave a file; all have one length, so that of the events
which upset the counter the replacement by a file of another length is the same as
any replacement.  `WordSize` is small enough to
wrap; its upper half is reached only by wrapping because at most four
chapters are ever counted (three in `liveness`, whose word is smaller).  In SourceInstall two implementations, a sidecar and three
versions cover a replacement that keeps the implementation and one that
switches it.  In SharedLocks a circle needs as many requests as mutexes in it:
three requests cover every circle over three mutexes, and `tokens` and `registry`
are never held while another mutex is awaited.  TypeOK bounds `step` by the
longest script.  Each violation run has the smallest instance that shows it.

`Budgets` of Library say, for each initial state, how many requests of each sort there are: a
check meets one refresh, one reader or one change of the library, two refreshes meet each other, with
one or two new lists published meanwhile, and so on; all of them at once would repeat the same
pairs.  Three lists make a chapter appear and another disappear.  The second
manga's source is not installed, so that a check that fails comes before one that
does not.  In DatabaseSync two synchronisations
by two devices are the smallest overlap; one edit on the devices and one on the
server tell every side of a comparison apart, and one unit of time an answer of the content delivery
network that is older than the server.  In SourceRequests three requests with four
answers, of which three observations are kept for three units of time, make
pruning by number and by age happen, and reach the three failures of two items that
call a source failing; there is one disturbance, for each is followed
by every step.  WasmStore gives out three or four handles for each family
of imports (`uses`), for all imports together would only add steps that do not
touch each other's objects; with three handles a value is inside a value inside a
value, and two documents meet in one array.  SourceWorkers has two callers, as many workers as they can
ever reach, and one start that fails.  SourceCatalog begins with two lists that offer one
source in different versions, or with the index of another kind whose form changes, and has
three requests (by hand also with one list twice, and with versions of four parts or a suffix);
SourceInstances begins with no package or with one of each of two kinds, and has three versions that
declare their settings differently, one call and two changes (by hand also two calls,
three changes and two stored settings).  SettingsStore begins
with no files or with complete ones, and has three starts and requests,
three failures, ends or damages, and one form, which is open as long as it likes:
a token needs one request to come, one to be
overwritten, and a start; both files can be damaged and the save after it still fail.

**Fairness.**  The specifications for safety have none.  In `liveness`, JobRegistry
has weak fairness of each task and of each handler that is in the
middle of a request: the runtime polls what is woken, downloads and source calls
return.  New requests, drops and cancels are never fair.  Polls of a job are
strongly fair, because the client repeats them
(`jobs/Job.lua`), and only `ResultArrives` needs it.
ChapterStorage has weak fairness of a task inside `persist_chapter`; the file
system answers.  SharedLocks has weak fairness of handlers, whose
step includes the 60-second timeout, and of a setting that is being saved; a
source need not ever answer, and a circle of the mixed orders does not end by
itself, so the handlers are those of one order (`OneOrder`).

In `library` time passes, and the cron task and the statements of a refresh or check that has
begun go on; requests, drops, restarts, publications and replacements are not fair.
In `services` a search that is cancelled is polled, while sources need not
answer; time passes for a rate limit and `send_all` goes on; a caller of
a worker goes on until its own deadline, and a worker that is booted or has
finished its request goes on: a script itself may hang for ever.

**Deadlock** is checked except in the job runs, `library`, `library_startup`, `liveness` and `services`,
where all jobs may be answered or all bounds reached, and nothing is left to do.
In SharedLocks a client may always
go away, so a circle of waiting requests is no TLC deadlock; it is the subject
of `DeadlocksMixOrders` instead.

## Disagreements between the code and its words

With a run that shows them:

- `job_cancel_refused`: a cancel that arrives while a poll has the job out of the
  map is answered "couldn't find job" and the download goes on
  (`job/routes.rs:296-329`); the user guide says a download can be cancelled at
  any time.
- `storage_ram_counter`: chapters in RAM are added to the counter of persistently
  stored chapters (`chapter_storage.rs:582`), and nothing subtracts them when the
  tmpfs is cleaned.
- `install_crash`: the prior artifacts are in a temporary directory between the
  renames, and no start looks there (`source_manager.rs:185`).
- `library_startup`: the cron task that starts with the server has a copy of the
  source manager from before the sources were loaded, checks no series, and keeps
  any other from starting (`app.rs:253`).

Met while translating, and excepted from a property by name or visible in the module:

- A rollback that could not remove a published artifact restores the prior one over it;
  `drop` rolls back again and removes what was restored
  (`source_manager.rs:215-228`, `280-288`).  `PriorRecoverable` assumes `RemovalsWork`.
- The branch for a newer database on the server compares two times of the server
  itself, and is never taken (`sync_database.rs:90`).
- `hot_replace` can leave no `database.db`, and a start creates an empty one
  beside the backup; its errors leave the shared pool in memory (`database.rs:94`).
- The older rate-limit imports pass permits and period the wrong way round
  (`wasm_imports/net.rs:164`); with no permits the loop never ends.
- `object_set` and its kin take a container out of the store before they check
  their arguments (`wasm_imports/std.rs:609`).
- A cold start counts as one of the two attempts of `invoke`
  (`keiyoushi/mod.rs:695`).
- A probe of the loaded code is filed under the file that is on disk when it
  ends (`mangayomi/mod.rs:475`, "late probe"), and a boot writes the `.source` file
  that it read before it (`source/mod.rs:777`, "late boot").
- What a source has stored for itself is neither in the state nor on disk
  (`source_manager.rs:858`, `apart`); settings are saved before the packages are loaded again, and one that
  fails keeps the others from it (`set_source_stored_settings.rs:20`, `stuck`).
- `compare_versions` is not transitive for versions with a suffix
  (`source_catalog.rs:686`); `PreferenceHolds` is about those without.
- A failed refresh writes back the cache it had read before its download
  (`source_catalog.rs:186`, `overtaken`).
- A save that fails between its files has replaced the backup: a
  "last-known-good backup" (`settings/implementation.rs:30`) may hold settings whose
  save was reported as failed (`acceptable`).
- A form sends all settings, so one that was opened before a poll or a refresh takes its
  tokens away (`update_settings.rs:117`, `kept`); an error or a client
  that goes away after a refresh leaves new tokens in memory only
  (`settings/routes.rs:79`, `unsaved`).
- The running storage learns neither a new limit nor that the folder was reset, a
  folder that cannot be made is already saved, and a mode whose save fails
  is already changed (`settings/routes.rs:53`, `113`, `drift`).

`locks_all` also shows, by the circles its invariant admits, that
`add_manga_to_library`, `link_tracking_binding` and `get_mangas_in_playlist` can
block forever against `get_manga_library`, `get_cached_manga_chapters`,
`download_manga_chapter` and `update_settings`, until a client goes away.

## The proofs

Every module of proofs is built alike.  `IInv`, a conjunction of named parts, is the
inductive invariant (`SyncInv`, `Sound` and `WorkersInv` where a module has two; for SettingsStore
with one more part it is `Inv`); facts about the operators of the model come first; each action, or
group of actions that do the same, has a lemma `...Keeps` or an effect lemma; `Invariance`
joins them by `PTL`; and each property has a theorem, `IInv => P` with `Invariance`.  The
invariants were checked by TLC on the instances of the runs before they were proved.

`JobRegistryProofs` proves, for any sets of jobs and handlers, any number of
permits and any bound on items, that `Spec` implies `TypeOK`, `SingleOwner`,
`NoJobVanishes`, `DeliveredOnce`, `HonestVerdict`, `PermitsConserved`,
`QueueExact` and `[][...]_vars` of `ResultStable`.  The assumptions are those
named in the module: the kinds of job are disjoint, `Permits` is positive,
`MaxItems` a natural number.  The inductive invariant `IInv` has three groups.
*Ownership* adds to the properties that a busy handler works on a job, that
nobody knows a job that was not created, and that a handler in the middle of a
cancel holds the mutex alone with its job in the map; without the last,
`SingleOwner` is not inductive, for a poll could take a job that a cancel works on.
*Publishing* adds where results come from: a result that is not the mark of
a cancelled chapter download was published by a task that ended, and a
completed one has no items left; without it `HonestVerdict` says nothing of the
step that answers.  *Semaphore* adds that the running tasks are a finite set, so
that cardinalities may be added, although `Jobs` may be infinite.

`SourceInstallProofs` proves, for any packages, sidecars and versions:
`TypeOK` and `ReportsTrue` under any `Faults`; `PriorRecoverable` when
removals of published artifacts do not fail (`RemovalsWork`; without it the
rollback that is repeated by `drop` breaks it, see above); and the refinement, that
`Spec` implements `SourcePackage` (`ImplementsSourcePackage`), when the operations of a rollback
and of a removal work and the process does not end in the middle
(`FaultsOutside`).  The invariant says for each step of a transaction where
each prior artifact is, and which of the published ones are in the folder.

`PersistenceProofs` proves about DatabaseSync, for any devices, edits and bounds, `TypeOK`,
`ServerConsistent`, `ProgressFindable` and `[][HeldUntilAccepted]_vars`.  For the first
`Beside` holds whatever uploads do: one that is past its first write has a database on the
server and a hash that has been there; and `Hashed` says that a file only grows between its hash and
its upload.  From this `OneUpload`, until two uploads have met, says that the one under way has
put all that the hash it will put stands for, and `Settled` that this stays when it is over.
For the second it needs, for each device, what each step of an exchange may rely on
(`FileThere`, `PoolClosed`, `Moved`, `Held`): from the rename to the new pool the backup alone holds
everything and the log is empty, afterwards the backup is not needed.  Assumed is `NoneIsNoDatabase`: the
value for no file is not a database.

Of SettingsStore it proves `SettingsTypeOK` and `SettingsKept` for any set of forms and any
bounds on requests and troubles.  `FilesAcceptable` (a readable file is a version that was reported
saved last or tried since) makes `RecoveryHonest` inductive, because a start takes whichever of two
files it can read; `FilesNotOlder` does the same for `NothingOlder`, and `OnlyIssued` (no
token or pairing with a number nobody has issued yet) makes a new token newer than every
form that is open.  `BoundsAssumption` says that the bounds are numbers, `NothingAssumption`
that the marks for no file and for a damaged one are not settings.

Of SourceCatalog it proves `CatalogsHonest`, for any lists, also the same one twice, any
sites and requests.  `CatalogInv` adds to `LastGoodKept` that lists keep their identities through
every change of the settings and are among those whose last good candidates are remembered
(`ListsTrue`), that every cache is filed under its own list (`CachesTrue`), and that what a
refresh has read before it waits is a cache of the list it waits for (`TasksTrue`); without the last, a
failure could write one list's candidates into another's file.  The other two parts of `CatalogsHonest` are
about every such state.  For the selection the loop over the candidates is shown to keep the best so far for
each source (`Marking`), which needs that versions are in order: those without a suffix are
(`LexicalOrder`, `PreferenceOrder`), those with one are not, and the property leaves them out.  `Loading`
says which candidates are loaded: those of the caches of the lists, each with the place that its list
has now.  For the preview, lists with one identity have one cache (`OneIdentity`), so
that what the preview finds among the caches of all lists (`FromIs`) and what the status finds among
those of the enabled ones (`CoveredIs`), before and after the removal (`DroppingIs`), is the
same.  The assumptions: an index that can be read has finitely many entries (`IndexesAreFinite`),
and the settings have a sequence of lists (`ListsAreLists`).

`LibraryProofs` proves, for any finite manga and chapters, any lists that sources publish,
any handlers and any budgets of requests: `TypeOK`; `CacheIsOneAnswer`; `AnnouncedOnce`;
`KnownChaptersStay` and `CronOutlivesErrors`, which are about steps; and `ListingsAgree`.
`IInv` has four parts.  `TypeParts` is the shape of every table and task.  `RefreshInv` says that the
list a task holds is one its source has published (`Released`, `ListHeld`), that it
deletes rows of its own manga (`IdsOwn`), and that a refresh nothing has disturbed
knows what is cached (`CacheKnown`), without which its two statements say nothing of the
cache they leave.  `AnnounceInv` speaks until checks cross: what was announced has been listed and is
cached or not listed any more (`ToldKept`), a check that is past reading the
cache knows all that was announced (`Remembers`), and no two such checks are of one
manga (`ChecksApart`).  `KnownChaptersStay` needs only that a refresh deletes
what is missing from some list the source did publish.  `ListingsAgree` is about the statements: it
follows from what a database may look like, for every mode of sorting and every order in which
SQLite may return rows that the statement leaves open.  The proofs changed the model in
three places, because a step was not what the code does: the library and the playlists
are rowid tables with gaps, queries without an order return any order,
and an exchange of the pool ends the claim of the refreshes under way to be undisturbed.
The assumptions: manga and chapters are finite (`FiniteAssumption`), names of sources can be compared
(`SourcesAssumption`), every source has a first list (`ReleasesAssumption`), the threads that check
are not request handlers (`HandlersAssumption`), times and budgets are numbers (`TimesAssumption`),
and the databases that a start or a copy brings are databases (`DatabasesAssumption`).

`SharedLocksProofs` proves `TypeOK` and `DeadlocksMixOrders` for any number of requests of
the 17 handlers.  The scripts are first shown to be orderly, by cases: a handler
releases only what it has taken, and takes its locks upwards in one of two orders of the five mutexes,
or in both.  `IInv` connects lines and scripts: a handler stands in the lines of the locks that
its script has taken and not released and of the one it is about to take, and nowhere
else (`Accounted`), and heads those it has taken (`Heading`); nobody is twice in a
line (`Queued`).  Then the argument is the usual one for ordered locks: of the locks
held in a circle the highest would be held by a request that waits for a higher one.
`DeadlocksMixOrders` needs both orders, each for the circles without the other's handlers.

`ChapterStorageProofs` proves `TypeOK` and `CounterExactUnlessUpset` for any finite
number of tasks and chapters, any lengths and any limit.  `Balanced` accounts for what is
under way: until something is upset, the counter and the lengths that tasks have still
to add are the folder and the lengths that tasks and the delete request have still to
subtract, up to a multiple of the word, because a subtraction that comes before its addition wraps.  At
rest nothing is under way, and both sides are less than a word: that is
`DiskAssumption`, that no folder holds 2^64 bytes.

`OvershootBounded` is proved for any number of tasks from `Filling`: the tasks that work with
a copy of the counter can be put in the order in which they took it (`age`), with a line
in this order at the latest one whose file has come.  Those before the line may still add one
chapter each to what the limit allowed then, and one after it knows of all but the files of the
tasks before it (`Ordered`).  The order is not a variable of the model; the
invariant says that there is one.  A wrapped copy fits whatever its size, but then
the folder holds less than is still to be added (`CounterKnows`).  The assumption is `WordIsRoomy`, that
the folder and a chapter more for each task and request are less than half a word; the run's word is
smaller, and TLC finds the property there all the same.  The proof has corrected the property: that the
bound is the limit and a chapter for each task but one is true only of
chapters that are not longer than the limit.  One that is longer is stored
while the counter is below zero, and the folder may then pass that bound (with a limit of 1, lengths 1 and
3 and three tasks it comes to 8), so the length stands for the limit there (`LargestFill`).  `Folder` adds that the candidates of eviction are
the files of the folder, each once, which is the theorem `CandidatesAreTheFiles`.

`SourceProofs` is about the specifications of SourceRequests, WasmStore, SourceWorkers and SourceInstances as
SourceServices instances them.  It proves `DocumentsHeld` of WasmStore, for any bounds and with no assumption on a
constant.  A value is a tree of at most three levels, and `Sound`, the invariant between imports, says
that only elements of html have documents (`Node`), that every document and every handle is older than the
next handle (`StoreTyped`), that the count of a document is the sum of its occurrences in all
values (`Counted`) and is not zero (`Needed`), and that the values that were not taken out of a
container too late have their documents (`Present`).  `set_std_value` adds to such a sum what the new
value is made of and `take_std_value` subtracts it (`SetLinks`, `TakeLinks`, from the lemmas about sums), and a
new document starts at zero because nothing can be made of a handle that was not given out
(`NothingOfNew`).  An import may leave a tree of one level more (`Raw`), since `create_*` and
`array_append` put containers into containers; `Within`, the bound of the model on values, cuts it back.  Then each
import is a set of stores that are raw (`...Raw`), and each action keeps `Sound`.

Of SourceWorkers it proves `TypeOK` and `AnswersOwn`, for any callers, chapters, numbers of
workers and of failed starts, and all four runtimes.  What the invariant adds is
`EnginesTrue`: the stash of an engine that answers is that of the chapter it says it has, or of none that was read, so that the
check before an image, which reads the chapter, speaks of the stash.  No worker that was left
behind breaks it, because every worker has an engine of its own; and a request that is
answered with an address forgets the one before it first (`base`).

Of SourceRequests it proves `SummaryHonest`, for any requests, any sources they ask and any number and age of
observations that are kept; the assumption is that these are numbers (`BoundsAreNumbers`).  What a
history does not hold is older than all that it holds, and is out of date or, with a history that is
full, one too many (`Remembers`).  That is more than the verdict needs, which asks only who is
older, but that alone is not inductive: a request that records late may bring observations that are older
than what was pruned, and only a history that was full, or an age that has passed, keeps them out
(`Remembered`).  A restart goes back to the file, whose observations were all recorded and are in order
(`Within`).  The last observation and every active failure of the history are then those of everything
(`SameVerdict`), and as failures of the history are fewer, it may only say that it does not
know.

Of SourceInstances it proves `InstancesTrue`, for any packages of the four kinds, versions, definitions of
settings, stored values, calls and changes.  `InstancesInv` has four parts.  `FilesTrue`
says what the files beside a package tell of which version, and that what the probe cache
has under a version is what this version tells, unless a late probe is on record (`FileTrue`).
`RegistryTrue` says that instances in use are of their source, and have the definitions and metadata that
belong to the code they were loaded with (`Describes`).  `CallsTrue` says what a call that is probing, booting or saving
may still rely on after changes in between (`CallTrue`), and that a name a new instance gets is not
one that a call still has: there are more names than calls (`FreshName`, by counting), and
that is why calls are finitely many.  `SettingsTrue` connects the three places of stored settings: an
instance and its engine `Has` them unless the source is stuck or a call of it is saving.
The step that needs most is a reload of several packages with one that fails (`LoadKeeps`, `Reloaded`).
Assumed is `PackagesAreKnown`: packages are of the four kinds, calls finitely many, and the name of an
instance is not the mark for none.  The proof corrected the model: a late probe had been taken off the record
by the next installation, as if that probed again, but the code finds the file under the version's name and trusts it.

`OrderLemmas` has what these share.  A set of subsets of a finite set that is not empty has a
smallest member (`SmallestSet`, from the library's well-founded orderings), and that is
induction in a form that needs no operator parameter: the lemmas about `Max` and `Min`, about
`SetToSeqs` and its sorted members, and about `SumFunction` take a smallest counterexample.  So the sum of a
function over a finite set, which the community modules define by recursion over chosen
elements, is shown to exist, to take its elements in any order, to change with one value
by as much, to grow with its domain, to hold each of its terms, and to be bounded by its largest value (`OneSum`, `SomeSum`, `SumTakesAny`, `SumChange`, `SumAdds`,
`SumHolds`, `SumBound`).  The lemmas about lines
(`Joining`, `Leaving`, `GivingUp`) serve mutexes and files alike, those about picked elements
(`Places`, `Picking`) the values whose documents are gone.  A set of numbers that has with each number the
next one has all (`Climbing`), and so there is, for any step within a set, a function that is defined
by recursion over numbers (`Recursion`); `Flattening` uses it for the elements of sequences that are put
one after the other, and the proof of SourceCatalog for its loop over candidates.

Only model-checked, and why:

- Liveness: `RequestsEnd`, `NoStarvation`, `CancelStopsTask`, `ResultArrives`, `PersistEnds`,
  `DueGetsChecked`, `CancelReaches`, `CallsEnd`.  They need fairness and ENABLED, which the
  prover does not handle.
- `EachTypeOK`, of the sum: those of DatabaseSync, SettingsStore and SourceWorkers are theorems (`TypeOK`,
  `SettingsTypeOK`, `Workers!TypeOK`).  Of the types in SourceRequests, WasmStore, SourceCatalog and
  SourceInstances, the inductive invariants have what the proofs need, and the rest is left to TLC:
  it is in reach, but says less than what is proved.

Only proved: the safety of library refreshes in JobRegistry, which the run leaves
out, `HeldUntilAccepted`, and `PriorRecoverable` with failing restores and crashes.

## What is not modelled

- Within the modelled parts: posters, a change of the downloads folder or of the
  limit, and mounting the tmpfs in ChapterStorage; packages with several sources
  in SourceInstall; two packages with one source id anywhere; in SharedLocks, the
  handlers whose lock sequence is that of another one or a single lock, what handlers
  compute, and network calls other than those to sources; the debounced tracking
  push and reuse of a cancel id in SourceRequests; merging and paging of search
  results; tracking bindings and migrations in LibraryTables; the prediction of the next
  release, which is floating-point arithmetic; in SourceCatalog, languages
  and the wording of the status.
- Of the source runtimes: what the interpreters compute, the bridges to Dart and
  JavaScript, XPath, drawing beyond its handles, and web views.  They are conversions
  without state of the host.
- In SettingsStore, the fields that nothing there tells apart, sessions of the OAuth
  bridge that are not completed, the copy of settings and storage that the cron
  task keeps, a rename that a loss of power undoes (the folder is synchronised, but an
  error of that is only logged), and other errors than a missing file in reading, which end
  the start and change nothing.
- Cookies, their file and their synchronisation, and what the tracking
  services answer.
- The updater, source diagnosis, transport, JNI, image and metadata conversion,
  the Lua frontend, the Telegram bot, tools and packaging: foreign code, pure input
  and output, or conversions without state.

`PROJECT.json` lists every part with its files, the hazards of the code at their
lines, and the properties that would notice them.

## The plan

Done: every module of the list above with its run; the refinement of SourcePackage; the
safety of JobRegistry, SourceInstall, DatabaseSync, SettingsStore, Library, SharedLocks,
ChapterStorage, SourceRequests, WasmStore, SourceWorkers, SourceInstances and SourceCatalog proved.

Next, the most important first:

1. `JobContract`: what a job promises its client, and JobRegistry shown to
   implement it; a composition of JobRegistry with ChapterStorage.
2. A `CookieStore` beside SettingsStore: overlapping synchronisations, an unpairing
   between, the file.
3. The debounced tracking push and cancel ids that are reused, in SourceRequests.
4. Packages that share a source id, in SourceInstances: a restart registers what an
   installation did.

## How to run it

In this directory, `tlc -config <cfg> <module>` with the cfg and the module that
`PROJECT.json` gives for a run, and `tlapm <module>Proofs.tla` for the proofs.  The longest run
takes between two and three minutes on two workers.
