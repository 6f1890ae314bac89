# TLA+ models of cortex-stt

This directory holds the verification project of the cortex-stt speech-to-text
server (`src/cortex-stt`): TLA+ modules translated from its Rust source, the
instances TLC checks, and proofs for TLAPS. Paths such as `engine/pool.rs` are
relative to `src/cortex-stt/src/`.

## 1. The system

cortex-stt is one asynchronous process (tokio, axum). Clients transcribe audio in
one request, as an asynchronous job, or over a WebSocket; models are downloaded
from a catalog, installed, loaded into memory on demand and evicted when memory
is short. SQLite keeps history, settings, keys and evaluation results; audio and
model files lie in directories beside it. Almost all of the difficulty is in
interleaving: every `.await` is a point at which other requests run, and a
handler's future is dropped where it stands when its client hangs up.

| Component | State | Operations | Talks to | Hard behaviour | What makes it correct |
|---|---|---|---|---|---|
| Engine pool `engine/pool.rs` | instances, free list, semaphore | `acquire`, `with_engine`, drop of a guard | used by the manager's callers | two objects (permit, index) updated in two steps; timeouts; panics | a permit always finds an index; one task per instance; waiters are served |
| Transcriber, streams `transcriber.rs`, `api/stream.rs`, `api/transcribe.rs` | one session: guard, audio so far, deadline | `transcribe`, `open_stream`, `feed`, `finalize`, `abort`, drop | pool, history, text | an engine call outlives its deadline; the client hangs up at any message | one history row per request; caps hold; a stream is its session's own |
| Engine manager `engine/manager.rs` | pools and their last use, factories, load locks, reservations | `acquire_traced`, `load_model`, `reserve_slot`, `unload`, `update_config`, idle watcher | pool; install; settings; transcriber | check, wait, look again; eviction while loading; abandoned loads | at most `max_loaded_models`; replaced weights do not serve; nothing leaks; no deadlock |
| Downloads `model/download_manager.rs`, `download.rs`, `progress.rs` | slots, queue, cancel tokens, progress board, `.part` and model files | `start`, the task, `complete`, `finish`, `cancel` | install; catalog; the server with the files | cancel from outside the task, task not stopped; resumed files; hang-ups | one download per variant; slots are freed; what is installed is what was verified |
| Catalog, installed variants `model/catalog.rs`, `installed.rs`, `types.rs` | the model directory: files and sidecars | scan, list, migrate, backfill, delete | downloads, install, the manager | a file and its sidecar change in two steps, by three hands | what is on disk is what is listed, and under its own name |
| Registration, install `engine/register.rs`, `model/install.rs` | factories, stored settings | `apply_engine_settings`, `install`, `uninstall`, start-up | manager, downloads, settings | settings read some steps before they are used | the manager serves what is registered and stored |
| Jobs `job.rs`, `api/transcribe.rs` | records by id | `insert`, `complete`, `fail`, `cancel`, `sweep` | transcriber | late results; capacity sweeps | terminal stays terminal; work in flight is not evicted; results are kept |
| History `history/*` | rows, audio files | `create`, `delete*`, sweeps, `drop_audios`, queries | transcriber, retention, evaluation | file and row change in two steps; a stop between them | a row's audio exists, or its absence is accounted for; counts are those of the lists |
| Retention `retention.rs`, `cleanup.rs` | none; hourly loop | decide, sweep | history | runs beside requests | removes what the policy says and no more |
| Evaluation `eval/*` | samples, pending captures, runs | capture, promote, discard, delete, judge; start, cancel, execute, summarise | history, manager, pool | promote against discard; one run at a time; the displaced models | a sample has its audio; a run shows what it measured and gives back what it took |
| Settings, keys, errors `config.rs`, `settings.rs`, `db/*`, `error.rs` | SQLite rows, a copy of the settings | load, save, layers, keys, statuses | all | read, save and apply are three steps | stored choices hold; the system's keys stay |
| Audio, text, native bridge `audio/*`, `text/*`, `engine/transcribe_bridge.rs` | an engine's session or stream | decode, options, stream calls, render | pool, transcriber | malformed files; a session lost half way | what is read lies in the file; a session is held once |
| HTTP, start-up `api/*`, `main.rs` | none of its own | routing, ranges, authentication | all | hang-ups | modelled where they hit a component |

How the parts interact: an HTTP handler calls the transcriber, which asks the
engine manager for a guard of the model's pool (loading the model first, perhaps
evicting another); a download's completion tail installs the file, which
registers a factory with the manager and unloads the pool built from the old
file; the catalog reads the progress board and the directory; evaluation runs
take instances from the same pools and load and unload models of their own.

`PROJECT.json` lists every part with its files and, under `hazards`, what in this
code is hard to test, each at its line, with the properties that cover it.

## 2. Modules

| Module | Models | Kind |
|---|---|---|
| `ModelPool` | `engine/pool.rs` | state machine |
| `ExclusiveLease` | what a `PoolGuard` promises | abstract; `ModelPool` implements it |
| `Transcriber` | `transcriber.rs`, `api/stream.rs`, the synchronous half of `api/transcribe.rs` | state machine over `ModelPool`, which it implements |
| `EngineManager` | `engine/manager.rs`, the update of `engine/register.rs` | state machine |
| `DownloadManager` | `model/download_manager.rs`, `download.rs`, `progress.rs` | state machine |
| `InstalledVariants` | `model/installed.rs`, `catalog.rs`: the directory of a model and who writes to it | state machine |
| `Installation` | `model/install.rs`, `engine/register.rs`, `api/settings.rs`, start-up | state machine over `InstalledVariants` |
| `JobStore` | `job.rs`, the asynchronous half of `api/transcribe.rs` | state machine |
| `History` | `history/mod.rs`, `store.rs`, `cleanup.rs` | state machine over `Retention` |
| `Retention` | `retention.rs` | operators |
| `EvalSamples` | `eval/mod.rs`, `store.rs`: captures, samples, judgements | state machine |
| `EvalRunner` | `eval/runner.rs` | state machine over `EvalSamples` |
| `RunOverview` | what `eval/*` derives from runs: summaries, baseline, memory | operators |
| `HistoryQueries` | queries and dashboard of `history/store.rs`, `analytics.rs`, `api/metrics.rs` | operators |
| `CatalogList` | the directory read as the list of models | operators |
| `Config` | `config.rs`, `settings.rs`, their use in `main.rs` | operators |
| `RunOptions` | `engine/transcribe_bridge.rs`, `text/*` | operators |
| `AudioInput` | `audio/*`: which bytes become samples, the archive | operators |
| `ByteRange` | `api/range.rs` | operators |
| `AsrError`, `ApiKeys` | `error.rs`; `db/keys.rs`, `api/keys.rs`, `api/auth.rs` | operators |
| `TranscriberProofs` (with `ModelPool`), `EngineManagerProofs`, `DownloadManagerProofs`, `InstallationProofs`, `RequestProofs` (with `JobStore`), `HistoryProofs`, `EvaluationProofs` | theorems | TLAPS |
| `FiniteInduction` | none of the code: induction over finite sets, which the others use | lemmas |
| `MC...` | sets and symmetry for TLC, and the bounded inputs of the operators | instances |

An action is the code between two awaits or two locks: what runs under one lock
is one action, and where a lock is dropped and taken again, or a future awaited,
there are two. Where a later step only commutes with the others it is merged with
its predecessor, and a comment says so. A definition whose comment begins with
`mutant:` is a deliberately wrong variant of the one that follows it; no
specification uses it, and each shows that one property fails when the code has
that bug.

A value that the code keeps as an `Option` is, in the modules of operators, a set
of at most one element. An operator stands for a query or a conversion; its
properties are ASSUMEs of an MC module, evaluated for every input in a bounded
set whenever a run starts.

### ModelPool

`engine`, `free` and `permits` are `instances`, `free_indices` and the semaphore;
`waitq` is the semaphore's own queue. tokio's semaphore is external and modelled
by its contract: it is fair, a released permit is assigned to the longest
waiter, and a waiter that gives up after the assignment hands it on. `pc` is where
a task stands between `acquire` and the end of the guard's drop. `PopIndex` is
disabled where `expect` would panic, and `PermitFindsIndex` says this never
happens. `Rebuild` may fail and leave the slot `"none"`; calls on such a slot
return an error and change nothing, so they are no action.

### Transcriber

Each client has one request: a batch, a stream session, or the use an evaluation run
makes of an instance. The pool's actions take part in its own (`Acquire`,
`CallPanics`, `GuardDropped`), so every step is one of `ModelPool` or none, which
`TranscriberImplementsPool` proves. `thread` is the engine call on its blocking
thread; it holds the guard and cannot be stopped, so a request that runs out of time
(`Timeout`) or whose client hangs up (`HangUp`) ends without it. `stream[i]` is the
client whose stream instance `i` has open: a session that was dropped leaves it, and
the next `begin` discards it. A session need not end: every frame, a ping too, starts
the idle timeout anew (`api/stream.rs:281`), and the cap ends only one that sends
audio. `KeptOpen` says that a client does this. `buffer` counts samples and `Ms`
rounds down, as the code does for each chunk.

The history insert is taken to succeed: in the code a failure is logged and the
request goes on. Whether the row is written before or after the guard drops
differs from path to path, and the model allows both. Requests refused before
they start leave no row and are no action. The `JoinError` arm needs a panic
outside `catch_unwind` and is left out.

### EngineManager

A task is one caller: a request in `acquire_traced` and `load_model`, or an
update or unload. The `Arc<Mutex>` objects of `load_locks` have identities
(`LockIds`), because the hazard lies in one model having two: a lock leaves the
map with its pool (`RemoveModels`) while tasks hold clones of it. `usedBefore` is
the order of the pools' `last_used`, without the times. A factory is a version
number; a load remembers the one it read in `ver`, and `weights` is the version a
pool was built from; `settled` is the newest version whose update's unload is
over. `Cancel` is the drop of the caller's future at any await, an update's between
`register` and `unload` included (the client of `PUT /api/settings` hangs up): what
the code's guards (`LoadReservation`, the mutex guard) release is released, and the
build on its blocking thread runs on without a reservation. `adrift` has the models
of such builds until they return (`BuildRunsOut`). Two history variables name what
the limit does not cover: `overlooked`, those of them that a later reservation did
not see, and `crowded`: more builds than places ran at once, or two of one model
overlapped, so that `loading`, a set of ids, counts them once. `Registered` are the
models that have a factory at first.
`IdleSnapshot` and `IdleSweep` are the two halves of the idle watcher; any set of
models closed under "used earlier" may qualify, so that no clock is needed.
`EngineManager` is not composed with `ModelPool`: the manager only clones an
`Arc<ModelPool>` and a pool removed from the map lives on in its guards.

### DownloadManager

A request is a number. `token` is its `CancelToken`, `pc` its position: in the
queue, in the task from the first snapshot to the rename, or in the completion
tail. `board` is the progress board. `part[v]` names an inode and a task that
writes holds one in `handle`: removing the `.part` file leaves the inode to the
task that has it open, and the next download of the variant gets another. A
file's content is how many chunks it has in the right order, or `Garbled`. The
server is external and may honour a range, ignore it, answer 416 where the range
starts past the end, or fail. `Cancel`, `Erase`, `Teardown`, `CancelRelease` are
the phases of `cancel`; `StartDropped` and `CancelDropped` are clients that hang
up between two awaits of a handler; `Restart` forgets everything but the files.

Three history variables name the exceptions that the code as it stands needs:

- `robbed`: downloads whose slot, board entry or `.part` another download's task
  or cancel took away. The code keys these on the variant, not on the download. The
  clear of a completed entry after its grace period is no such case: it looks first.
- `crossed`: downloads first shown while the clear of the download before stood
  between that look and the removal.
- `abandoned`: downloads whose `start` or `cancel` call was dropped half way; the
  slot stays taken until the variant is cancelled again.

### InstalledVariants and Installation

`InstalledVariants` has the files of one model: `file` and `side` per variant (a
content is its version, and so is a digest), `flat` for the layout of older
releases, `pin` for what the catalog offers. `keeper` is start-up's way through
the directory: migrate, describe, register, and in the background the backfill,
which hashes for minutes and writes the sidecar it read before. A sidecar is
truncated and written in two steps; a stop, a failure or another writer in
between leaves it `Garbled` or old, and `spoiled` names those, and the files that
could not be hashed. A file of the old
layout whose move failed is moved at a later start, over whatever was downloaded
meanwhile: until its sidecar is rewritten, `reverted` names it. Downloads appear
from the rename on; how they fetch and verify is `DownloadManager`'s. `echo` has the
variants whose cancelled download has yet to publish its progress for the last
time: it may do so after the cancel cleared the entry, and that entry then stays.

`Installation` adds the calls: `PUT /api/settings` in its three steps, the install at
the end of a download, `uninstall` of one variant or of the model, and the restart.
`Callers` and `Removers` are the clients of settings and of DELETE; as idle ones are
alike, the next request is of one chosen among them (`NextCaller`, `NextRemover`). An
uninstall keeps what it has deleted (`gone`), and in `met` what others crossed since
it looked at them all: with a download started or shown once more, or an uninstall of
theirs. `factory[v]` is the backend its registered factory builds for; `astray` says
that settings of this start were read wrong, crossed, or never applied because their
request was dropped. Loads and pools are `EngineManager`'s. Left out: a directory that
already has a flat file beside another one when it is first found, a catalog that
rolls back, and downloads that are not verified. The check of a whole-model uninstall
(what is installed, each against the board) is one step.

### JobStore

Each operation runs under the store's write lock and is one action. `worker` is
the spawned task. `Sweeps(target, E)` is both passes of `sweep_locked`; `E` is any
choice of the oldest by `created_at` (ties are open, as in the code's sort of a
hash map's records). `SweepLook` and `Sweep` are the check under the read lock and
the sweep under the write lock. `clock` is `Utc::now()`, which the model takes to
be monotonic. `peak` is the largest number of jobs that were ever in flight.

### History and Retention

`row` is the table, `file` the audio directory; a record's file is named after it.
`create` is the one `create()` of a record (write the file, insert, undo), a worker
a task that deletes or sweeps: `todo` are files to walk, `safe` the ids it got
through. `Age` lets days pass. A worker's listing is stale by the time it acts on
it, and any step may fail or be the last (`WorkerDropped`, `CreateDropped`, bounded
together by `MaxFaults`). `lost` and `torn` account for what that leaves behind.
`beside[w]` is what others took, a file or a row, since the sweep of `w` listed: by it
a sweep is judged by what was there when it listed and what is there now.

`Retention` decides by what is newer than a candidate instead of by a sorted walk.
As in the code, candidates for the record policy have no size and a `DiskLimit`
makes sense for audio only; the model gives it to no other.

### EvalSamples and EvalRunner

A clip is captured (`Check`, `WriteWav`, `InsertPending`), then promoted, discarded or
deleted in two or three steps each; the pending row, the sample row and the one audio
file change one at a time. `beside`, `stray` and `torn` are history variables as
above. `EvalRunner` is the run slot, the run's row and its task: `phase` is where it
stands, `local` its variables, `displaced` is `previously_loaded`, fixed when the run
begins; the history variable `missing` has the models it unloaded and has not asked
for again, also those that were loaded since and had to go before a candidate. The
engines themselves are not modelled, `Voice` is what voice commands load. A restart
corrects the newest `Recent` runs. Taking the slot and listing the samples is one
step. A start that is dropped or fails after the unload leaves the working set
unloaded and its row `running` until the next start (phase `"cut"`); a cancel after
the last sample still ends as completed. The refusal while downloads run reads
`DownloadManager`'s state and is left out.

### The modules of operators

- `RunOverview`: baseline, changes, verdicts and memory of a run as it is shown. As
  in the code, the baseline is looked for among the newest fifty runs, a search of
  the runs filters after the limit, median real-time factors count failed results,
  and two runs of one second may each be the other's baseline.
- `HistoryQueries`: filters, pages, facets, the dashboard's counts and the start of
  a day in a zone whose clock changes. The order of rows of one second is fixed
  here; instants are in UTC.
- `CatalogList`: any directory, with any sidecars, as the list a client is shown.
- `Config`: the layers of the command line, the environment and a file; stored
  settings and the migration of older ones.
- `RunOptions`: language tags, engine errors, and the session or stream an engine
  has through any calls. The only module with a RECURSIVE operator.
- `AudioInput`: the WAV scanner chunk by chunk, sample conversion, the archive.
- `ByteRange`, `AsrError`, `ApiKeys`: what a Range header selects, the status of every
  error, and API keys as a table.

## 3. Runs

| Run | Instance | Shows |
|---|---|---|
| `pool` | `Transcriber` on its pool: a streaming client, a batch client, an evaluation run, 2 instances, fairness | `PermitFindsIndex`, `PermitsConserved`, `PanickedIsFenced`, `SessionTypeOK`, `EveryEndIsRecorded`, `StreamIsOwn`, `BufferBounded`; implements `ExclusiveLease` (`GuardsAreLeases`); `WaitersAreServed` |
| `manager_capacity` | 3 models, limit 2, 2 tasks, 1 abandoned build | `TypeOK`, `WithinCapacity`, `EvictsLeastRecentlyUsed` |
| `manager_updates` | 1 model, 2 tasks, 2 versions, fairness | `NothingLeaks`, `OutdatedLoadsAreOrphans`, `EveryCallEnds` |
| `manager_stale_weights` | the same | refutes `NoReplacedWeightsServe` |
| `downloads` | 2 variants, 1 slot, 2 downloads, 2 cancels, 2 chunks, 1 restart | `TypeOK`, `LiveDownloadsHoldSlots`, `HeldSlotsAreFreed`, `QueuedOnlyWhenFull`, `InstalledIsWhole`, `FetchingIsShown` |
| `downloads_drain` | 2 variants, 1 slot, 2 downloads, 1 cancel, fairness | `QueuedLeaves` |
| `downloads_twice` | 1 variant, 3 downloads, 2 cancels | refutes `OneDownloadPerVariant` |
| `downloads_mixed` | 1 variant, 2 downloads, 1 cancel | refutes `VerifiedIsInstalled` |
| `installation` | 2 variants of a model, 2 clients of the settings, 2 uninstalls at a time, 3 events, fairness | `InstalledIsTold`, `InstalledIsServed`, `InstalledIsKept` |
| `jobs` | 4 jobs, cap 2, time to live 1, clock to 2 | `TypeOK`, `WorkMeetsJob`, `BoundedByLoad`, `OnceTerminal`, `ResultsAreKept` |
| `history` | 2 records, 2 workers, 3 pairs of policies, 1 fault, fairness | `TypeOK`, `NoStrayFiles`, `GoneAudioIsAccounted`, `SweepsTakeOnlyExcess`, `SweepsCatchUp` |
| `evaluation` | 3 clips, 2 runs, 2 models, 2 requesters, 4 events, fairness | `ClipsAreTakenOnce`, `SamplesOwnAudio`, `RunsAreWhatTheyShow`, `RunsGiveBack` |

The modules of operators are checked when these runs start, for every input in
the sets their MC module names:

| MC module | Assumption | Inputs |
|---|---|---|
| `MCTranscriber` | `HeadersAreFound`: the scanner finds the first format and data that are complete, an archive is read again | WAV files of up to 3 chunks, 5 lengths |
| | `LanguagesAreUnderstood`: a hint resolves to a declared language or none, no rendering loses what was said | tags of up to 2 subtags, 2 declared languages |
| | `SessionsAreHeldOnce`: no calls leave a session beside the stream that holds it, and one that fails leaves no stream | any 5 calls |
| `MCHistory` | `PagesAreWhole`, `CountsAreTheLists`, `DaysHaveBegun`: pages tile the list, the dashboard counts what the list shows, a day has begun by now | up to 5 rows, every page size; 2 rows of every kind; a 3-hour day under every change of the clock |
| `MCEvaluation` | `CoexistIsWorstCase`, `ChangesAreCompared`: memory figures are the worst case, differences are counted over what both runs covered | up to 3 candidates; 2 runs of 2 samples |
| `MCInstallation` | `ListsAreWhole`: what is installed is shown as downloaded and can be named, and each id is shown once unless a Custom model took another's | 80 directories, 5 boards |
| | `LayersAreInOrder`, `StoredSettingsHold`: the layers of the configuration, and stored settings through migration | every combination of one field's layers and 3 files; every stored row |
| `MCJobStore` | `ErrorsAreAnswered`: each kind of error has one status, and one reported as gone says what is | every kind |

### Bounds, and why they are enough

- `pool`: with two instances and three clients, two hold and one waits, or one is
  between the two halves of its drop while another races it; a session and an
  orphaned engine call of a batch meet at one instance. `CapMs` is one millisecond and
  chunks end just below one and two, where rounding matters. What TLC finds of the
  pool and the sessions here the theorems prove for any number of clients.
- `manager_capacity`: three models for two places make an eviction with a choice
  of victim; two tasks can both load, load and evict, load and unload. There is
  one lock identity for each model and each task, so a fresh one always exists.
  `MaxVersion` bounds the number of updates: here all models are registered from the
  start and none is updated. `MaxAdrift` bounds the models of which a build runs on:
  one is enough for it to be counted, and overlooked, beside two others.
- `manager_updates`: a load, an update during it and the watcher need one model
  and two callers. The first update registers the model, the second replaces it:
  two versions distinguish old weights from new.
- `downloads`: `MaxDownloads` bounds how many requests are ever made; two of one
  variant overlap when the first is cancelled and its task not yet stopped, two of
  different variants queue for the one slot. Two chunks tell an empty, a partial
  and a whole file apart. The refutation of `OneDownloadPerVariant` needs three
  downloads. The models of downloads do not check for deadlock: once all requests
  are made and done, nothing is left to do.
- `installation`: `MaxEvents` counts downloads, uninstalls, settings, failures and
  restarts together. Three are an update and an uninstall across a restart, two
  settings requests that cross with a dropped connection, or two uninstalls that
  cross with a download, a late notice or an error. Two variants are
  needed for the whole-model uninstall; one of them starts as absent, the other as
  installed, in the old layout with an update on offer, or dropped from the catalog.
  `InstallationProofs` covers every other directory. No deadlock check: with the
  events spent and start-up over, nothing is left to do.
- `jobs`: four jobs for two places fill the store with running jobs, finished ones,
  and overflow it. Clock values 0 to 2 give younger, older and expired. Deadlock
  is not checked, for the same reason.
- `history`: two records of which a policy keeps one or none, and two workers, make
  a delete beside a sweep and two sweeps over one listing. `MaxParams` is one, so
  that a listing can exceed what a statement takes. One fault is enough to cut any
  one operation short. Deadlock is checked: sweeps always can run.
- `evaluation`: a sample that is there from the start and two captures of one
  record, two runs of which one asks for the same candidate twice. `MaxEvents` counts
  requests, failures, dropped requests and restarts: four are two crossing
  requests that each get cut short, or a run with a cancel, a delete and a
  restart. `Limit` is four results, so that runs below and above it exist, and
  `Recent` is one, so that a restart meets a run it does not correct.

Sizes on one machine with two workers: from some thousands of states to 3.2 million
(`jobs`), each run within three to four minutes.

### Fairness

Safety needs none. Where liveness is checked:

- `pool`: threads of engine calls return, tasks are polled on (weak fairness of
  `Work`), and an evaluation run gives its instance back. Nobody has to end a
  session, and no deadline is assumed to fire: a waiter is served unless every
  instance is held by a session that its client keeps open for ever (`KeptOpen`),
  which with one streaming client and two instances cannot happen. Otherwise
  `WaitersAreServed` rests on the order of the queue alone.
- `manager_updates`: a running call is polled on and builds return; a tokio mutex
  is fair, hence strong fairness of taking a load lock. No call has to start or be
  cancelled, nothing has to become idle, and no abandoned build has to return.
- `downloads_drain`: tasks and cancels are polled on; a request to the server comes
  to an end, at the latest by its timeout. Nobody is obliged to start or cancel,
  to hang up or to stay.
- `history`: a create that began and a worker are polled on; sweeps come again and
  again, as the hourly loop does (strong fairness of some sweep, for a worker may be
  busy each time). Deletes need not come, time need not pass.
- `evaluation`: a start that has the slot is polled on or dropped, its task runs.
- `installation`: start-up with its background task and the tasks of downloads go
  on; nobody has to ask for anything.

## 4. Where code and comments disagree

Each of these is a run that TLC refutes, with the line the comment stands on in
`PROJECT.json`.

- `manager_stale_weights`. `unload` promises to wait for a load in flight
  (`manager.rs:350-353`). Eviction and the idle sweep take a model's load lock out of
  the map with its pool although another task may wait for that lock; that task then
  loads under a lock that no `unload` can find. An update in this window returns
  early, and the load lands the replaced weights. `OutdatedLoadsAreOrphans`, which
  holds, says what remains of the promise: an unload that went through has waited for
  every load whose lock is still in the map.
- `downloads_twice`. `download_manager.rs:13-17` promises one download per variant
  and a release keyed on one download. The key is the variant: a second cancel of a
  download that was already cancelled signals "Active" as well, and when it reaches
  its third phase it releases the slot of whatever download has it by then.
- `downloads_mixed`. `download_manager.rs:33-36` promises that a cancelled task
  touches no shared state. A task waiting for its response looks at its token only
  with the first chunk; on a 416 it removes the `.part` by path and creates another.
  A later download that has just hashed its own `.part` renames the empty one.

Smaller ones, met while modelling and built into the models as the code has them;
no run is spent on them:

- A whole-model uninstall that is refused half way has already deleted variants,
  where `install.rs:91-92` promises that all of them stay: a download starts, the last
  notice of a cancelled one arrives, another uninstall was faster, or a file cannot be
  removed. `NothingLeavesUnasked` says when.
- An uninstall looks at the board, then at the directory, then deletes: a file
  downloaded since that look goes with the rest (`met`), which `catalog.rs:146-149`
  says is refused.
- The build of a call that was dropped runs on (`manager.rs:304-310`) when its
  reservation is gone, so that more models can be in memory than
  `manager.rs:221-224` says (`overlooked`).
- A `PUT /api/settings` whose client hangs up between `register` and `unload`
  (`register.rs:37-50`) leaves the pool of the old backend, or a load of it, to serve
  on until it is idle or evicted: the same request again finds nothing changed.
- A streaming client that only answers pings is never idle (`api/stream.rs:281`) and
  holds its instance for ever, which the timeout is there to prevent (38-42).
- The clear of a completed download looks at the board and then removes the entry
  (`download_manager.rs:428-433`): one that is first shown in between goes with it,
  against 405-407, until its next chunk is told (`crossed`).
- A run unloads before each candidate whatever is loaded by then (`runner.rs:299-302`)
  and gives back only what was loaded when it began (199-202), so that a voice command
  may have to pay the cold load that 434-435 wants to spare it (`missing`).
- A start-up marks as failed the runs that were running among the newest fifty
  (`eval/mod.rs:169`), not any of them (163-165).
- A `create` that is dropped, or fails to write or to undo, leaves a file (`lost`),
  where `history/mod.rs:82-85` says never.
- A slot whose engine panicked and could not be built anew stays `None`, where
  `pool.rs:30-31` says always `Some`.
- A file whose move to the new layout fails is not recognised until the next start:
  `installed.rs:327-328` says it still is, the scan (291-295) skips it. If its user
  downloads it again meanwhile, that start moves the old file over the new one
  (376-381), and until its sidecar is rewritten, or for good if that fails, the old
  file passes for up to date (`reverted`).
- A retired variant drops off the list while the backfill rewrites its sidecar,
  though `catalog.rs:54-57` lists what is installed.
- The environment names the configuration file before the argument does, while
  `config.rs` puts the command line first; and the `--config` it scans the
  arguments for is not the name clap knows (`--config-file`).
- A `from` with a fraction excludes rows of its own second (`HistoryQueries`).
- `applied_transforms` names a rendering even when its converter could not be built.
- Crossing settings requests, a dropped one, or a read error at start-up leave
  factories of other settings than the stored ones (`astray`).
- A custom model whose id the catalog has, or had, is listed twice, and its bare id
  is refused as ambiguous (`CatalogList`).
- An API key that is configured anew leaves the row of the one it replaces in force.

## 5. Proofs

Every safety property that a passing run checks is a theorem. Eight modules hold
them and the lemmas they rest on. Each states its result for every value of the
constants, from the assumption the component's module names; TLC evaluates the
same assumption on its instances. The shape is the same for every state machine:
`Init` implies an inductive invariant, a lemma for each group of actions shows that
it is preserved, and the properties follow from it.

### TranscriberProofs, the pool (`PoolAssumption`: any finite set of tasks, any pool size)

The properties are not inductive. `PoolInv` adds to them:

- `HeldMatchesPhase`: a task has an index exactly while it has a guard;
- `IndicesDistinct`, `IndicesConserved`: the free list and the guards partition the
  indices, and their numbers add up to the pool size;
- `QueueOK`: the semaphore's queue holds waiting tasks, each once.

`PermitFindsIndex` is a counting argument: a task with a permit and no guard
is in `WithPermit` and not in `WithSlot`, so fewer than `Size` guards exist and
`IndicesConserved` leaves a free index. `PanickedIsFenced` needs
`IndicesDistinct`: only the guard's owner can push an index back. `PoolImplementsLease`
maps every step to a `Take`, a `GiveBack` or a stutter, again from
`IndicesDistinct`. `HandOn`, which two actions share, has a lemma of its own;
`CountTasks` and `RemoveAtProperties` are the facts on cardinalities and sequences.

### TranscriberProofs, the sessions (`TranscriberAssumption`: any clients, cap and chunk sizes)

`TranscriberImplementsPool` shows `TSpec => Spec`, step by step, so that everything
proved of the pool holds under its users. `SInv` conjoins `PoolInv` with

- `RowsFollow`: no row before the outcome is known, one after;
- `GuardFits`: which phases have a thread, a guard or neither. A session between
  its begin and its end holds the guard, and so does a thread nobody waits for.

`StreamIsOwn` needs the pool's exclusiveness: `OthersKeepTheirGuard` says that a step
of one client moves no other's index, so only the holder's own steps write to
`stream` at its index. `BufferBounded` is `MsBound`: a sum of two rounded-down
durations within the cap is at most the cap and twice fifteen samples.

### EngineManagerProofs (`ManagerAssumption`: any models, callers, limit, number of updates)

`ManagerInv` adds to `TypeOK`, `NothingLeaks` and `OutdatedLoadsAreOrphans`:

- `LocksHeld`: a call inside `load_model` owns the lock it has a clone of;
- `LoadsReadPast`, `UnloadsReadPast`: nobody has a factory version yet to come, so
  that an update that registers a version is newer than every load under way;
- `UnloadsWait`: if an update's unload is newer than a load, and the load's lock
  is still in the map, then it is that lock the unload has a clone of;
- `SettledIsPast`: only versions that were registered are settled.

`UnloadsWait` is the heart of it. When `UnloadRemove` ends an unload, a load that
only it still covered would own the very lock the unload found free. It survives
`GetLoadLock` because a lock enters the map only when nobody refers to it, and
`ReadFactory` because a load that reads later reads what was registered. A dropped
update takes its unload with it and settles nothing.

`CapacityInv` adds to `ManagerInv` the limit itself and what reserving rests on:

- `UseIsOrdered`: `usedBefore` is a strict total order of the loaded pools;
- `ReservationsCount`: unless builds crowd, each that a call waits for has a
  reservation of its own and there are no more of them than places.

The builds that run on for nobody have none. `Lingering` are those that no reservation
was made beside: a call that is dropped moves its model from the builds to these,
which leaves the count as it was, and the next reservation, which cannot see them,
takes them out of it (`overlooked`).

`reserve_slot` takes the pools of the lowest ranks. That they are exactly as many as
are over the limit, or all, needs that ranks tell pools apart and leave no gap: the
least counterexample of a rank that nobody has contradicts the order. The two
theorems, `ManagerWithinCapacity` and `ManagerEvictsLeastRecentlyUsed`, follow.

### DownloadManagerProofs (`DownloadAssumption`: any variants, requests, cancels, limit, restarts)

`DownloadInv` is `QueueInv` and `FileInv`. The first is about slots:

- `SlotsKnown`, `RequestsKnown`, `CancelsKnown`: a slot is held by a download of its
  variant that has left the queue; what a cancel tears down was signalled;
- `QueueApart`: the queue has each variant once, and none that has a slot. A
  promotion therefore never takes a slot from anyone;
- `WithinLimit` and `QueuedOnlyWhenFull` together: whoever frees a slot promotes;
- `SlotsHaveOwners`: `HeldSlotsAreFreed`, with the cancel that will free the slot
  being one of that very download.

`OwnStep` and `Shrinks` say what a step of a task, or a removal from the queue, is to
all of these, so that the steps of a task need one argument between them. The second part
is about files: `FilesApart` (no two variants share an inode, and a task writes to
one of its own variant), `RenamesAreCommitted`, and `CheckedIsWhole`: once a task has
hashed its `.part`, that stays whole, as long as no download was robbed: whoever else
could change it would be robbing this one. `InstalledIsWhole` is inductive beside them.
`FetchingIsShown` needs `ClearsTakeCrossed`: at the removal of a late clear, a download
of its variant that is being fetched was first shown after the look, for one shown
before would have had its entry in place of the completed one. `ShownIsKept` is the
argument for both, step by step.

### InstallationProofs (`InstalledAssumption`: any variants, versions, clients, settings, directories)

`DirectoryInv` is about files and digests. `Told` is `InstalledIsTold` made inductive:
a digest that is not its file's is an older one, or the file was reverted. It needs
`PinsAhead`, that the catalog never offers less than what was fetched (the model has
no catalog that rolls back), `KeeperFits`, that the digest start-up carries is no
newer than the file it took it of, `QuietStart`, that nobody calls before start-up is
through, and `UninstallFits`, which says the same of each of the uninstalls that are
under way. A step of the calls is that of one uninstall, or leaves what they know but
for `met` (`OwnStep`, `OthersStep`).

`NothingLeavesUnasked`, the safety half of `InstalledIsKept`, adds `UninstallAsked`:
what an uninstall has still to delete is there (`Present`) and not being downloaded,
or was met by others. `NoneLeavesUnasked` follows from `LeavesDeleted`, that nothing
leaves the list but by the removal of its file; `NoneStopsUncrossed` from the same
invariant at the two places where an uninstall is refused.

`InstallationIsServed` has two parts. `FactoriesInv`: whatever is installed and not in
the middle of a download has a factory, because start-up registers all it has
described, also the variants it has yet to visit (`VisitedDescribed`). `SettingsInv`,
while nothing went astray: one request changes settings at a time and none during an
install (`OneAtATime`); it knows what is stored (`AsRead`); and knobs and factories
are those stored, or those of before while a request is between its save and its
apply (`InForce`).

The invariant that the run had checked before was false of larger instances: the
proof of `Told` failed at the migration, and a directory with an update on offer for a
file in the old layout shows the reverted file of section 4. The model now has
`reverted`, and the run has such a directory.

### RequestProofs, the job store (`JobAssumption`: any finite set of jobs, any cap, time to live and clock)

`JobInv` adds `Unborn` (a submission that has not inserted has no record),
`CreatedInThePast` and `PeakCounts`. `SweepLeaves` is the lemma on both passes of
`sweep_locked`: what they leave is at most the target or nothing but running jobs,
at least the target if anything unexpired went, and no older than what went.
`BoundedByLoad` follows: after `Insert` the store is within its cap, or consists of
running jobs, which `peak` counts.

### HistoryProofs (`HistoryAssumption`: any records, workers, faults, and policies with unsigned values, as `retention.rs:19-30` types them)

`Inv` adds to the properties that workers know only of records whose create is
over (`WorkersKnowRows`), that a create names a file that is there (`NamedIsThere`),
and that the files of the ids a worker got through are gone, but for those no row
ever named (`SafeIsGone`). The last is what makes deletes safe: whoever removes
the row of such an id leaves no file behind. That a policy selects only
candidates (`SelectsCandidates`) is all the proof needs to know of `Retention`.

`SweepsTakeOnlyExcess` is about listings that are stale when used. `Due` is what the
policy drops of the rows that are there now and those that others took since the
sweep listed. `SweepsCarryDue`: all that a sweep carries is due. It is at the
listing, when nothing was taken yet, and it stays so (`DueStays`): whatever leaves the
rows or the files is in `beside` or was taken by the sweep itself, so that there is
never less to choose from, and the more there is, the more a policy drops of the same
records (`SelectGrows`). For the disk limit this is a sum of zeros and ones over a
growing set (`SumCountsOnes`).

### EvaluationProofs (`EvalSamplesAssumption`, `EvalRunnerAssumption`: any clips, runs, requesters, plans, failures)

`SamplesInv` says, of each request that is half done, which rows and which audio it
still has (`PromotionsHaveRows`, `DiscardsOwnRows`, `DeletesOwnRows`), that a capture
works beside everything else (`CapturesApart`), and that what is or may become a row is
so once for each record (`HeldOnce`); `SamplesAreTakenOnce` and `SamplesOwnTheirAudio`
are its consequences. `NextIsSamplesStep` shows that each step of the runner is one of
the samples or none, so that this part is proved without the runs.

`RunsInv` adds `SlotIsOwn`, `RowOf` (which status a row has at which phase) and
`ProgressOf`: each candidate before the one at hand is `Through`, failed or with a
result for all that the run still covers. A sample that is deleted meanwhile only
makes this milder, and the lemma `ThroughKept` says so once for all steps.
`ReportInv` adds that each result belongs to a candidate that is listed once, from
which `ListsAgree` follows: the list, which adds up results by candidate, counts what the
overview does by filtering them all. That is `PartsAddUp`.

### FiniteInduction

Facts on sums over finite sets (`SumCountsOnes`, `PartsAddUp`), proved by the least
counterexample: the numbers for which a statement fails would have a least one
(`SmallestNat`, from the library's well-founded minimum, which takes no operator).
`SumExists` shows in this way that the function which a sum over a set chooses exists.

### RequestProofs, the operators

Facts about the operators, for every input: a Range header selects a non-empty
slice of the file or none, and exactly the bytes it names (`SliceIsWithin`,
`SliceIsWhatWasAsked`); 24-bit samples are signed and 16-bit ones are archived
unchanged (`TwentyFourBitsAreSigned`, `ArchiveIsLossless`); the scanner stays in the
file (`ScanStaysWithin`); start-up leaves the configured key in force and no delete
touches the system's (`EnsureClaims`, `DeleteSparesSystemKeys`, both from the
uniqueness of ids and hashes that the table declares).

### Only model-checked

- Liveness (`WaitersAreServed`, `EveryCallEnds`, `QueuedLeaves`, `SweepsCatchUp`,
  `RunsGiveBack`, and `FilesAreFingerprinted`, a half of `InstalledIsKept`): fairness and
  ENABLED are out of the prover's reach.
- What recursive definitions and most folds compute (`Reached`, the WAV scan as a
  whole): the library's induction theorems take an operator, which the provers cannot
  instantiate. The least counterexample is a way around it for one fixed statement, and
  is used where a theorem needs it.
- The assumptions of the MC modules about `RunOverview`, `HistoryQueries`, `CatalogList`,
  `Config` and `RunOptions`.

## 6. What is abstracted, and what is not modelled

- Data: audio, text, engine results, error messages, byte counts and progress
  figures. A file is a number of chunks or a version, a factory a version or a
  backend, a text a model value.
- Time: deadlines may fire at any moment and need not; only `JobStore` has a clock.
- `EngineManager`: `update_config` at run time and the change notifications.
- `DownloadManager`: the rejection of a catalog URL (the tests in
  `model/catalog_data.rs` exclude it); the inside of the install step is
  `Installation`'s.
- Waits for the `RwLock`s of maps: what runs under one is one action.
- Not modelled: the command-line tool (`bin/asr-cli.rs`), a client of the HTTP API and
  in its direct mode of the engine, without state or concurrency of its own; the
  web interface; the resampler's filter, loudness figures and the script conversion
  tables, which are numeric or data; migrations of older tables; progress
  messages, notes and edits of a reference; the supervisor, discovery and system
  endpoints, which pass on what they are told; the native library.

## 7. Plan

1. **Operators**: that the pages of a list tile it and the dashboard counts it
   (`HistoryQueries`), that the layers of the configuration are in order (`Config`), for
   every input.
2. **Retention**: that a selection is the least that satisfies its policy.
3. **Exceptions**: when `robbed`, `abandoned`, `crowded`, `overlooked`, `met` and
   `astray` stay empty: no download is robbed unless its variant is asked for again
   after a cancel.
4. **Composition**: that the evaluation's use of the pool is the requester of
   `Transcriber`.
