# A verification development of cognee

TLA+ modules, TLC configurations and TLAPS proofs about the parts of cognee whose
correctness depends on the order in which threads, tasks and processes act. Paths are
relative to the repository root (`src/`). `closing_lru_cache.py` stands for
`cognee/infrastructure/databases/utils/closing_lru_cache.py`, `runner.py`, `startup.py`
and `migration.py` for the files under `cognee/modules/migrations/`, `queue.py` for
`cognee/infrastructure/databases/dataset_queue/queue.py`, `dataset_lock.py` for the file
under `cognee/infrastructure/locks/`, `run_tasks.py` and `pipeline.py` for those under
`cognee/modules/pipelines/operations/`, `harness.py` for the file under
`cognee_db_workers/`, `rollback.py` for the one under `cognee/modules/cognify/`,
`invalidate_sessions.py` for the one under `cognee/modules/session_lifecycle/`.

    tlc -config EngineCacheThreads.cfg MCEngineCache.tla      # one run
    tlapm EngineCacheProofs.tla                               # one module of proofs

## 1. Inventory

cognee turns documents into a graph and vectors per dataset. A call (`add`, `cognify`,
`search`, `improve`, ...) resolves a dataset, takes its locks and a slot of the dataset
queue, runs a pipeline of tasks, and reaches the graph, vector and relational stores
through engines. In the default set-up the graph and vector stores are embedded
databases with a file lock, opened in a worker process per database, so opening,
sharing and closing engines is where most of the concurrency of the system meets.

| Component | State it keeps | Operations | What is hard | What makes it correct |
|---|---|---|---|---|
| Engine cache (`closing_lru_cache.py`) | LRU map of entries; per entry a proxy, its reference count, `in_cache`/`close_requested`/`closed`, `last_touched`; the registry `_closing` of futures of closes in flight | `get_or_create`, `aget_or_create`, `touch`, `evict`, `evict_where`, `cache_clear`, `evict_and_close`, `evict_and_close_idle`, finalizers, closes on a thread pool or on the loop | threads, tasks, garbage collection and a reaper on one entry; awaits between a look and its use; timeouts and cancellations of waits | one owner per engine, closed once, never under a user unless told to, never leaked; creators of a key wait for the close of its former engine; bounded overflow |
| Startup migrations (`startup.py`, `runner.py`, `migration.py`) | once-per-process flag, startup lock, cross-process lock, recorded release, per-dataset revision and last error, the stores themselves | `run_migrations_and_block`, `run_migrations`, `apply_all_migrations`, `revert_all_migrations`, `stamp_revisions` | processes that start together, crashes between a step and its stamp, one dataset failing, datasets deleted and created during the loop, rollback to older code | a stamp never promises more than was done; no migration on an unprepared store; no write into a store behind the head; no dataset neglected; no lock leaked |
| Dataset queue (`dataset_queue/queue.py`, `pinning.py`) | semaphore, per-task table of held datasets with their depth | `ensure_slot`, `release_slot_for`, `acquire`, release by the end of a task | nested slots, slots of tasks that die, last holder and eviction of engines | slots conserved, re-entrancy, no slot leaked; pins as long as held |
| Context manager (`context_global_variables.py`) | context variables, the slot it took | enter, exit, deprecated `await` form | failure between taking the slot and entering | slot taken if and only if inside |
| Locks (`infrastructure/locks/`) | per-dataset lock registry, `held_datasets`; per-session locks, turn locks and the claim of an improve, all in process | acquire, release, inversion check | lock order against queue slots; inherited context variables | mutual exclusion per dataset, no inversion of lock and slot |
| Engine handles (`graph/get_graph_engine.py`, `utils/engine_cache_ops.py`) | cached resolution of an engine per context | call forwarding, re-resolution | an engine replaced between two calls | a call reaches a live engine of the right dataset |
| Pipelines (`modules/pipelines/`) | pipeline runs in the relational database, queues of run infos, per-item status | blocking and background runs, qualification, reset | several datasets per run, background generators, cancellation, crash in the middle | a run ends in a terminal state; at most one per dataset and pipeline; no lock left behind |
| Subprocess session (`cognee_db_workers/harness.py`) | worker process, reader thread, futures in flight, generation, handle map, timeout counter | `call`, `call_async`, respawn with replay, `shutdown` | worker death and time-outs under concurrent calls, retries, handle identifiers across generations | every call answered or failed; no call of one generation answered by another; no worker outlives its session |
| Session persistence, improve | watermark row, improve lock | `improve`, watermark save and load | two improves of a session, background stages | each entry persisted, none twice |
| Cloud sync (`api/v1/sync/sync.py`) | sync record, remote state | start, retry, progress, finish | retry of what was done, process death | record ends; nothing lost or doubled |
| Deletion and provenance | source references on graph elements | delete, forget, update | shared elements, publish before delete | what is shared survives |

The rest (adapters, ingestion, retrieval, LLM gateway, permissions, API, CLI, MCP server,
teleology, evaluation, frontend) is listed in `PROJECT.json` with the reason it is not
modelled: single statements against an external store, pure I/O, read-only, or
sequential code that unit tests reach.

How the modelled parts meet: a write first passes the migrations
(`run_migrations_and_block`), then takes a slot of the dataset queue, which pins the
engines of the dataset in the engine cache (`pinning.py`), then asks the cache for its
engines. Closing an engine ends the worker process and frees its file lock; until then a
new engine of the same key cannot open the files, hence the registry of closes in flight.

Above that, a pipeline call runs once per dataset inside the lock (`PipelineRuns`), its
items inside the lock and slots of their own (`DatasetRuns`); an `improve` is a pipeline
over a session (`SessionPersist`) and a deletion takes the same lock; every request to an
embedded store goes through a worker process (`SubprocessSession`). The modules meet in
these interfaces and are not composed into one: each has the neighbour's part as a guard,
a lock or a step that may fail.

`PROJECT.json` lists the hazards of this code at the lines where they bite, each with
the properties that catch it, or a note that says what they do not cover.

## 2. Plan

| Module | What | Where |
|---|---|---|
| `EngineCache`, `EngineLifecycle`, `EngineCacheRefinement` | the cache, what its users rely on, and that the one implements the other | section 3 |
| `MigrationRunner` | startup migrations | section 4 |
| `DatasetQueue`, `DatasetRuns` | slots, scopes, locks, items of a run | section 5 |
| `SubprocessSession`, `RemoteCalls` | the session with a worker process, and what its callers may rely on | section 6 |
| `PipelineRuns` | runs over datasets, their rows, markers, rollback and recovery | section 7 |
| `SessionPersist` | the watermark of a session, improves and deletions | section 8 |

What would come next: the composition of `DatasetRuns` with `EngineCache`, whose `Pin` and
`Unpin` are free there; provenance of graph elements that documents share, on which
deletion and incremental update rest; the turn locks of sessions.

## 3. Engine cache

**`EngineCache`** models `ClosingLRUCache`. One action is one critical section of the
cache's lock or of an entry's lock, or one stretch of thread-local code between two of
them; no lock is held across actions, as in the code no lock is held across an await, a
factory call or a close.

| Model | Code |
|---|---|
| `cached`, `older` | `_cache`, an `OrderedDict` (its order as a relation) |
| `closing` | `_closing`: key to futures of closes in flight |
| `retired`, `marked`, `proxied`, `stale` | the fields of `_LeasedCacheEntry`: `in_cache`/`close_requested`, `closed`, `proxy`, `last_touched` |
| `holders`, `parting` | who references the proxy: callers, and the local variable of the actor that detaches the entry |
| `stage` | the engine: unborn, open, registered, on the pool or the loop, ended, closed |
| `pc`, `want`, `waits`, `built`, `popped`, `hand` | the local variables of each caller and of the reaper |
| `active`, `DatasetOf` | `active_dataset_ids()`, the datasets that hold a slot; the dataset in the database name of a key, if it has one. `DatasetQueuePinPredicate` pins the keys whose dataset is active |
| `forced`, `abandoned` | history: engines closed by `evict_and_close`, futures dropped by a wait that timed out |

A lookup (`GetOrCreate`, `AGetOrCreate`) hits, or waits for the closes of its key
(blocking, awaiting or, for a synchronous lookup on the loop, not at all), then `Build`s,
and `Insert`s or, if another creator was faster, `InsertLoses`. Entries taken out of the
map are detached one by one (`Detach`, `ForceDetach`), and the last reference
(`Finalize`, in `Release` and `DropParting`) or the detacher itself gets the engine to
close in `hand`; `Register`, `StartAsync`/`StartInline`, `EndPoolClose`/`EndLoopClose`
and `Resolve` are `_track_close`, `_start_close` and their callbacks. Asynchronous closes
run on the pool or, for a task of the loop, as a task of it; a close that raises or is
cancelled ends all the same.

The eviction loop (735-751) asks the pin predicate of one candidate after another. It holds
the lock of the cache, which keeps the entries, and no lock of the queue. Slots change on the
event loop: the scan of a task of the loop sees them unchanged, the scan of a thread does
not. `Victims` has both: what a task finds pinned is what is pinned (`MustSpare` and
`MaySpare` are `Pinned`), while a thread may find any key with a dataset pinned at the one
moment it asks, so that it may take every key and may spare every such key. The reaper
(`SweepChoose`), a thread as well, asks of each key at a moment of its own.

**`EngineLifecycle`** says what the users of the cache may rely on, without locks,
proxies or registries. **`EngineCacheRefinement`** maps the cache to it: an engine is
*fresh* while only its builder knows it, *shared* from its insertion until its close.

| Run | Question | Instance |
|---|---|---|
| `engine_threads` | all safety invariants under threads | 2 threads, the reaper, 1 subprocess key, 2 engines |
| `engine_capacity` | eviction, pins, overflow | 4 keys (2 of one dataset, 1 of another, 1 of none), room for 1, 1 slot, 1 task of the loop |
| `engine_live` | a task of the loop beside a thread: overlapping closes, cancelled waits; the cache implements its life cycle; nothing leaks, no wait needs its timeout | 1 task, 1 thread, 1 key, 2 in-process engines |

The bounds: an engine is a value that can be built once, so the number of engines bounds
how often a key is opened. Two engines of one key give every race for an insertion and
every eviction followed by a rebuild, and two overlapping closes of a key with a creator
that waits for both. Keys do not interact except through capacity, so one key is enough for the
runs on ownership. Four with room for one make an insertion evict past the two keys that one
slot pins, before and after that slot has gone to the other dataset; in that run at most one
close is under way (`OneClose`), as closes and capacity do not interact.
The callers are symmetric, so are the engines of a key and the two keys of one dataset with
their engines, and the symmetry is used only in runs without liveness. The deadlock check is off because the system may stop: when
every engine of the instance has been built and closed and no caller starts anything.

Fairness (`engine_live`): an actor inside an operation goes on (weak fairness: threads are
scheduled and hold no lock for ever), a close on the pool ends, and the ready queue of
asyncio is first-in first-out, so a task of the loop that is ready again and again runs
(strong fairness for the waits and the closes that are tasks). No lookup, release,
timeout, cancellation or sweep is assumed to happen. `DetachedIsClosed` therefore says
that the garbage-collected proxy alone is enough, and `WaitsEnd` that no wait depends on
its timeout. A synchronous lookup on the loop that waited (mutant
`LookupSync_BlocksLoop`) breaks it.

`OverflowBounded` is about insertions that run on the event loop: there the overflow past
`maxsize` is one entry beside those of at most as many datasets as there are slots, each with
any number of entries, however the slots move between two insertions. It says nothing of an
insertion by a thread: a slot that goes from one dataset to the other during its scan spares
the keys of both, and the next scan can go on like that. It says nothing of the order either:
that the least recently used key goes first is in `Victims`, and no property checks it.

Worth knowing: `evict_and_close` pops the entry in one section (840) and registers its
close in a later one (863). Its docstring promises that creators wait for the close; a
creator in between finds neither the entry nor a close to wait for, and builds. The step
is in the model, so `CloseOnce` and `LeaseKeepsOpen` hold in spite of it, and
`InFlightIsVisible` speaks of a close from its registration on.

## 4. Startup migrations

**`MigrationRunner`** models `run_migrations_and_block` with everything it calls, the two
command-line entries, and their environment: crashes, processes that start and stop,
deletions, deployments.

| Model | Code |
|---|---|
| `done`, `startup` | `_startup_migrations_done`, the startup lock of each process |
| `lock` | `migration_lock`: Postgres advisory lock or file lock |
| `recorded`, `rows`, `stamp`, `lastError` | `global_database_version`, `dataset_database` with `migration_revision` and `migration_last_error` |
| `data`, `schema` | the stores of a dataset: the migrations applied to them, the release their vector storage was synced to |
| `pc`, `target`, `mode`, `goal`, `changed`, `todo`, `failed`, `row`, `pos` | the local variables of a call |

A revision is its place in the chain (`order_migrations` yields a linear one). One action
is what happens between two durable writes or two points where other calls can act: the
`up` of a migration, its stamp, the sync, the record of the release, and so on are each
a step after which the process may crash. `Faults` selects what may go wrong in a run, so
that each property is checked against every fault it is meant to survive, and each
divergence needs exactly the fault it names.

| Run | Question | Instance |
|---|---|---|
| `migration_startup` | the upgrade, under crashes and failing steps | 2 writers in one process, an operator in another, 2 datasets, releases with 2 and 3 migrations deployed in either order |
| `migration_operator` | downgrades, and that calls end | 1 writer, 1 operator who also downgrades, 1 dataset |
| `migration_unsynced` | *violation*: a failed sync is never tried again | 1 writer, 1 dataset |

The bounds: two processes and three calls give contention for both locks (two writers for
the startup lock, writer and operator for the migration lock), two datasets a failure
beside a success, and a chain of two and then three migrations a crash in the middle of a
span and a rollback to a release that does not know the stored revision. Datasets are
symmetric. Deadlock is checked. In `migration_operator` the stamps do not fail and nothing
crashes: there `RevertedIsUnstamped` holds.

Fairness: a call that can take its next step takes it, and the locks are fair to
their waiters (asyncio and Postgres queue them, the file lock polls), which is strong
fairness for `AcquireLock` and `EnterStartup`.

`StampIsHonest` is stated for upgrades; downgrades have `RevertedIsUnstamped`, at rest.

What was found: the release is recorded before the chain and the storage sync that its
change gates; a sync that failed is not tried again (`migration_unsynced`). Two more steps
of the code are in the model but outside the faults of the passing runs, because the
properties fail with them: a crash between `down` and its stamp (`runner.py:213`) leaves a
revision whose data is gone; and an operational error of the bookkeeping database is taken
for a fresh installation without tables (`runner.py:497`), so that the process is marked
as migrated when nothing was.

## 5. Dataset queue, scopes and locks

**`DatasetQueue`** has the semaphore, the table of slots and the engines that the last
holder of a dataset keeps warm or tears down, as action operators. **`DatasetRuns`** has
their users: the tasks of calls, and the tasks that pipeline runs create for their items.
A step is what an asyncio task does between two awaits at which others can act on this
state; the reaper is a thread and may act between any two.

| Model | Code |
|---|---|
| `permits`, `depth` | `_semaphore`, the `SlotEntry.depth` of `_task_slots[task][dataset]` |
| `engines`, `expired` | datasets with subprocess engines in the engine caches; those a sweep has chosen and not yet closed |
| `keepAlive` | whether `SUBPROCESS_IDLE_TTL_SECONDS` is above zero |
| `owner` | `_dataset_locks` |
| `open`, `pc`, `job`, `ds` | the scopes of a task, and where in its operation it is |
| `parent`, `raised` | which `gather` waits for an item, and which one has an exception |
| `TakeSlot`, `EnterDone`, `EnterFails` | `apply_database_context_variables`: `ensure_slot`, then what can raise |
| `LeaveCall`, `LeaveItem` | `__aexit__` with `release_slot_for` |
| `ItemEnds`, `CallEnds` | the done-callback of a task |
| `Spawn`, `Gathered` | `run_tasks`: `create_task` per item and `asyncio.gather` |
| `UpdateRuns` | an incremental update, whose inner `add` runs in its own task and scope |
| `ItemRuns` | a run inside an item (`cognify_session`): no lock, for the item inherits `held_datasets`, but a slot of its own |
| `Resolve` | code under a scope that asks for an engine, again if it was closed |

| Run | Question | Instance |
|---|---|---|
| `dataset_runs` | all safety properties, and that waits for lock and slot end | 2 calls of every kind, 2 items, 1 dataset, 2 slots |

The bounds: two calls compete for one lock, and with two slots each of them can hold one,
or a run and its nested item, so every wait occurs. Two items are the fewest for a gather
that returns while one still works. With one dataset every lock, engine and slot is
contended; datasets interact only through the semaphore.
`MaxLeak` bounds how deep an entry may get that failed entries leave behind.
The deadlock check is off: calls need not begin.

Fairness: the loop runs every task that can go on (weak fairness). Locks and semaphores of
asyncio queue their waiters, so one that is free again and again is obtained (strong
fairness of `TakeLock` and `TakeSlot`), and an item has finitely many steps, so it ends if
it is between two of them again and again. No call is assumed to start, to be cancelled or
to end its task.

`LockAndSlotWaitsEnd` is about the documented order *dataset lock, then slot*, and names what it
depends on: it may fail while a failed entry keeps a slot that only the end of its task
gives back (`Leaked`), or while a nested run waits for ever (`NestedWait`).
`TeardownSparesUsers` has two exceptions. The first is in the code's own comments: a sweep
that chose an engine while it was idle closes it even if a request arrives in between, and
the request opens it again. The second contradicts them: `queue.py` (380-381) says that
"nothing is mid-query here because teardown only fires when no other task holds the
dataset", but an item that its run has left behind (`LeftBehind`: the gather returned with
the exception of another item) works with the engines of the context it copied and holds
nothing, unless it has opened a scope of its own. When the call leaves, as the last holder,
or any later one does, the engines are closed under that item. The cause is the gather that
`pipeline_sweep` reports; without the exception the run `dataset_runs` shows the teardown.

Worth knowing: `asyncio.gather` in `run_tasks.py` (211) has no `return_exceptions`, though
the lines after it expect it; the first item that raises ends the run, which releases slot
and lock while the other items still write, and a delete enters. `LockedExclude` shows that
without such items the operations that lock do exclude each other, and section 7 shows
what it does to a rollback. And a run inside an item needs a slot of its own
(`queue.py:257`): two runs, each with an item that starts a nested run, hold two slots and
wait for two more.

## 6. Subprocess session

**`SubprocessSession`** models `SubprocessSession` of `harness.py`, the loop of a worker
and the proxies of tables, which remember the handle their worker gave them. A step is
what a thread does between two points where another thread, the reader or the worker can
act on the same state: a lock taken, a queue touched, an event set.

| Model | Code |
|---|---|
| `closed`, `pending`, `streak`, `owner` | `_closed_event`, `_pending`, `_consecutive_timeouts`, `_respawn_lock` |
| `steps`, `remap`, `handle` | `_replay_steps`, `_handle_remap`, the handle of each proxy |
| `reader` | the reader thread of the session |
| `worker`, `reqs`, `resps`, `registry`, `nextHandle` | the worker process, its two queues, its `HandleRegistry` |
| `pc`, `req`, `try`, `fut`, `todo`, `moved` | the local variables of `call` and `_respawn` |
| `stage`, `wasClosed` | `shutdown` |
| `Check` ... `Put`, `Return`, `Fail`, `Expire` | one attempt of a call: `_issue`, `_issue_async` |
| `EnterRespawn` ... `StartReader` | `_respawn` with `_raw_call_locked` and `apply_new_handle` |
| `ReaderTakes`, `ReaderLeaves`, `ReaderEnds` | `_reader_loop` and `_fail_all_pending` |
| `Serve`, `ServeOpen`, `WorkerReady` | `run_worker_loop` with the handlers of a table |

**`RemoteCalls`** is what a caller may rely on: a call takes effect at most once per
attempt, at least once before it returns, and perhaps still after it has raised; a call
that ended has ended. `ImplementsRemoteCalls` is the refinement.

| Run | Question | Instance |
|---|---|---|
| `session_calls` | futures, replay, handles, effects, and that every call ends | 2 calls on 2 tables, one maybe a release, 1 retry, 2 faults out of crashes, missed deadlines and a shutdown |

The bounds: two calls give a respawn beside a call in each of its places; one retry gives
both outcomes of every transport error; two faults give a crash during the respawn that a
first crash caused, two deadlines in a row (which force a respawn), and a shutdown that
crosses a respawn. The deadlock check is off: calls need not begin. Fairness: every thread
of the main process is scheduled and a live worker serves what it is sent; no call begins,
no deadline passes and no worker dies out of fairness. `CallsEnd` so holds without any
deadline.

Abstractions: an identifier of a request is a call with its attempt; taking a future out of
the registry and setting its result are one step, as are join, kill and factory of a
respawn, the end of an attempt with the record of its timeout, and the acknowledgement of
a shutdown with the kill. A kill succeeds. Deadlines do not pass during a replay.

Worth knowing:

* Handles are numbers from one again in each worker. Open tables 1, 2 and 3, release the
  first, and let the worker die: the replay opens 2 and 3 as 1 and 2 and the map says
  `2 -> 1`, `3 -> 2`. Table 3 has the current handle 2 now, its next request passes through
  the same map (`harness.py:1311`), becomes 1 and works on table 2.
  `UnreleasedIsNotMisled`, proved, says that this takes a release.
* `shutdown` takes no respawn lock. A call that has entered `_respawn` clears the closed
  flag that the shutdown has set, and its worker outlives the shutdown (1361-1373,
  1448-1456).
* A call that has seen a dead worker sets the closed flag later, maybe that of the session
  that another call has revived (`CloseGone`): one crash can cost several respawns.
* The streak of timeouts belongs to the session: the deadlines of two callers force a
  respawn under a third. Its retries are within `RemoteCalls`.

## 7. Pipeline runs

**`PipelineRuns`** has a call over one or several datasets, from the call to what it leaves
behind in the graph, the provenance, the markers of the items and the rows of the runs.

| Model | Code |
|---|---|
| `plan`, `inGraph` | what the calls ask for, where the provenance is kept |
| `call`, `at` | `run_pipeline_blocking`, `run_pipeline_as_background_process` and the loop over the generators |
| `run`, `task`, `undo` | the generator of a dataset, the tasks of its items, what its rollback has read |
| `graph`, `owner`, `marker` | artifacts of an item, which run made them (the ledger or the graph), the pipeline status of the item |
| `latest` | the newest row of `pipeline_runs` per pipeline and dataset |
| `process`, `stale`, `recovery` | the process, and `recover_stale_runs` at its start |
| `torn`, `late` | history: items a rollback deleted and whose markers it has not reset; items a task stored or marked after the gather of its run had ended |
| `AnswerRun`, `StartRun` | `check_pipeline_run_qualification`, the first row |
| `BeginItem` ... `FlushItem` | `run_tasks_data_item`: the pre-check, the tasks in the `try`, the marker, `flush_context_provenance` |
| `GatherErrors`, `ItemRaises`, `ItemErrs` | the gather of `run_tasks.py` and what follows it |
| `RollbackReads`, `RollbackDeletes`, `RollbackResets` | `rollback.py` |

| Run | Question | Instance |
|---|---|---|
| `pipeline_runs` | all safety properties, and that calls end | 2 calls out of 4 plans, 2 datasets, 2 items of the first, 2 faults |
| `pipeline_sweep` | *violation*: an artifact no ledger row knows | 2 cognify calls, 1 fault |

What an item does when it fails depends on where it is. The pre-check (134-205) is before
the `try` of `run_tasks_data_item_incremental` and the flush (410) after it: what they raise
reaches the gather whatever `RAISE_INCREMENTAL_LOADING_ERRORS` says. The setting, at its
default, lets an error in the `try` raise as well; off, such an error becomes the result of
the item, after which the flush may still raise. So an item can raise wherever it is
under both values (`ItemRaises`), what the value true allows the value false allows as well,
and the setting is no variable: a failing item of a cognify run either raises or returns its
error (`ItemErrs`).

The bounds: the four plans of `MCPlans` have two cognify runs of one dataset, background
beside blocking calls, two background calls that name the datasets in opposite orders, and
custom runs, which answer from the status of an earlier one. Two items are the fewest for an
item that outlives the gather; two faults are a failure followed by one in its rollback, or
a failure followed by a crash. The second dataset has no items: it is there for the order of
the locks. The deadlock check is off, as calls may be done. Fairness: the event loop runs
every task and generator that can go on, and a lock that is free goes to a waiter.

What was found: a comment of `add_data_points.py` (168-170) promises that a failed write
can always be swept, because the ledger is written before the graph. The gather of
`run_tasks.py` returns with the first item that raises (211); the rollback deletes the ledger
rows while another item stands between its ledger row and its graph write, and that write
comes after it (`pipeline_sweep`). `MarkedIsStored` and `ArtifactsAreOwned` say that nothing
else does this.

Worth knowing, and in the model: with provenance in the graph, a crash between the
deletion and the reset loses the set of items whose markers should go (`TornIsInLedger` is
about the ledger). A rollback that failed inline is not tried again. A run whose database
context cannot be entered, or that is cancelled there, keeps its row at *started*, and so do
the runs behind a background run that raises; only a restart, and only for cognify, and only
past the minimum age, resets them. An `add` puts the row of the cognify runs back to the
beginning without the lock, which hides a crashed run from the recovery. Background calls
that name two datasets in opposite orders deadlock, each holding the lock the other waits
for, and so do three calls whose pairs agree and whose circle does not. `CallsEnd` asks for
one order of the datasets that every background call follows (`Ordered`).

## 8. Session persistence

**`SessionPersist`** has one session: its turns, the watermark that counts how many of them
are persisted, and the calls that read and write both. Every access to the session cache is
a step of its own.

| Model | Code |
|---|---|
| `session`, `watermark` | the turns, `persisted_qa_count` |
| `added`, `graph` | documents of a dataset, not yet cognified and cognified |
| `home` | the dataset the session is attributed to |
| `locked`, `improving`, `updating` | the lock of a dataset, `_improving_sessions`, `session_lock(..., "update_qa")` |
| `read`, `window`, `doomed`, `deleted` | the local variables of a call |
| `ImproveOne`, `ImproveSeveral` | `improve()` of one session (which claims it) or several (which do not) |
| `ReadSession`, `ReadWatermark` | `extract_user_sessions` |
| `AddWindow`, `Cognify`, `SaveWatermark` | `cognify_session`, `save_persisted_qa_count` |
| `ForgetContext`, `DropSession` | `delete_session` for the deletion of a dataset |
| `Match`, `DeleteTurn`, `EnterClamp` ... `Lower` | `_invalidate_session_entries` |

| Run | Question | Instance |
|---|---|---|
| `session_persist` | nothing lost, nothing doubled, a watermark that fits | 3 calls, 2 datasets, 2 turns, 1 failure or restart |
| `session_skipped` | *violation*: a turn that is never persisted | 2 calls, 1 dataset, 2 turns, no failure |

The bounds: three calls are two improves and a deletion, which may be in the same dataset or
in another one; two turns are one below and one above the watermark. Calls, datasets and
turns are symmetric. Deadlock is checked, with a step of its own for the end of all calls.
No liveness is stated: each call is a sequence, and the locks are those of sections 5 and 7.

What was found: the watermark is a position and a deletion shifts positions. A turn below
it goes, a turn asked during the improve moves below it, and since the watermark is not
above the number of turns the clamp leaves it (`invalidate_sessions.py:227`, which guards
against a watermark above the count only): the new turn is never persisted (`session_skipped`).
`KeptArePersisted` shows that nothing is lost while nothing is taken out, whatever fails or
restarts.

Worth knowing, and in the model: what keeps two improves apart is the lock of the dataset,
not the claim, which an improve of several sessions does not make; improves into two
datasets share one watermark, so a turn may go into both, and the slower one moves the
watermark back. An improve that failed after its document was added and finds new turns at
the next try adds the old ones again (the text differs, so the content hash does not
apply). An improve that read the turns before a deletion writes their number after it. For
these `NothingTwice` and `WatermarkFits` have their antecedents.

Abstractions: turns have identities and are asked once; the text of a window is the set of
its turns, in the order of the session; what a deletion takes out of a graph was to be
forgotten, and counts as persisted; a row is updated or else created in one step.

## 9. What is proved

The proofs hold for every value of the constants: any keys, engines, callers, processes,
datasets, releases and chains, under the named assumptions of the modules
(`ConstantsAssumption`; `CallerAssumption`, `ReleaseAssumption`, `FaultAssumption`;
`QueueAssumption`, `RunsAssumption`, `DatasetsAssumption`; `SessionAssumption`;
`PersistAssumption`).

Every safety property of the passing runs, invariants, action properties and
refinements, is stated by a theorem. The liveness properties have theorems for the safety
they rest on instead: fairness can only bring about what somebody still has to do, and the
proofs show that nothing is left that nobody has to do, or waits for itself. `NothingLeaks` is that
for `DetachedIsClosed` and `LoserIsClosed`, `NoLockLeftBehind` for the `CallsEnd` of the migrations, and `NoCircularWait`
for `LockAndSlotWaitsEnd` and for the `CallsEnd` of the pipelines; `RegistryIsBacked` and
`FuturesHaveReaders` are the ones for `WaitsEnd` and the calls of a session. The first
four are not among the properties of the runs; TLC has checked them on the instances of the
runs before they were proved.

* **`EngineCacheProofs`**. `TypeCorrect` by the invariant `TypeInv` (`TypeOK` and the
  values the local variables have at each place). `OwnershipHolds`: `Ownership` is
  inductive. `CloseOnce`, `CachedIsOpen` and `LeaseKeepsOpen` are not: that no two actors
  close the same engine needs to know that the cache, the actor that popped it, the
  creator that built it and the actor about to close it exclude each other, and that a
  marked entry has no proxy left. That is `Ownership`; `ClosedOnce`, `ServedIsOpen` and
  `LeaseProtects` follow from it. `OverflowIsBounded`: `CapacityInv` adds to
  `OverflowBounded` that the active datasets are no more than the slots and the entries
  finitely many. An insertion on the loop evicts until there is room or only pinned keys are
  left (`VictimsMakeRoom`), so that what it leaves besides the new entry is of the datasets
  active at that moment; they remain the witness when the slots move on, since until the next
  insertion entries only go. `NothingIsLeaked` needs what `Ownership` leaves open:
  that an engine no one else owns is in somebody's hand (`Cared`), and that an actor
  starts nothing new while it has something to close or to drop (`Unburdened`).
* **`EngineCacheRefinementProofs`**. `RegistryIsBacked` and `RegistryIsComplete`: a future
  is listed from its registration to its resolution, a waiter's future has at least
  started. `LifecycleImplemented`: every action of the cache is a step of
  `EngineLifecycle` or a stutter, with `Ownership` giving the guards of the abstract
  actions (`BeginClose` needs that nobody holds the engine).
* **`MigrationRunnerProofs`**. `TypeCorrect` (`TypeOK` and `Positions`: what each call has
  in hand where). `OneMigrates`. `LocksAreNotLeftBehind` needs no hypothesis: every exit
  of a locked section, the raising ones and the death of the process included, gives its
  locks back, and a writer past the wait still owns the startup lock.

  Then `StampInv`: the row in hand holds every migration up to the revision reached on it
  (`Ready`), and a row is stamped no higher than its stores, but for the row a downgrade
  stands on between its `down()` and its stamp (`Honest`). It is inductive if nobody
  downgrades, or if what a downgrade begins it completes (`Recoverable`). The hypothesis is needed:
  a crash, or a stamp that raises, between the two leaves the revision of a migration whose
  data is gone (`runner.py:213`), and the next upgrade runs its successors on such stores.
  `UpsAreOrdered` follows under that hypothesis, `RevertedAreUnstamped` without crashes and
  failing stamps (all other faults remain: failing steps, deletions, rollbacks of the
  release, unreadable bookkeeping), `StampsAreHonest`
  without downgrades and with every fault. They share `RunInv`: no call of a dead process is
  at work, upgrades aim at the head, and a downgrade works at or below it.

  If moreover bookkeeping errors do not occur, `NothingNeglected`, `WritesAreMigrated` and
  `DoneMeansMigrated` follow from `CoverInv`: each row is at head, still to be visited, in
  hand or reported, and stays at head once it is. `UpsAreOrdered` and `DoneMeansMigrated`
  are proved only: no run repeats them.

* **`DatasetRunsProofs`**. The inductive invariant is `IInv`. Its part `QueueInv` counts:
  permits and entries add up to the slots, which needs the entries to be finitely many and
  the cardinality theorems of the library. `RunInv` says what the place of a task tells of
  its scopes, that who needs the lock and is past the wait is its owner, and that whoever
  waits for items is in a gather. `ScopeKeepsSlot` closes it. `SlotsAreConserved`,
  `ScopesKeepSlots` and `TypeCorrect` are parts of it. `LocksExclude` follows since every
  writer that is not left behind works for the owner of the lock (`WriterIsOwners`), and
  the action property `TeardownIsSafe` since every user of an engine that was not left
  behind, or its parent, has an entry (`UserHolds`), so a release that finds no other holder
  closes nothing in use but under items left behind.

  `LocksAndSlotsDoNotCircle` supposes that tasks wait and none can go on (`CanGoOn`), and
  looks for who holds what. A holder of a slot is not before the lock, because the lock is
  taken first; so it is in a gather, and one of its items waits; an item waits only for
  the slot of its own dataset, and would pass if it had it already (`StuckGather`,
  `ItemSlots`). What remains is a slot that its scopes do not give back or a run inside an item,
  `Leaked` and `NestedWait`, the two exceptions of `LockAndSlotWaitsEnd`; both are reached in
  the run. `NoDeadlock` says the same in one line. TLC has checked that
  `CanGoOn` implies `ENABLED` of a step of the task, which the prover cannot.

* **`SubprocessSessionProofs`**. `TypeCorrect`. `LockInv`: a respawn owns the
  lock, no reader lives while it replays, and an open session has a reader or is about to
  get one; from it
  `FuturesHaveReaders` and `ReplaysReadAlone`. `CallsImplemented` is the refinement of
  `RemoteCalls`, from `AnsweredInv` (who has an answer, or whose answer is on its way, has
  taken effect) and `BudgetInv` (effects and requests in the queue are no more than the
  attempts that have put one, which needs cardinalities). `QuietOnce`: without a fault and a shutdown each call takes
  effect exactly once before it returns, and none raises (proved only, no run repeats it).
  `NotMisled` by `NamesInv` and `OpensInv`: while no table is released the replay opens
  the tables in their order and gives each its number again, wherever a worker dies, so the
  maps of handles change nothing.
* **`PipelineRunsProofs`**. `TypeOK`, sixteen more parts, `ArtifactsAreOwned` and
  `TornIsInLedger` make the invariant `RunsInv`.
  `OrderInv` says in which order a call begins its runs, `LockInv` that runs inside their
  locks have different datasets; `RowInv`, `StaleInv` and `ActiveInv` tie the newest row to
  the run that wrote it, and the recovery to such rows. `ItemInv`, `DoneInv` and `StoredInv`
  say what an item has written where it is, `ReadInv` and `SweepInv` that a rollback has read
  what it is going to delete and resets what it has deleted. `MarkedAreStored`,
  `TornIsFound`, `StoredIsOwned`, `CompletedAreMarked` and `StartedAreLive` follow.
  `KeepInv`, that nobody else has marked what an active run works on, gives the action
  property `MarkersKept`.

  `RunsDoNotCircle` adds `CallInv`: a call that starts its runs is suspended in all but the
  last one begun, which waits; a call that drives is past the runs before the one it is at,
  and if it is a background call nothing of it waits any more. So where no run can go on,
  whoever holds the lock of a dataset belongs to a background call that waits for a
  dataset further down its list (`HoldersWaitFurther`). Take the run that waits for the dataset
  of the highest rank: its holder waits for a higher one. The order must be one for
  all calls (`Ordered`): that no two calls name two datasets in opposite orders is not
  enough, as TLC shows with three calls over three datasets. As with `DatasetRuns`, TLC has
  checked that `CanGoOn` implies `ENABLED`. This one is proved only.
* **`SessionPersistProofs`**. `PersistInvariant`: `PersistInv` is inductive. `PlaceInv` and
  `LockInv` say what a call was started for and which lock it holds where; `KeepInv` that
  what an improve has read is how the session began, and that each of those turns is in the
  graph, in its window or in the document it has added; `FitInv` that no one holds a count
  above the turns that are left; `OnceInv` that all documents hold turns below the watermark
  only, but for the one improve that has yet to save it. `KeptPersisted`, `WatermarkStaysFit`
  and `NothingIsTwice` are their conclusions. The last one uses `LockInv` of the dataset and
  never the claim of an improve.

Only model-checked: the liveness properties, since fairness and `ENABLED` are out of reach of
the prover, and the violations.

## 10. What is not modelled

* Engine cache: the pass-through cache of `maxsize=0`, the unbounded one, unleased
  entries (no shared state); `contains` and `cache_info` (read-only); a garbage collection
  that runs a finalizer inside a critical section; the content and result of a close (a
  close that raises ends like any other).
* Migrations: `stamp_revisions` (an operator overwrites stamps by hand), upgrades to a
  revision below head, the mode without access control (one row for the shared pair of
  databases, the same loop), the Alembic downgrade, `ENABLE_AUTO_MIGRATIONS=false` (no
  migration runs), the loss of the database connection that holds the advisory lock, the
  cancellation of one call while its process lives, processes of different releases at the
  same time (the migrations' README asks for a maintenance window).
* Dataset queue: `acquire()` (no caller in the repository), the disabled queue, scopes of two
  datasets inside one another, the cancellation of a `gather`, the items of a
  nested run, the limit on the items of a run that work at once, background runs, other processes (the lock is process-local, as
  `dataset_lock.py` says).
* Subprocess session: the handshake that opens the first worker, exceptions of the reader
  other than a broken queue, the timeout of its join, a kill that fails, the time between
  the first open of a table and the registration of its replay step, and what an operation
  does to the database. The Kuzu worker serves one request at a time, which is one of the
  orders of the model.
* Pipeline runs: another process on the same database, runs inside items (`DatasetRuns` has
  them), the limit on the items that work at once, writes of one item that are done in part,
  artifacts that items share.
* Session persistence: several sessions, the other stages of `improve`, traces, expiry of a
  session, a `cognify` of the same dataset by its user, the change of the dataset of a
  session. The Redis cache deletes a turn by reading and rewriting its list, which is not
  atomic as `DeleteTurn` is; the background form of `improve` releases its claim early, which
  `ImproveSeveral` covers.
* Cloud sync: what a repeated upload does is decided by the remote service. A process that
  dies leaves its record in progress, and later syncs of that user are refused
  (`get_sync_router.py:113`).
* Provenance and incremental update: which element is shared is decided by queries of the
  stores; the code is sequential inside the lock of the dataset.
* Adapters, retrieval, tasks, LLM gateway, permissions, API, CLI and the rest of section 1:
  statements to external services, pure I/O, or sequential code without shared state. They
  are most of the lines of the repository, and `PROJECT.json` has the reason for each.
