# Verification of Panoptikon

This directory holds TLA+ specifications of the parts of Panoptikon whose
correctness depends on the order in which concurrent things happen, the TLC
configurations that check them on small instances, and TLAPS proofs of the
properties that matter most for instances of any size. `PROJECT.json` lists the
components, the runs, the faulty variants that show each property can fail, the
source lines behind each definition, the findings, the hazards and the theorems.

Run a configuration with `tlc -config JobQueue.cfg MCJobQueue`, the proofs of a
module with `tlapm JobQueueProofs.tla`. The configuration of module `M` is
`M.cfg`, its instance `MCM.tla`, its proofs, where there are any, `MProofs.tla`.

Contents

1. The system: components and how they interact
2. The modules and the code
3. What the runs check
4. What is proved
5. What is only model-checked, and what is not modelled
6. Disagreements found between the code and what it says of itself
7. Plan

---

## 1. The system

Panoptikon is one server process (`panoptikon/src`), optionally wrapped by a
desktop shell, that indexes files, runs inference models over them and searches
the result. All state that lasts is in SQLite: an *index database* per
collection (plus its storage database), a user-data database, and a transcode
cache. All state that does not is in actors (ractor) and tokio tasks.

### Components

| Component | State it keeps | Operations | Hard behaviours | What makes it correct |
|---|---|---|---|---|
| **Job queue** `jobs/queue.rs` | queue, map of queued jobs, running job, outcome ring, owed maintenance per database, loaded batch model | Enqueue, EnqueueBatch with dedup, EnqueueMaintenance, CancelRunning, CancelQueued, Shutdown, RunnerFinished, RecordOwed | cancels racing completions; decisions at a job boundary; owed flags that have to outlive jobs, cancels and the process | queue and runner agree; nothing is stranded, lost or counted twice; owed maintenance happens once and does not cause itself |
| **Job runner** `jobs/queue.rs` | the one running job and its abort handle | RunJob, CancelRunning, JobCompleted | abort lands later, or never if the task ends first | never two jobs; every ended or aborted job is reported |
| **Batch slot** `jobs/extraction.rs`, `jobs/queue.rs` | mutex and generation | load before a job, unload at a boundary in a detached task | a detached unload arriving after the next load | an unload never hits a model in use; an aborted loader frees the slot |
| **Extraction job** `jobs/extraction.rs` | counters, cleanup guard, log row | clean up old rows, add a row, process items, close the row; on failure or cancellation a cleanup | cancellation at any await; cleanup that is detached | a row is either closed, or cleaned up; a live job's row is left alone |
| **Index writer** `db/index_writer.rs` | one connection per database, the tags-dirty latch, mailbox | about sixty messages, each one transaction | failed commits, panics, idle exits, replaced writers | what is replied is what was committed; marker and change commit together |
| **Writer supervisor** `db/index_writer.rs` | map of writers | GetWriter, HealthCheck | dead and stopping writers, the actor-name registry | a caller gets a live writer or an error, never silence |
| **Maintenance** `jobs/files/mod.rs`, `db/maintenance_state.rs` | durable tags-dirty marker | recount if owed or marked, VACUUM/ANALYZE | the marker is read outside the writer | stale counts are always marked; a skipped recount was not needed |
| **Cron** `jobs/cron.rs` | next fire per database | minute tick, merge of the databases' batches, preload | a tick while the previous one is unfinished | no overlapping ticks per database; scan before source before derived |
| **Continuous scan** `jobs/continuous_scan.rs`, `jobs/dir_poller.rs` | pause count, epoch, watcher or poller, open scan row | file events, poll passes, pause and resume by jobs, configuration changes | detached resumes; results of an older epoch; pauses of a scan that is not there | paused while a job writes; resumed after; no late result in a new scan |
| **File scan** `jobs/files/` | scan row, error ledgers | walk, process, mark unavailable files, delete orphans | failures per file; a scan that dies half-way | files are marked unavailable only by a complete scan; a blocked file heals |
| **Vector quantisation** `jobs/vector_quants.rs`, `db/vector_quants.rs` | profiles, coverage, codes | reconcile to a fixed point: sync, delete chunks, build, backfill, finish | cancellation between chunks; a config change during the last pass | a ready space is complete and from one artifact; the newest config wins |
| **Inferio manager** `inferio/manager.rs` | LRU per cache key, reference sets, pins, loaded models, draining tasks | load, predict, unload, clear, sweep, shutdown, worker death | the lock is released while a worker spawns; death reports that come late | a model is loaded iff referenced; a pinned model does not expire; no leaked worker |
| **Inferio dispatch, worker, prewarm** `inferio/dispatch.rs`, `worker.rs`, `prewarm.rs` | request queue, free replicas, windows in flight; parked workers | form a window, split outputs, fall back, drain, kill; claim, park | replica death, wedged worker, shutdown racing warm-up | every request gets exactly one reply, in bounded time on unload; caps hold |
| **Search cache and epochs** `api/search_cache.rs`, `db/epochs.rs` | spans by query, epochs per database | lookup, insert, evict, clear | a commit during an execution; late inserts | a hit equals a fresh execution; bytes are accounted exactly |
| **PQL and search API** `pql/`, `api/search.rs` | none | compile to SQL, execute | query semantics | SQL means what the query means (out of reach here) |
| **Transcode pool and cache** `media_tools/transcode/` | FIFO, jobs by key, running count, terminal ring; artifact rows and files | submit, join, cancel, finish, evict, reconcile | cancel frees the key at once; file and row are two steps | one live job per key; slots counted exactly; a row's file exists or the row goes |
| **Pinboards** `api/pinboards.rs`, `db/pinboards.rs`, `db/pinboard_dbs.rs` | versions of boards, stamps | save, restore, associate | concurrent saves of one head | versions form a line; stamps are hints only |
| **Connections and migrations** `db/connection.rs`, `db/migrations.rs` | pools | open, migrate | crash during a migration | a linear list of scripts, each applied once |
| **Configuration** `config.rs`, `panoptikon-config/` | TOML files | parse, patch, atomic replace | two writers | a reader sees a whole file |
| **Policies and proxy** `policy.rs`, `policy_token.rs`, `proxy.rs` | none per request | evaluate, forward | - | rule semantics |
| **Setup, UI, updates, shutdown** `setup.rs`, `ui.rs`, `update.rs`, `shutdown.rs` | child processes | start, stop, download | order of shutdown | everything stops in bounded time |
| **Desktop shell** `panoptikon-desktop/src-tauri/` | server child, generation, restart budget, settings | start, stop, restart, update | exit events of older children; timers | one server; a stop is not undone |
| **Clipboard helper, Python worker** | none here | OS calls; the far side of the worker pipe | - | - |

### Interactions

```
 HTTP handlers, cron, scan
        |  messages                      (request/reply)
        v                RunJob, CancelRunning
  +------------+  ------------------------------->  +-----------+
  | job queue  |                                    |  runner   |
  |            |  <-------------------------------  |           |
  +------------+   RunnerFinished (mailbox)         +-----------+
     |   ^  |                                          | spawn / abort
     |   |  | detached tasks                           v
     |   |  +--> unload batch model --> batch slot <-- job task
     |   +------ RecordOwed (mailbox) ------------------+
     |                                                  | call_index_db_writer
     +--> detached MarkTagsDirty ---+                   | (GetWriter, send, await, retry)
                                    v                   v
   continuous scan -------->  supervisor --> index writer --> SQLite
   (paused by jobs)                                      \-> epoch bump -> search cache
```

* The queue and the runner talk by request/reply in one direction and by a
  mailbox message in the other. That is where cancels and completions race.
* A job reports what it changed in its result. A cancelled or failed job reports
  nothing, so the queue owes maintenance for it pessimistically; a debt created
  in the middle of a job is sent ahead as `RecordOwed`.
* Everything that writes an index database goes through its one writer. The
  message is in the writer's mailbox, not in the caller: aborting a job does not
  recall it.
* Two things outlive the job that started them: the unload of the batch model
  and the cleanup of a cancelled extraction. Both are detached tasks.
* The debt "tag counts are stale" exists three times: as `owed` flags in the
  queue (memory), as the latch in the writer (memory) and as the marker in the
  database (durable). Only the last one survives the process.

---

## 2. The modules and the code

Each module models one component; what it needs of its neighbours is part of
it, reduced to what it can see of them. All follow one pattern: a variable per
piece of state of the code, one action per handler or per stretch of code
between two awaits (two where another task can see into it), one `Next`, the
specification `Spec` without and `FairSpec` (`LiveSpec`) with fairness. Operators
whose names begin with `Mut` are faulty variants of the definition that follows
them; no specification uses them, they are what the properties are tried
against. Operators that model a function of the code carry its name where there
is one.

### `JobQueue.tla`: the queue actor, the runner, the jobs' tasks, the batch slot

| Variable | Code |
|---|---|
| `state` | `JobQueueState`: `queue`, `queued_jobs`, `running_job`, `job_counter`, `outcomes` (the ring `recent_outcomes`), `owed`, `batch_loaded`, `shutting_down`; and `unloads`, `pending_marks`: what the handler at work has spawned so far |
| `inbox` | the part of the queue actor's mailbox that the runner and the jobs fill: `RunnerFinished`, `RecordOwed` |
| `runner` | the id of the runner's current job, 0 for none |
| `tasks` | job tasks that exist, with the abort that may be pending on them |
| `unloads` | detached `unload_batch_model` tasks, with the generation they captured |
| `marks` | databases whose durable mark the last message spawned |
| `slot`, `generation` | the batch slot's mutex and its generation counter |
| `requests` | client messages so far, for the bound on them |

One handler of the queue actor is one action, because the actor handles one
message at a time and its calls of the runner are request/reply. The helpers of
queue.rs are operators on the queue state (`merge_owed`, `record_owed`,
`schedule_maintenance`, `maybe_unload_batch_model`, `start_next_job`,
`cancel_running_job_inner`, ...), composed in the order in which the handler
calls them. A client's message is sent and handled in one step; handling it
before what is already in `inbox` is the case where it was ahead in the mailbox,
so all orders are covered.

The task of a job is a small machine (`start`, `resynced`, `loading`, `loaded`,
`done`). An abort may find the task suspended at an await (`"idle"`: it is
dropped and takes no further step) or being polled by another thread
(`"midpoll"`: it completes that poll first), so an abort can still lose against
a completion. The queue is a *set* of jobs ordered by id: every insertion is a
`push_back` carrying the next `job_counter`. Job metadata is kept as the flags
that a maintenance job carries (`to_metadata`, `from_metadata`: a round trip
through names, as in the code).

### `IndexWriter.tla`: the writer of one database, its supervisor, its callers

| Variable | Code |
|---|---|
| `rows` | `data_jobs.completed` of the row each extraction adds |
| `tagged` | which extractions own rows of `tags_items` |
| `stale` | whether `tags.item_count` differs from what `tags_items` says |
| `dirty` | `maintenance_state.tags_dirty`, the durable marker |
| `writer`, `gen`, `latch`, `mailbox`, `handling` | the writer actor: alive, stopping or dying, its incarnation, `tags_dirty_marked`, its queue and the message in its handler |
| `known` | the supervisor's map has an entry |
| `call` | per caller: where `call_index_db_writer` is (`get`, `send`, `wait`), which attempt, for which incarnation |
| `phase`, `tally`, `current` | client tasks, an extraction's counters, the job the queue runs |
| `cancels`, `faults` | bounds |

`Receive` and the handler are two steps, because a writer can be stopped, or
panic, while a handler runs. Each handler is one transaction with its marker,
its latch and its reply. `TransactionFails`, `WriterPanics`, `HealthCheck`
(stops a writer), `SupervisorPanics` and `Crash` are the failures. A stopped
writer finishes its handler, drops its mailbox (and with it the reply channels,
which is what wakes the callers), and keeps its registered name until it is
gone: a GetWriter in between cannot spawn and fails.

Clients: an extraction (`StartExtraction` ... `Finished`, `ExtractionErrs`,
`CleanedUp`, `Cancel`), a deletion (of a job's data, a setter's data, or the
items of a file scan), a maintenance pass (`DecideRecount`, `Maintained`), an
event of the continuous scan with its own maintenance, and a detached mark of
the queue. A job's abort is one step: it drops the call it awaits, and the armed
cleanup guard of an extraction starts a detached call.

### `TagDebt.tla`: what the marker promises

Three actions: a change marks, a mark marks, only a recount clears.
`IndexWriter` implements it (property `DebtSpec`, theorem `ImplementsDebt`): the
mapping is the identity on `stale` and `dirty`, and everything else (latch,
incarnations, calls, clients) is hidden.

### `SearchCache.tla`: the result cache of searches and the epochs

`cache` is `CacheState` (groups by query with stamp and `known_end`, spans on a
grid with the rows they were read as, the LRU order, the byte count), `epoch`
the counters of `db/epochs.rs`, `version` the commits they stand for, `clean`
and `unbumped` the write connections between their commit and the bump that
follows, `budget` the byte budget, `request` where each search is (`snapshot`,
`lookup`, `execute`, `insert`). A row is the version it was read at and its
position. `Lookup` and `Insert` are one step each because the mutex makes them
so; the sampling of the epochs, the execution, the commit and the bump are steps
of their own, which is where a stale row could get in.

### `ContinuousScan.tla`: the scan actor, its supervisor, the configuration watcher

`scanner` is `ContinuousScanState` (`job_pauses`, `paused`, `watching`, `epoch`,
`scan_id`, its configuration), `inbox` its mailbox, `work` the files with the
workers, tagged with the epoch and the roots they were found under, `open` the
rows of `file_scans` without an end; `mailbox`, `doing`, `registered` are the
supervisor's, `event`, `pending`, `debounce` the watcher's gate, `config_file` and
`mounted` the world, `job_state` the jobs with their pause guards. The supervisor's
wait for the reply to a Pause is a state of its own, and so is the moment
between reading a configuration and acting on it. A job that is aborted drops its
guard, which resumes from a detached task.

### `VectorQuant.tla`: quantised vectors of one database

`desired` is `[vector_quants]` of config.toml, `db` the tables (profile, pairs,
quants, vectors), `job` the reconcile that runs and where it is, `late` the
message a cancelled job has left with the writer, `queue` the kinds of waiting
jobs, `request` the API requests, `search` what a search has resolved. Every
transaction of the writer (`Synced`, `Frozen`, `BackfillChunk`, `MadeReady`,
`DeleteChunk`, `DropProfile`, `MarkRebuild`, `AddEmbedding`, `DeleteVector`) is a
function from database to database, so the proofs speak of one transaction at a
time. A reconcile runs passes to a fixed point, as a job or as the last phase of
a batch job.

### `TranscodePool.tla` and `TranscodeCache.tla`: encodes and their artifacts

In the pool, `jobs`, `queued`, `byKey`, `terminal`, `running`,
`exclusiveRunning`, `shuttingDown`, `drained` are the fields of `PoolState`;
`submitting` is the handler that awaits the cache in the middle; `task` the
encodes beside the actor and the Finished messages they send. `Dispatch` is the
loop at the end of every handler that may free a slot. `cached` and `strikes`
are what the pool sees of the cache.

In the cache, `file` and `row` are the two halves of an artifact, `recency` and
`hits` the order and the heat of the rows, `shares` and `young` the share
directories and what is too new to be debris, `work` what each task is in the
middle of, `phase` whether the cache is down, opening or up. Nothing locks the
two halves; every operation alternates file system calls and single statements,
and the process may end between any two (`Crash`). `Open` reconciles. An
eviction pass reads the budget once, before it reads the total (`BeginPass`); a
resize in the middle of it has a pass of its own.

### `InferioManager.tla` and `InferioDispatch.tla`: loaded models

The manager's actions are the critical sections of its one mutex: `lru`, `ttl`,
`refs`, `pins`, `models` are `CacheState` and `ManagerState`; `sets` says what
the workers of each generation do, `draining` and `awaited` the tasks a shutdown
waits for, `lock` who holds `load_lock` over the spawn, `client` what each
request waits for. Requests can hang up at every await, workers die, and a death
is reported some time later.

The dispatcher of one loaded model: `mailbox`, `queue`, `at` (loop, killing,
draining, aborting, ended) are the task's; `worker` the windows in flight, one per
replica; `reply` what each caller has got. `Dispatch` takes a prefix of the queue
whose caps and bytes fit (`EffectiveCap`: a cap of 0 counts as an opinion and is
then raised to 1), `PredictOk`, `PredictFails` and the retries request by
request are the window task. `sentAt` and `taken` are history. Its
specification, and what that is made of, carry the prefix `Dispatch`, because one
module of proofs extends it together with the manager; `TranscodeCache` carries
`Artifact` for the same reason.

### `LruOrder.tla`

`Forget`: the order of use without some of its elements, for the three caches
that keep one (`SearchCache`, `TranscodeCache`, `InferioManager`).

### `DesktopSupervisor.tla`: the desktop shell's Server process

`child`, `intentional`, `generation`, `exits`, `state` are the shared fields,
each behind its own lock in the code, so every access is an action. `call` is
where each caller of `start` and `stop` is (set-up, commands, restart timers),
`exitOf` where `handle_exit` of a generation is, `ready` its readiness poll,
`proc` the processes. `calm` marks the behaviours in which commands and failures
come one at a time; only the liveness of what is shown needs it.

The restart budget (`Budget`, `Aged`) keeps the times of the exits, as
`record_exit` does: those older than the window are dropped, a run of the stable
length empties it, and a Server that exits more rarely than the window is long is
restarted for ever. The clock that the window, the stable run and the three minutes of
readiness (`PollDeadline`) are measured with advances between the steps, not
within them: `Tick` waits until no call, exit handler or restart delay is in the
middle, because these take seconds and the limits are minutes. `restarts` is
history: when each restart timer was set. `Serve` and `LockedOut` are the Server's
own lock (`panoptikon/src/desktop.rs`).

### `FileScan.tla`: the file scan job and its ledgers

`folders`, `files`, `items`, `stored`, `ledger`, `marks`, `scans` are tables;
`disk`, `clock`, `unmounted`, `locked`, `renderer`, `want` the world; `job` the
job with its phase, its workers (`tasks`) and the writes it still owes, one
transaction each (`agenda`); `seen` is history. The job walks the roots one after
another, then sweeps the ledger, marks what it did not see, closes the scan
record and cleans up; the world moves and the job may be aborted between any two
of its writes. An image whose header does not parse and a page that does not render
are not indexed (`Unfit`, a blocking row); an image with a header whose pixels do
not decode is, with a marker and an audit row (`NewItem`). A page that fails in a
backfill leaves a marker alone (`Audit`). What it shares a name for with `ContinuousScan` carries the prefix
`Scan`: one module of proofs extends both.

### `MC*.tla`

The instances: which requests clients send, shapes of inputs, small trees and
sizes. They hold constants only.

---

## 3. What the runs check

One run per module, and one for the disagreement that is listed as a finding. A
run's instance has every kind of actor its module knows, so that they cross;
what is bounded is how often. The failures share one bound where several kinds
are possible (`MaxUpsets`, `MaxFaults`): one failure may be of any kind and come
at any step, which is what a bound of 1 covers; the runs with 2 are those where
a second one can meet the recovery from the first.

| Run | Shows |
|---|---|
| `queue` | `QueueAndRunnerAgree`, `BatchSlotIsSafe`, `BoundariesSettle` (jobs are accounted for, nothing is stranded, the batch model is not kept by an idle queue, one maintenance per database), `HandlersKeepFaith` (no handler forgets a debt, maintenance does not cause itself, new tag debt is marked, no tick is queued beside an unfinished one), `QueueDrains` |
| `writer` | `MarkerHolds`, `RowsFollowJobs`, `CalmSkipIsSafe`, `WaitersAreHeard`, the refinement `DebtSpec`, `EverythingEnds` |
| `search` | `HitIsFresh` (a hit is what a fresh execution would return), `CacheIsConsistent`, `InsertKeepsCurrentRows` (an insert costs rows of a current result only where the budget cannot hold them beside the new answer) |
| `scan` | `ScannerIsSound`, `GateSwallowsNothing`, `JobsPauseTheScan`, `ScanComesBack` |
| `scan_cancel` | violated: `PausesAreResumed` (section 6) |
| `quants` | `QuantsAreSound` (a ready pair covers every vector at its own scale), `BatchesConverge` |
| `transcodes` | `BooksBalance`, `QueueIsFair`, `EverythingSettles` |
| `artifacts` | `RowsAreTrue`, `OpenReconciles`, `OperationsEnd` |
| `models` | `CacheIsTrue`, `WorkersAreAccounted`, `OthersModelsStay`, `EverythingEnds` |
| `dispatch` | `BatchingIsInvisible`, `NobodyIsForgotten`, `EveryoneIsAnswered` |
| `desktop` | `ServersAreSupervised`, `OnlyItsOwnExitClears`, `EverythingSettles` |
| `files` | `RunsSettle` (a quiet run leaves the index as the disk is, blocked files heal, an aborted registration is made up for), `AttemptsAreFair`, `ExistingFilesKept`, `EveryJobEnds` |

### Bounds, and why they are enough

* `queue`: one database, two models, a client's extraction of one of them, a
  cron tick of a rescan and an extraction of the other, manual maintenance;
  three client messages, cancels included (shutdown and the maintenance the queue
  synthesizes are not counted); a ring of two. Three messages give a load, a
  cancel or a completion at whose boundary an unload is detached, and a later
  load of the same or of the other model, which is what an outdated unload has to
  miss; a tick of two jobs can meet a half-finished one. The ring is smaller than
  the number of jobs, so it overflows.
* `writer`: two clients, one item, one cancellation, one failure, with
  `atomic_extraction_jobs`. Two clients are a cancelled extraction and its
  successor, or a writing job and a maintenance pass. A call may lose its writer
  in both of its attempts.
* `search`: a row query on two databases and its count query, two requests, one
  commit per database, spans of two rows, and budgets of nothing and of a few
  spans. The result goes from three rows to one and back, so rows and ends move
  to either side of a grid line; a lookup may fall between a commit and its bump.
* `scan`: two jobs, all four kinds of configuration (two sets of roots, off,
  unreadable), drives that go, three scan records, one upset, one file with the
  workers. Two jobs are what a late resume of the first needs to hit the second.
* `quants`: three vectors, a clip model and its text sibling and one vector of
  another dimension, one API request, two passes, two upsets. Three vectors make
  two chunks, so a cancellation can fall between them.
* `transcodes`: two slots, a ring of one, three keys of which one is an
  exclusive composition, three jobs, one eviction, a shutdown. Three jobs fill
  the slots and leave one to wait behind the exclusive one.
* `artifacts`: an artifact that fits and one larger than the whole budget, two
  tasks, two commits, two upsets (crash, cleared cache, failing statement). Two
  tasks suffice for every pair of operations to interleave; both may commit the
  same key, as after the cancellation of an encode.
* `models`: two models, two cache keys, two clients, three loads, four requests,
  two upsets, a shutdown. Three loads let a model be loaded again after the
  death of its workers, before the death is reported.
* `dispatch`: three requests in four mixes (merge, split, poison and an explicit
  cap of 0, too heavy for a frame), two replicas, a cap of three, one fault, an unload at any time.
* `desktop`: one user with every command, four generations, two upsets, a
  restart budget of one exit. Four generations are a first start, a restart by
  the user, one by a timer and one more that crosses them. The clock goes to 2, the
  window of the budget is 1, a stable run and the deadline of readiness are 2: an
  exit can fall out of the window without a stable run, and a run can be stable.
* `files`: two roots with a file each, one an image and one a page, contents that
  are good, without a header or undecodable, two jobs, one upset. A bad content
  reaches the page by a move. Two jobs are what counting runs and
  healing need; two roots what a scan that gets only half-way needs.

Deadlock is checked in `queue`, `search`, `scan`, `scan_cancel` and `quants`,
whose environment never runs out of things to do. In the others it is not,
because the system may come to rest there: the clients are finite, the process
has been shut down, or the bounds on jobs and requests are used up. That they come to
rest in the right state is what their liveness properties say.

### Fairness, and why the code justifies it

Everywhere: a task that can run is polled (tokio), an actor handles the messages
of its mailbox (ractor), a timer fires. Nothing makes a client send, a user act,
or a failure happen. Beyond this:

* `queue`: a started job ends. That is an assumption about jobs; for the part of
  a job that waits for the index writer, `EverythingEnds` of `IndexWriter`
  discharges it.
* `writer`: a job whose call failed goes on to fail, a stopping writer stops and
  its name is released. No job needs to attempt another item.
* `scan`: a dropped guard's resume is sent. The resync interval ticks, which is
  what brings back a scan whose start failed.
* `quants`: batch jobs keep coming (cron) and are not starved by reconciles: the
  queue is a FIFO, therefore strong fairness on starting one.
* `transcodes`: an encode ends (ffmpeg runs under a deadline). `SF` on
  `FinishJob`: the mailbox is a FIFO, so a Finished message is handled however
  many submits are.
* `artifacts`: statements and file system calls return.
* `models`: spawns have a deadline, drains are bounded by `unload_grace`, the
  sweeper ticks. `SF` on `Begin`: tokio's Mutex hands `load_lock` over in order.
* `dispatch`: a worker that is not wedged answers; a wedged one never need to.
* `desktop`: a process that is asked to shut down does, unless it hangs.
* `files`: the job is polled and its workers and the writer answer. Which of its
  steps come first is not fair in any way.

---

## 4. What is proved

TLAPS proves the following for every set of databases, models, clients, keys and
requests and for every bound, from the named assumptions on the constants only; three theorems
have a hypothesis besides (`RowsStayTrue`, `JobsAlwaysPauseTheScan` and
`ExistingFilesStay`, below).
The assumptions say that the values that stand for "none" are none of the other values,
that bounds are naturals, that a ring has room for an entry and a pool for a job, that the
set of databases is finite, what a well-formed request is, and that the callers
of a batch dedup on the tag and database of every request in it; TLC evaluates
all of them in the runs.

In every module the argument is an inductive invariant (`IInv`; `JInv`,
`ScanInv` where there are several), with one lemma per action or per helper that
says what it preserves, and the theorems follow from it. An invariant of a run
is hardly ever inductive by itself; what had to be added is the interesting part
and is described here.

### `JobQueueProofs.tla`

`TypeCorrect`, `QueueAndRunnerAlwaysAgree`, `NeverStranded`,
`BatchSlotIsAlwaysSafe`, `HandlersAlwaysKeepFaith`, `BoundariesAlwaysSettle`. The
first four from

```
IInv == TypeOK /\ Good(state) /\ state.unloads = {} /\ state.pending_marks = {}
        /\ IdleMeansDrained /\ RunnerAgreement /\ SlotOwned
        /\ TasksInv /\ InboxInv /\ UnloadInv
```

* `Good(state)`: ids are unique and in order (the running job's below every
  queued one, all at most the counter), queue and map agree, and the queue is
  empty while shutting down. Without it `start_next_job` could start a job whose
  id is already in use, and `RunnerAgreement` would not survive it.
* `TasksInv`: a task that is alive and not aborted belongs to the runner's job,
  and ids of tasks are unique. A completion is therefore about the job that the
  runner holds.
* `InboxInv`: a completion on its way is of a job that has been started and is
  no longer the runner's, so a late one can be told from the next job's.
* `UnloadInv`: an unload that calls the server holds the current generation, and
  every unload is older than the load of a live task. This is the argument of
  the generation counter, and `UnloadSafe` is its conclusion.
* `state.unloads` and `state.pending_marks` are what a handler collects before
  `Commit` turns them into tasks; they are empty between handlers.

`HandlersAlwaysKeepFaith` is about steps. What a handler may do to the debts is a
relation between the state before and after (`KeepsDebts`, `MakesNoDebt`,
`MarksTags`, `TagsFrom`); it is shown for each helper, is transitive, and so
holds of a handler that calls several, the boundary's `start_next_job` and the
maintenance it synthesizes included. That a tick never overlaps needs the ids of
`Good`: a job is new if its id is above the counter.

`BoundariesAlwaysSettle` needs `IInv` and

```
Settled == Tidy(state) /\ BatchLoadedOnlyWhileRunning
           /\ (state.shutting_down => runner = 0)
```

`Tidy` says that the log's ids are distinct, are of no active job, and with the
active ones are all that were ever given out, until the ring overflows or the
process shuts down; and that a database has one maintenance. The last conjunct
is what a completion during a shutdown needs: nothing is started any more whose
model could stay loaded.

### `IndexWriterProofs.tla`

`MarkerAlwaysHolds` and the refinement `ImplementsDebt` need
`IInv == TypeOK /\ LatchIsHonest /\ StaleIsMarked`: a write that finds the latch
set does not touch the marker, so the step needs to know that the latch is
honest, and that in turn rests on the recount releasing it in the same handler
and on a new incarnation starting without it. The refinement maps every step of
the writer, every failure and every client to a step or a stutter of `TagDebt`.

`WaitersAreAlwaysHeard`, `RowsAlwaysFollowJobs` and `CalmSkipIsAlwaysSafe` are
about many messages and many clients at once and need

```
JInv == IInv /\ Mail /\ Desk /\ Turns /\ Letters /\ Healthy /\ Abandoned
        /\ RowsHeld /\ CalmSkipIsSafe
```

* `Mail`, `Desk`: the messages with a writer are of different callers, carry its
  incarnation, and a caller that waits for it has exactly one of them.
* `Turns`, `Letters`: the job the queue runs is the only one in a phase of a
  job, and what a call asks for is what its client's phase allows.
* `Healthy`: as long as nothing failed no call fails and no writer is lost, so a
  row that is in the table is what its job believes.
* `Abandoned`, `RowsHeld`: what a cancelled job has left (a message, a detached
  cleanup, or a row nobody will close) and what a live one still has to do about
  its row.

### `CacheProofs.tla`

The search cache: `HitsAreFresh`, `SpansStayOrderly`, `CacheStaysConsistent`,
`CurrentRowsStay`.

The first one's invariant says of every group whose stamp equals the current
epochs, while no commit waits for its bump, that its spans hold rows of the
current versions and its known end is not before the end. The premise is what
makes it inductive: a commit ends it until its bump, the bump ends it for the old
stamps, and a snapshot is sampled before the execution and never ahead of the
epochs.

`SpansStayOrderly` (`GroupsOwnSpans` and `SpansOnGrid`, two of the four parts of
`CacheIsConsistent`) is shown of the helpers of `CacheState` as functions on
caches. Its core is about the pieces an insert cuts (`PieceRows`, `SameCell`):
the rows of a piece are free, no span and no grid line starts after its first row,
therefore it stays in its cell and clear of what is stored. A group without a
span exists only inside an insert (`Owned(c, {q})`), until the anchor is stored.

The other two parts are the books, `Balanced`: `recency` lists every stored span
once, `used` is the charge of what is stored, and it is within the budget. The
`Ledger` half is shown of each helper as a function on caches: storing, removing
and trimming a span, dropping a group, evicting. Every one of them changes the
sum by exactly what it adds to or takes from `used`. That an eviction can always
reach the budget needs the other half: the order it walks is complete.

`CurrentRowsStay` (`InsertKeepsCurrentRows`) follows an insert in two steps.
Filling (`Filled`) takes no row of a current group: a snapshot that is not older
than the stamp of a current group equals it, because it is never ahead of the
epochs, so nothing is cleared, and a new span replaces a stored one only where no
row is held. What filling adds is rows of the answer, or one span alone in its
group, so an eviction that leaves the answer whole takes only what was there
before (the spans do not overlap), at the price it had in the books
(`LostIsCharged`). And an eviction begins only above the budget
(`EvictIfOver`). That the one span of a count has no rows is an invariant of its
own (`CountsAlone`).

The artifact cache: `BudgetHolds` (`BudgetAtRest`: once opened, never failed and
with nobody at work, the rows are within the budget, or one artifact is left that
is larger than all of it), `RowsStayTrue`, `OpensReconciled`.

* `Shaped`: the order of use lists the rows, each once, and a worker's victims
  are distinct.
* `Bounded`: while nothing has failed, the rows are within the budget, or some
  worker has yet to read the total (`Due`), or some pass under the budget in
  force counts no less than what is there (`Covers`). A pass takes the size of
  every victim off its count although another one may have deleted it first
  (`Lost`), so its count falls behind the sum of the rows only by victims that
  are gone; with two passes this is what could go wrong.
* `Described`: commits of one key may overlap, since a cancellation frees the key
  while its encode still runs (`media_tools/transcode/pool.rs:928`). For every key
  that is not `crossed`, at most one commit has published and has no row yet, the
  file is its own, and if there is none the row describes the file. A key is
  crossed when a publish falls between the publish and the row of another commit, or
  a publish is interrupted before its row; the next publish that nothing crosses
  makes it straight again. No hypothesis on the pool, on failures or on crashes is
  needed.
* `Reconciling`: while the cache opens, the rows without a file are those that
  the one worker is about to delete (`Missing`), and the files and shares without
  a row are too young to be debris.

Sums over finite sets and the order of use are recursive functions, and the
library's induction theorems cannot be instantiated with the provers at hand.
They are proved about all the same: `NatLessThanWellFounded` and
`FS_StrictSubsetOrderingWellFounded` say that a non-empty *set* has a minimal
element, and the set of the counterexamples can be written down. That the
recursive functions exist is shown in the same way.

### `ScanProofs.tla`

The continuous scan: `ScannerIsAlwaysSound`, `GateNeverSwallows` and
`JobsAlwaysPauseTheScan`. Every
handler of the scan actor is shown to keep a paused scanner still and either to
outdate the files that are with the workers (a new epoch, or paused) or to keep
the roots they were found under; `WorkIsTagged` is what this preserves. The
gate's part is a second invariant: an edit the watcher has seen is pending, in a
task that sleeps, in the supervisor's mailbox, or being handled.

`JobsPauseTheScan` presupposes that the configuration stays enabled and that no
write has failed (`Steady`). Under this its invariant is

```
PauseInv == StaysUp /\ AskedOnce /\ PausesAreCounted /\ OneOpenRow
```

* `StaysUp`: the supervisor's first pass starts the scanner before any job is
  answered, and nothing stops it.
* `PausesAreCounted`: `job_pauses` is `Outstanding`, the number of guards, of
  pauses acknowledged but not yet heard of, and of resumes in the supervisor's
  and in the scanner's mailbox. A late resume of a cancelled job therefore never
  takes the pause of the next.
* `AskedOnce`: one request at a time, and one Pause in the scanner's mailbox
  exactly while the supervisor waits for its reply.
* `OneOpenRow`: together with `PausedForJobIsStill`, a Resume that starts a new
  record finds none open.

Its hypothesis is `~CancelAsking`: a job that may be cancelled while it waits for
the acknowledgement is the finding of run `scan_cancel` (section 6).

The file scan: `ExistingFilesStay`, from

```
FilesInv == Formed /\ OpenIsThere /\ RootsAreChecked /\ Collected /\ WalkIsOver
```

* `OpenIsThere`: a file that could be read since the job started is on the disk, in
  a directory that can be read, and its root, if the job found it valid, is mounted.
* `RootsAreChecked`: a root that is still to be walked, is being walked or is being
  marked was valid when the job looked; a root that has gone earlier is left alone.
* `Collected`: such a file of the root that is walked is still ahead of the
  walk, in a worker, owed a write, kept out of the marking (`errs`), or its row
  carries the scan's id. What the walk may do to a file moves it from one of these
  places to a later one, whichever way it fails.
* `WalkIsOver`: once the walk has ended the first three places are empty, so that
  `MarkUnavailableFiles` finds the file in one of the other two.

Its hypothesis is that the pattern a folder is matched with, `LIKE dir || '%'`,
matches the files of that folder only. Without it the theorem is false
(section 6).

### `VectorQuantProofs.tla`

`TypesHold` and `QuantsStaySound`. The invariant is about one database
(`DbInv`) and is shown for each transaction as a function on databases; from the
jobs it needs only that quants are deleted while no pair of an active profile is
in use, and that a build that is under way, or has left its last message with
the writer, is of the revision the database shows (`JobOk`, `LateOk`).

### `TranscodePoolProofs.tla`

`BooksAlwaysBalance`, `QueueIsAlwaysFair`. The invariant is stated on values, so
that it can be carried through the parts of a handler (table, ring, dispatch) one
after the other. Every entry is in one place (`Placed`: queue, task or ring),
slots count the tasks (`Counted`), a key names its one wanted job (`Mapped`),
positions are those of the queue (`Told`). That ids are counted up makes the queue
a sorted one, and from this it follows that its ids differ and that earlier
jobs start earlier.

### `InferioProofs.tla`

The manager: `WorkersAreAlwaysAccounted` (with its parts
`RegisteredModelsCanBeUnloaded`, `NoWorkersAreForgotten`, `PinsCountRequests`,
`ShutdownIsComplete`), `OthersModelsAlwaysStay`, `FailedLoadsLeaveNoEntry`. This
argument never looks into the LRU lists: whatever entries a touch, an unload, an
expiry or a death removes, the same step unloads exactly the models whose last
reference was among them (`Drops`). What carries it is that a generation is of
one model (`Numbered`), that `load_lock` has one holder and that this holder is
the only client that spawns (`OneSpawner`).
`OthersModelsAlwaysStay` has four parts: what is done
under a cache key (a load with its evictions, an unload, a clear) leaves the
references of the other keys, and with them the model; a sweep spares a key
without a TTL and, as the third, a request in flight; a late death report spares what was
loaded again.

`CachesTellTheTruth` is about the lists. `Agree` says that no list holds a model
twice and that a model is in the list of a key if and only if the key is among
the model's references; it is shown to survive every removal (`RemovalAgrees`)
and every touch, and a sweep is many removals.

The dispatcher: `Invisible`, `Remembered`, from

```
DispatchInv == DispatchTyped /\ Fates /\ Held /\ Order
```

* `DispatchTyped`: a frame in flight is made of the inputs of its window, in
  order (`FrameOK`). This rests on the theory of windows in the first half of the
  module: the concatenation of the requests' inputs, its bytes, and the slice of
  it that belongs to one request.
* `Fates`: an answer is made of the outputs of the caller's own inputs; only a
  request that holds a bad input fails of its own, and only an unload or a crash
  loses one.
* `Held`: who waits is in the mailbox, in the queue or in a window.
* `Order`: what was taken, the queue and the mailbox, one after the other, are in
  the order of sending. A window is a prefix of the queue and a request is never
  put back, so the line only moves.

### `DesktopSupervisorProofs.tla`

`ServersAreAlwaysSupervised`, `OnlyItsOwnExitEmptiesTheSlot`. start and stop
overlap freely; what keeps the slot right is that a generation is stored once,
by the caller that spawned it (`Pending`), that the handle it replaces closes its
process, and that the timer of a generation runs once, after its exit was handled
(`Timers`). The bound on the restarts (`RestartsAreBounded`) follows from the
budget being the list of those restarts that are neither aged nor wiped out by a stable
run: a timer is set only while the list is shorter than `max_exits`, so any
`max_exits` + 1 restarts within a window have a stable run between them.

---

## 5. What is only model-checked, and what is not modelled

Only model-checked:

* Everything under fairness (`QueueDrains`, `EverythingEnds`, `ScanComesBack`,
  `BatchesConverge`, `EverythingSettles`, `OperationsEnd`, `EveryoneIsAnswered`,
  `EveryJobEnds`): liveness and `ENABLED` are outside what the proof system handles.
* `RunsSettle` and `AttemptsAreFair` of the file scan, which relate whole runs of
  the job to each other. Nothing rules a proof of these out. Their hypotheses were
  found with bounds of two on each disturbance in turn, where the unconditional
  forms fail: two versions of a file that changes while it is read can be counted
  together (`seen.calm`); an older file moved onto a path brings its earlier
  failures with it (`seen.back`); a file that leaves the scan's sight is forgotten
  by the ledgers and earns its attempts anew (the factor in `RetriesAreBounded`);
  a root that becomes valid only after the job looked is not scanned
  (`seen.able`); and a lost rekey costs an audit row (section 6).

Abstracted in the modelled parts:

* Job queue: job parameters other than type, database, tag, model and owed
  flags; timestamps; listing and status queries, which change nothing.
* Index writer: messages that change neither tags nor extraction rows (they
  commit through the same `with_transaction`), VACUUM, ANALYZE and checkpoints,
  the idle closing of the connection, the Flush barrier, progress updates of a
  row. The item tasks of an extraction run one at a time: they only meet in the
  mailbox, which the other clients already exercise. A transaction is atomic;
  that SQLite keeps this promise is taken from SQLite. A maintenance job that
  could not pause the scan and runs anyway.
* Search cache: the statistics listing.
* Continuous scan: the directory poller's diff, settle checks, removals and
  renames, statistics, process shutdown.
* Vector quantisation: the arithmetic of the codec, more than one profile, the
  migration of retired recipes, default flags, deleted setters.
* Transcode pool and cache: command lines, filter graphs and the retry inside
  one encode, progress messages, the sweep of temporaries.
* Inferio: prewarmed workers, the frames of the worker protocol.
* Desktop: the relay, update discovery, settings files, windows.
* File scan: filters and deletions by job filters, frames, tiers, loops and item
  facts, junk directories, nested roots, the size in the ledger's key, case
  folding, progress writes.

Not modelled at all: cron (what it sends to the queue is in `JobQueue`),
pinboards, `extraction_errors`, configuration files, database connections and
migrations, PQL (its meaning is SQLite's), video and thumbnail handlers (pure, or
handlers over the transcode pool), policies and proxy, setup, UI and updates, the
clipboard helper, the HTTP layer of Inferio, the Python worker. They have no
concurrency or no state of their own, or are further down the plan.

---

## 6. Disagreements between the code and what it says

Each of these is stated as an operator of its module, next to the properties;
TLC finds a counterexample to it on a small instance. The runs list one, the
others can be tried by naming the operator in a configuration.

* **A pause that nobody takes back** (run `scan_cancel`, `PausesAreResumed`).
  `pause_for_job_guarded` awaits the acknowledgement of the pause before it makes
  the guard (`jobs/continuous_scan.rs:2250`). A job aborted during this wait has
  its pause counted and nothing to resume it; the scan stays paused until its
  actor is replaced. The comment above says that "the scan cannot be left paused
  by a cancelled job".

### Job queue and writer

* `OwedReportSurvives`: a report that is dropped. `RecordOwed` exists "so the
  owed flags survive that job later failing or being cancelled"
  (`jobs/queue.rs:301`). An extraction is enqueued and starts; it is
  cancelled, which synthesizes the maintenance it owes pessimistically
  (`wrote_data`) and starts it; the task, caught in the middle of a poll, still
  sends its report (`deleted_data`); the report is handled while the maintenance
  job runs, and the guard at `jobs/queue.rs:718` ignores it. The same happens
  when the report was sent first and the cancel was ahead of it in the mailbox.
* `LiveJobHasItsRow`, with cancellations: a cleanup that hits another job.
  `IncompleteJobCleanup` "marks this job's unfinished data_log row"
  (`jobs/extraction.rs:272`), but `RemoveIncompleteJobs` takes every unfinished
  row. Detached by a cancellation, it can reach the writer after the next
  extraction has added its row; with `atomic_extraction_jobs` that row is
  deleted with everything written so far.
* `SkipIsSafe`, with cancellations: a marker that is read too early.
  `tags_are_dirty` says "there is nothing to race" (`jobs/files/mod.rs:546`). A
  write of a cancelled tagging job is still with the writer when the next
  maintenance pass reads the marker; the pass skips the recount, the write
  commits, and the counts are stale although maintenance has just run. The
  marker is then set (`MarkerHolds`), so a later pass repairs it.

### Search cache, continuous scan, quants

* `KnownEndIsRowCount`: an execution whose offset lies beyond the end returns no
  row and stores its offset as the "Absolute row count of the result set"
  (`api/search_cache.rs:525` and `:133`). No hit is wrong because of it.
* `JobRunsPaused`: a job that starts while the scan is off is told that it is
  paused; a scan that is enabled meanwhile runs beside it
  (`jobs/continuous_scan.rs:1887`; README of the server, line 343).
* `ActiveScanHasRecord`: a scan whose roots were not mounted when it was enabled
  comes back without a record in `file_scans`
  (`jobs/continuous_scan.rs:1277`); its writes fail the foreign key. Related: a
  job that starts while the scan is disabled breaks `OpenRowIsTheScanners`.
* `CommitsAreDone`: a configuration commit while a reconcile has found nothing
  left to do, but has not been reported, is deduped against it and waits for the
  next batch job (`jobs/vector_quants.rs:58`; the comment at 317 says "suppressed
  enqueues are never lost").
* `SearchSeesEveryVector`: a search resolves the ready pair and scans the quants
  in two statements; a rebuild that begins in between takes vectors from it
  (`pql/preprocess.rs:361`; `docs/vector-index-design.md:374`).

### Transcodes and models

* `CancelledIsNotDone`: a cancel after a successful encode, before its Finished
  message, answers true and the job ends as done
  (`media_tools/transcode/pool.rs:927`).
* `NoOrphanRow`: `clear` removes the file before the row and argues for the
  opposite order (`media_tools/transcode/cache.rs:673`).
* `RowDescribesFile` of every key, without its exception for `crossed` ones: two
  commits of one key may rename in one order and upsert in the other
  (`cache.rs:370`; `pool.rs:930` calls the overlap safe on disk), and a commit that
  is interrupted between the rename and the row of a key that has a row already
  leaves the old row over the new bytes. The next hit or open sees a row and a
  file and keeps both.
* `NoPhantomEntry`: a client that hangs up while its model spawns leaves an entry
  for a model that is not loaded (`inferio/manager.rs:906`; line 40 says that
  failed loads never do). Without hang-ups it holds, and that is proved
  (`FailedLoadsLeaveNoEntry`).
* `RestoresItsOwnEntry`: the end of a predict writes its TTL over an entry made
  by a later load (`inferio/manager.rs:360`; line 350).
* A cap of 0: `effective_cap` takes `max_batch = 0` as an explicit cap and raises
  the maximum to 1 (`inferio/dispatch.rs:166`), so such a request alone is cut to
  single inputs; the comment in `window_take_count` says that "non-positive caps
  carry no opinion, as in `effective_cap`" (`dispatch.rs:204`). The model follows
  the code. No property is about it: how a request is cut changes no answer
  (`BatchingIsInvisible`).
* Observed, and not contradicted by any statement: an eviction or an explicit
  unload under the only key of a model unloads it while a request of that key has it
  pinned; the pins hold back the sweeper alone. `OthersModelsStay` therefore
  speaks of the references of other keys, and of requests only in sweeps.
* `EveryFrameFits`: `run_single` cuts a request by the cap of the whole queue, so
  a frame can exceed the cap its own caller gave (`inferio/dispatch.rs:580`; line
  179).

### Desktop shell

* `DisabledIsOff`: a disable between the check of the setting and the storing of
  the child does not stop the Server that is being started
  (`supervisor.rs:157`; `docs/architecture.md:199`).
* `NoRestartDuringInstall`: a stop for an update during the delay before an
  automatic restart finds no child; the timer starts the Server during the
  installation (`supervisor.rs:423`; `docs/desktop-updates.md:626`).
* Observed, and not contradicted by any statement: a start that fails on behalf
  of an update or a saved configuration leaves "Starting" or "Restarting" shown.

### File scan

* `FolderUpdateCovers` without its first conjunct: a folder that was scanned,
  removed and registered again by an update that was aborted is taken as covered
  because of the closed record of its earlier scan (`jobs/files/mod.rs:373`).
* `EmptyMountsAreRejected`: all roots are checked before the first is walked
  (`jobs/files/mod.rs:629`). A rescan finds both roots valid and walks the
  first; the drive of the second, under which rows are indexed, goes; the second
  root is opened and walked as an empty directory without an error, its files are
  marked unavailable and, with `remove_unavailable_files`, deleted. The server's
  README (line 331) says that such a root is rejected. Related: a root with only
  ledger rows passes the check while unmounted, and its ledger is swept.
* `ExistingFilesKept` for files below a directory that cannot be read (an
  unreadable directory defers the sweep of the ledger, not the marking of files,
  `jobs/files/mod.rs:1358`) and for siblings of an excluded folder whose name
  holds a `LIKE` wildcard (`db/folders.rs:80`). The property of the run excludes
  the first and the instance the second (`LikeDir`).
* `SuppressionIsVisible`: after a rename, the marker by content suppresses a
  thumbnail whose audit row, by path, is gone (`jobs/files/mod.rs:1818`).
  Related: a touch whose rekey was lost leaves the audit row under the old stat,
  the next run clears it as the file is indexed, and the marker goes on
  suppressing. The comment in the function says that a lost rekey costs "one
  stale-keyed audit row, never correctness" (`jobs/files/mod.rs:1845`).
  `VerdictsAreKept` therefore speaks of runs without lost writes.
* `StoredVisualsAreOfTheirContent`: hashing and rendering read the file
  separately; a file replaced in between leaves the thumbnail of its new bytes
  under the old content (`jobs/files/mod.rs:3583`).
* `ConfirmedByALaterJob`: a rescan whose folder lists have changed scans twice
  with a token each, so one job can confirm its own failure
  (`jobs/files/mod.rs:682`; `api_error.rs:96`).

---

## 7. Plan

Next, in the order of what says most:

1. The file scan: proofs of `RunsSettle`, one run at a time from the invariant of
   `ExistingFilesStay`, and of `AttemptsAreFair`, both as restated (section 5).
2. Not yet modelled and worth it: prewarmed workers, the merge of the databases'
   schedules into one cron tick, pinboard versions.
