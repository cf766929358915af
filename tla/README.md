# TLA+ models of Tako VM

Tako VM runs untrusted Python jobs in Docker containers behind a FastAPI server
with an asynchronous job queue, a PostgreSQL record of every execution, and a
Python SDK. This directory holds TLA+ models of the parts where jobs, clients,
threads, containers, crashes and storage failures meet, the TLC runs that check
them on small instances, and TLAPS proofs of their central theorems for every
value of the constants.

All paths below are relative to the repository; `queue.py`, `app.py` and `limits.py`
are in `tako_vm/server/`, `worker.py`, `docker.py`, `health.py`, `retry.py` and
`builder.py` in `tako_vm/execution/`, `storage.py`, `job_types.py`, `version.py` and
`cli.py` in `tako_vm/`. `PROJECT.json` maps every definition to its source lines.

## 1. The system

### Components, their state and their operations

| Component | State | Operations that change it | Makes it correct |
|---|---|---|---|
| Worker pool (`queue.py`) | `_queue`, `_active_jobs`, `_running_jobs`, per job: future, `cancelled`, `cancel_signal_sent`; worker tasks; `ThreadPoolExecutor` | `submit`, `_worker_loop` / `_execute_job` / watchdog, `cancel`, `start`, `stop` | no job lost or executed by two workers; every waiter released; dictionaries, future and row tell the same story; terminal rows never change |
| Record store (`tako_vm/storage.py`) | tables `execution_records`, `dead_letter_queue`, `job_versions`, `sessions` | `save_record` (guarded upsert), `mark_record_running`, `reconcile_stale_records`, `add_to_dlq`, `cleanup_old_records` | status follows queued → running → terminal; one row per idempotency key |
| Lifespan and clean-up (`app.py`) | background tasks | start-up reconciliation, hourly `_periodic_cleanup`, shutdown (pool, then storage) | interrupted jobs are settled; clean-up never touches live jobs |
| Asynchronous submission (`app.py`) | `IdempotencyLockManager`: per-key locks and waiter counts | `POST /execute/async` | one key, one job; same answer to every request with the key |
| Synchronous SDK (`tako_vm/sdk/client.py`) | retry loop | `submit_code` (3 attempts), polling | a retried submission is not a second execution |
| Container execution (`worker.py`, `docker.py`) | output directory, container name per attempt, container state | `execute_job_with_record`, `_run_container`, `kill_container`, `remove_container`, `classify_*` | code runs once; result belongs to the reported attempt; nothing left behind |
| Docker health (`health.py`) | breaker state, failure and success counts | `record_success`, `record_failure`, `is_available`, `check_docker_health`, `cleanup_orphaned_containers` | opens and closes on consecutive outcomes; the reaper removes only leaks, and all leaks |
| Retry helper (`retry.py`) | attempt counter | `should_retry`, `record_failure`, `is_transient_error` | bounded retries of transient failures only |
| Synchronous execution (`app.py`) | none of its own | `POST /execute` | the row is saved, best effort; the answer does not wait for it |
| Rerun and fork (`app.py`) | `runs/<id>/_code.py`, `_input.json` of the parent | `/executions/{id}/rerun`, `/fork` | the new job runs what the parent ran, or is refused |
| Retention (`app.py`, `worker.py`, `storage.py`) | rows, `runs/<id>`, workspaces, each with a time | hourly `_periodic_cleanup`, start-up sweep | what is removed is not needed: no live workspace, no files of a row that is kept |
| Migrations (`storage.py`) | `schema_migrations`, session lock | `ExecutionStorage.init` | a server that serves has the whole schema |
| Managed database (`cli.py`) | container `tako-vm-postgres` | server start, `dev up`, `dev down` | several starts share one container |
| Job-type registry (`job_types.py`) | a map per process, one JSON file, a file lock | load, `register`, `remove`, defaults, `_save` | the file is one whole map at any moment |
| Images and versions (`builder.py`, `version.py`, `docker.py`) | image tags of the daemon, `job_versions`, two caches of 60 s | `build`, `remove_image`, `register_version`, `_resolve_image` | caches are no older than they may be; the latest version is the image |
| API protection (`limits.py`) | rate-limit buckets | identify, limit, authenticate, measure | the limit is kept whoever asks and when; memory is bounded |
| Library sandbox, sessions store, security, configuration, models, correlation | none that outlives a call (sessions: a table no server code calls) | – | – |

### Interactions

* A **client** posts a job. `app.py` holds the keyed lock over lookup and
  `WorkerPool.submit`, which inserts the `queued` row and only then calls
  `put_nowait`.
* **Worker tasks** share one asyncio event loop with the handlers; code between
  two awaits is atomic. A task takes a job, saves `running`, hands
  `execute_job_with_record` to a thread and awaits it under a watchdog.
* The **thread** calls the `docker` CLI by `subprocess.run`. It shares the circuit
  breaker (a `threading.Lock`) with the other threads and the health endpoint.
* **cancel()** and the **watchdog** reach a running job only from outside, by
  `docker kill` on the name of its first container.
* The **database** commits a statement at a moment that differs from the moment
  the coroutine resumes; a call may commit and still raise.
* A **restart** keeps the database, the files and the containers, and loses all the
  rest.
* **Handlers, executor threads and the clean-up** share rows and files: the worker
  saves rows, the thread writes `runs/<id>`, rerun and fork read both, the clean-up
  removes each by an age of its own. With `--workers N` several server processes
  do so on one database and one disk.
* **Command-line processes** share the registry file and the image tags with the
  server, which reads the file only when it starts and asks the daemon only when
  its cache has expired.

### What is hard

Worker, `cancel()`, `stop()` and the recovery path write the same row and resolve
the same future with awaits in between; any save may fail; the watchdog strands
threads; the event loop blocks while `stop()` joins threads and resumes
after the storage is closed; retries happen on both sides of the HTTP connection
and around `docker run`; containers outlive the CLI that started them; the process
may die anywhere. `PROJECT.json` lists these hazards line by line under `hazards`
with the properties that watch them.

## 2. Modules

```
ExecutionRecords          status column and the statements that write it
 ├─ WorkerPool            queue.py + lifespan + rows      ──implements──▶ JobLifecycle
 │    └─ WorkerPoolProofs ── WorkerPoolCustodyProofs, MCWorkerPool
 └─ IdempotentSubmit      SDK retries + keyed lock + submission
      └─ IdempotentSubmitProofs, MCIdempotentSubmit
CircuitBreaker            DockerCircuitBreaker as pure operators
 └─ JobExecution          retry loop + _run_container + daemon + reaper
      └─ JobExecutionProofs ── JobExecutionOutcomeProofs, MCJobExecution
RecordDatabase            managed PostgreSQL, server starts, migrations
 └─ ExecutionArchive      rows, files, workspaces; sync execution, rerun, fork, retention
      └─ ExecutionArchiveProofs, MCExecutionArchive
JobTypeRegistry           job_types.py, several processes  ──implements──▶ RegistryStore
 └─ JobImages             builder, versions, image caches and resolution
      └─ JobImagesProofs, MCJobImages
ApiProtection             limits.py                        ──implements──▶ FixedWindow
 └─ ApiProtectionProofs, MCApiProtection
```

`JobLifecycle`, `RegistryStore` and `FixedWindow` are abstract specifications; each
arrow is an `INSTANCE ... WITH` in the detailed module, checked by TLC as a property
(`LifecycleSpec`, `StoreSpec`, `LimiterSpec`) and proved by TLAPS.

The `MC*` modules only add the symmetry sets TLC uses. An operator or action
introduced by a comment "Mutant: ..." is a deliberately wrong variant of the definition
below it; no specification uses it. `PROJECT.json` pairs each with the property
that detects it.

### `ExecutionRecords`, `JobLifecycle`

Each SQL statement is one operator from the old status to the new one, with its
`WHERE` clause. `JobLifecycle` is the promise of `docs/index.md` – recorded,
started, settled once, or interrupted by a restart – without naming who does it.

### `WorkerPool`

One action per stretch of code from an await to the next:

| Actions | Code |
|---|---|
| `SubmitCall`, `SubmitCommit`, `SubmitPut`, `SubmitReject`, `SubmitRaises` | `submit()`: insert, enqueue or refuse with a second save, storage failure |
| `WorkerTake` … `WorkerWakes` | one iteration of `_worker_loop`: dequeue, skip of cancelled jobs, mark running, hand to the thread pool, result, save, resolve, the inner handler (failed save, dead letter), the outer recovery, the pause |
| `WorkerWatchdog`, `WorkerWatchKill` | `asyncio.wait_for` gives up; the container is killed in another thread |
| `WorkerRaises` | the storage call the worker awaits fails, before or after its commit |
| `WorkerCancelled` | `CancelledError` reaches a task that `stop()` cancelled |
| `ThreadStart`, `ThreadFinish` | a work item gets one of `max_workers` threads; the executor returns any outcome or raises |
| `CancelCall` … `CancelSignalled` | `cancel()` up to and after its save, kill and signal |
| `StopCall`, `StopDrain`, `StopDrained`, `StopWaited`, `StopJoined`, `StorageClose`, `Exit` | `stop()` and the end of the lifespan handler |
| `Crash`, `Restart` | the process dies; start-up reconciles the rows |

Choices worth knowing:

* `_jobs_lock` is never contended, since no body under it awaits, so it is part of
  the surrounding action.
* Worker and cancel writes are split into commit and resume, so another writer
  can come between, and a fault may hit either side of the commit.
* `stop()` with submit or cancel in flight is a superset of what happens:
  uvicorn drains requests before it ends the lifespan.
* `wait_for_result`, `get_job_status` and `get_stats` change nothing; the second
  is the state function `ReportedStatus`. (`wait_for_result` without a timeout
  awaits the future unshielded, but no handler calls it so.)
* The watchdog may fire at any time while a job is in the executor, so nothing
  depends on how its budget is computed.
* The queue length, failures (`MaxFaults`) and restarts (`MaxBoots`) are bounded;
  rows do not expire during a run.

### `IdempotentSubmit`

The SDK's `Send`, `Receive`, `GiveUp`; the lock manager's `Arrive` and `Enter`;
the handler's `Lookup`, `Save`, `Put`, `Reject`, `Raises`; the pool's
`Execute` as a choice of statuses; `Crash` and `Restart`. A request outlives the
client's patience. Locks are created on demand and named after the request that
created them, so a handler holding a reference to an evicted lock is
distinguishable from a holder of the present one. Fingerprints are equality of
`Payloads`. The `IntegrityError` branch of `Save` is modelled but unreachable as
long as the lock works: it is a safety net for a second server process, which
this model does not have (the lock is per process). TTL deletion of rows is not
in this model.

### `CircuitBreaker`, `JobExecution`

The breaker's methods are operators (each holds its lock for its whole body). An
action of `JobExecution` is the code between two subprocess calls: `Check`
(breaker, image, requirements), `Launch`, `LaunchRefused`, `LaunchFails`,
`StartContainer`, `StartFails`, `RunLost`, `Returned`, `HostTimeout`, `Inspect`, `Kill`,
`Remove` (with the decision to retry), `Clean`. `docker run` is attached, so what it
captures is the program's own: `says` is nothing of note, a daemon-connectivity phrase,
or something that is not text, for any program and any exit. `InfraFailure` is
`classify_docker_run_result` on exit code and text. Containers end by themselves in any
way (`ContainerEnds`), by an external kill, or with the daemon. On a
daemon failure each running container survives or not (live-restore is a daemon
setting the code does not control). The reaper lists (`SweepList`) and removes one
container at a time (`SweepRemove`). Containers have no ages: any set of running
containers may be old enough for a sweep, those of runs in progress too, since
`startup_timeout` is not held to the bound that the age limit is computed from
(section 5).

### `RecordDatabase`, `ExecutionArchive`

`RecordDatabase` takes a server process from its start to `ready`: it looks for a
connection, inspects, starts or creates the managed container, waits, takes the
advisory lock, applies each missing part of the schema inside one transaction,
gives the lock back and only then commits. Part 0 is the table
`schema_migrations`, part `v` migration `v`. `ApplyMigration` has PostgreSQL's
behaviour towards an uncommitted row of another transaction: `INSERT ... ON CONFLICT
DO NOTHING` waits, and so does `CREATE TABLE IF NOT EXISTS`, which then fails on
the catalogue (`TableDecided`). `dev down` stops the container under whoever uses it.

`ExecutionArchive` EXTENDS it with what is kept of an execution. The executor and
the pool appear only in what they write: `StartThread`, `StoreReplayArtifacts`,
`RetryAttempt`, `RunEnds`, `SaveOutcome`, and `GiveUp` for the records that the pool
saves in place of the thread's. `FetchParent` and `SubmitReplay` are the two halves
of rerun and fork, with the await between them. `CleanupRecords` and `CleanupDisk`
are the two halves of a sweep, with the awaits between them. A file is absent,
torn, or has the content of the submission that wrote it; directories carry the
time of their last entry and workspaces that of their creation, as their mtimes do.

### `RegistryStore`, `JobTypeRegistry`, `JobImages`

`JobTypeRegistry` has the steps of `_save` (lock, temporary file, rename, or a
failure at any of them) and the end of a process at any point. `RegistryStore` says
what can be seen from outside: the file changes only by being replaced with the
whole map of one process. Lost updates between processes are part of that
promise, as the code reads the file only when it opens the registry.

`JobImages` EXTENDS it. A definition that was built stands for the image and for
the digest. `BuildStart` to `RegisterVersion` are the steps of a build in any process,
with the version recorded only by the server. `CheckCache`, `DaemonAnswers`,
`StoreAnswer` are the three moments of `image_exists` and
`image_has_executor_entrypoint` on the executor's side, while a build asks and stores
in one step (`BuildVerify`); `Fallback` and `RunImage` end `_resolve_image`. `gone` and
`mover` are history variables for the properties.

### `FixedWindow`, `ApiProtection`

`Dispatch` is `_dispatch` up to the first part of the body, which has no await: who
asks, `allow()` with the eviction in it, the rejection of wrong keys, the declared
length. Where a request is from, its key and whether its route is exempt are constants,
so the promise can name who pays for it (`Payer`) and which requests are served for
nothing (`Exempted`, with an answer of their own): any other request is charged to its
caller or refused. `ReceivePart` and `Disconnect` read the body, `Answer` is the application or the
500 of an exception. The refinement maps a bucket to what its caller has spent of
an open window, and a closed or evicted one to a fresh caller, so an eviction that
took an open window away would not be a step of `FixedWindow`.

## 3. What is checked

Exploration is exhaustive; the numbers are distinct states.

| Run | Instance | States | Shows |
|---|---|---|---|
| `pool_safety` | 2 jobs, 2 workers, 1 cancel, queue of 1, 1 storage fault, 1 restart | 2.6 M | custody, durability, life cycle: the properties that stop, crash and two workers endanger, and the refinement of `JobLifecycle` |
| `pool_cancel` | 2 jobs, 1 worker, 2 cancels, queue of 1, 2 storage faults, no restart | 1.1 M | agreement of queue, dictionaries, futures, rows and polled status: the properties that cancels and failing recovery paths endanger |
| `pool_live` | 2 jobs, 1 worker, 1 cancel, queue of 1, 1 restart | 349 k | `WaitersReleased`, `RowsSettle` |
| `idem_submit` | 2 clients × 2 attempts, 2 payloads, 1 fault, 1 crash | 1.0 M | exclusion, at most one execution, agreeing, durable and settling answers; every request answered |
| `exec_run` | 1 job × 2 attempts, thresholds 2, failure count up to 1 for polls, 1 outage, 1 crash, any text on stderr | 1.12 M | no re-execution but for the two excepted ends, own output, nothing left behind, honest verdict, breaker transitions on consecutive outcomes; jobs finish, leaks are reclaimed |
| `images` | server with 1 thread and 2 writers, 1 job type with 2 definitions, every file, TTL 1, clock 0–2, 1 failing save, 4 requests | 2.35 M | `StoreSpec`, cache age, latest version |
| `archive` | 2 executions, 2 servers, 1 migration after the table, TTL 1, workspace age 2, budget 1, 3 attempts, clock 0–3, 4 requests, ends and faults | 2.46 M | migrations, lineage, retention, live workspaces |
| `api_limit` | 5 requests (3 with a key, 1 with a wrong one, 1 exempt), 1 host, limit 2, window 2, clock 0–5, 1 restart | 278 k | `LimiterSpec` |
| `pool_cancel_kill`, `pool_timeout_ran`, `idem_retry_dead`, `exec_reaper_live` | as small as the case allows | – | one disagreement between code and its documentation each (section 5) |

### Why the bounds are enough

* Two jobs and two workers are what it takes for a race for the last queue slot,
  for one worker taking a job while another recovers, and for a stranded thread
  in front of another job. The cancel request may hit either job at any
  moment. One restart lets every state be crashed and reconciled, and lets the new
  process accept the other job.
* `pool_cancel` has two cancel requests because only the second one for a job
  can reach its container (section 5), and a second fault lets the recovery path
  of a failed save fail too. One worker suffices: what two cancels race with is
  the worker of the job.
* `pool_live` needs no second worker: a waiter depends on one worker only. Storage
  faults are excluded there other than those of the closed pool at shutdown; with
  a fault a row may rightly stay in flight until the next start (`faulty`).
* Idempotency: two clients and two attempts give up to four handlers of one key,
  including one that waits while another evicts, and one left over from before a
  client gave up. Two payloads give the 409 branch.
* Execution: two attempts are what it takes for an earlier container to interfere
  with a later attempt; jobs meet only in the breaker and in the reaper. For the
  breaker, health polls stand for the other callers: they record successes and
  failures between any two steps of the job, in every state, with thresholds of
  two, and the theorems of section 4 hold for any number of jobs.
* Images: two definitions of one job type are what a rebuild and a lost update
  need; two writers besides the server give overlapping saves and a tag moved by
  another process. Job types do not meet except in the file, whose map is replaced as a
  whole. With an age limit of one tick and a clock of two an answer can be asked for,
  stored, believed and expire around a rebuild. Four requests are a register, a
  build, a job and one more (an end, a removal, another build).
* Archive: two executions give a parent and its replay; two servers give
  overlapping starts, a start that fails the rows of the other, and
  two sweeps. A lifetime of one tick and a clock of three let a row or a
  directory expire while its replay is in flight. Three attempts of one tick against a
  workspace age of two are attempts that fit into the age limit and one that does not;
  a budget above the age limit, which the code allows as well, would make
  `LiveWorkspaceKept` speak of no attempt, and the theorem covers it.
  Four requests and faults are a submission, a replay and two of: a server start,
  a stop, a retry, a give-up, a failed write, `dev down`. The volume starts with the
  schema of any release, and of a server's start only the decision to start counts
  as one of the four.
* Limits: one host and one key are two buckets; a missing key is treated like a wrong
  one. With a limit of two, the three requests of the key fill its window, are
  refused and open the next; the request with a wrong key opens a window of the host and
  may evict the other; the exempt one comes with the key whose window may be spent. A
  clock of five passes twice the window, which is when buckets are evicted. The theorem
  covers the other setting of `Auth`, several hosts and any assignment of keys.

Symmetry is used only in runs whose properties are safety properties, and each
symmetric set occurs without an order or a distinguished element.
`CHECK_DEADLOCK FALSE` is set in all runs: the system may rest once clients have
nothing to ask, or once the bounded requests are used up.

### Properties, by hazard

* **Several writers, one row, one future**: `ResultIsDurable`, `ResultMatchesRow`,
  `AbortedAfterRow`, `LifecycleSpec` (which implies `TerminalIsFinal`, a theorem).
* **A job changing hands**: `SingleCustody`, `NoStrandedEntry`, `RowBacked`,
  `WaiterServed`, `CancelledBeforeStartNeverRuns`.
* **What clients see**: `ReportedStatusIsFinal`, `AnswersAgree`, `AnswerDurable`,
  `AnswerWillSettle`.
* **Failure paths**: `DeadLettersFailed`, `RecordMatchesRun`, `JobLeavesNothing`.
* **Repetition**: `AtMostOnce`, `LockExclusion`, `NoReexecution`, `OutputIsOwn`.
* **Progress**: `WaitersReleased`, `RowsSettle`, `RequestsAnswered`, `JobsFinish`,
  `LeaksReclaimed`.
* **Breaker**: `OpensAfterConsecutive`, `ClosesAfterConsecutive`.
* **Two clocks, many hands**: `RetainedRowHasFiles` (rows and directories age apart),
  `LineageFaithful` (row and files of a parent are read apart), `LiveWorkspaceKept`.
* **Locks that cover less than they seem to**: `SchemaSound` (released before the
  commit), `StoreSpec` (taken after the read: whole maps, though not the last word of
  everybody).
* **What was true a moment ago**: `CacheHonest`, `LatestVersionIsImage`.
* **Limits at their edges**: `LimiterSpec`.

Some properties carry an exception, each naming something the code cannot know
or does not promise: `faulty` (a storage call for this job raised), `blind` (the
OOM inspection got no answer), `unremoved` (the daemon refused a removal), `lost`
(the CLI lost its daemon, so nobody saw how the container ended), `mover` (another
process moved the tag, or the version of the last build could not be saved). These are
history variables; no guard reads them except to decide what a CLI can observe.
`says` excuses what the classification cannot tell from a failure of Docker.
`LiveWorkspaceKept` speaks of runs whose attempts fit into the age limit: see section 5.

### Fairness

* Pool: coroutines resume, threads run, the database answers, threads' jobs end
  (they have a host timeout), and a process that ended is started again. Not fair:
  clients, faults, the watchdog, crashes, the decision to shut down.
* Submission: handlers that can go on do. Clients and network are free.
* Execution: a thread goes on, because each of its CLI calls has a timeout
  (`HostTimeout` is part of the thread's step); the daemon comes back; the reaper works
  off its list. Strong fairness on `SweepAll` says that an hourly sweep finds
  the daemon up again and again and that an orphan grows old between sweeps – weak
  fairness would not do as the daemon may fail before each. Containers may
  run for ever; kills, polls, time and crashes are free.
* Archive, images and limits have safety properties only, and no fairness.

## 4. What is proved

`tlapm` checks all of it for arbitrary constants satisfying the modules' `ASSUME`s.
No theorem bounds the number of jobs, workers, clients, attempts, faults or
restarts.

| Module | Theorem | Statement |
|---|---|---|
| `WorkerPoolProofs` | `TypeCorrect` | `Spec => []TypeOK` |
| | `DurableResults` | `Spec => []ResultIsDurable` |
| | `Refinement` | `Spec => LifecycleSpec` |
| | `TerminalForever` | `Spec => TerminalIsFinal` |
| `WorkerPoolCustodyProofs` | `JobsInOnePlace` | `Spec => []SingleCustody` |
| | `RowsAreBacked` | `Spec => []RowBacked` |
| | `WaitersAreToldTheRow` | `Spec => []ResultMatchesRow` |
| | `RowBeforeAbort` | `Spec => []AbortedAfterRow` |
| | `DeadLettersAreFailures` | `Spec => []DeadLettersFailed` |
| | `NothingStranded` | `Spec => []NoStrandedEntry` |
| | `WaitersServed` | `Spec => []WaiterServed` |
| | `CancelledNeverRuns` | `Spec => CancelledBeforeStartNeverRuns` |
| | `PolledStatusIsFinal` | `Spec => ReportedStatusIsFinal` |
| `IdempotentSubmitProofs` | `NoDuplicateExecution` | `Spec => []AtMostOnce` |
| | `OneAnswer` | `Spec => []AnswersAgree` |
| | `AnswersStay` | `Spec => []AnswerDurable` |
| | `SubmissionTypes` | `Spec => []TypeOK` |
| | `KeyedLockExcludes` | `Spec => []LockExclusion` |
| | `AnswersSettle` | `Spec => []AnswerWillSettle` |
| `JobExecutionProofs` | `ExecutionTypes` | `Spec => []TypeOK` |
| | `BreakerOpensLate` | `Spec => OpensAfterConsecutive` |
| | `BreakerClosesLate` | `Spec => ClosesAfterConsecutive` |
| | `ExecutedOnce` | `Spec => []NoReexecution` |
| `JobExecutionOutcomeProofs` | `ContainersRemoved` | `Spec => []JobLeavesNothing` |
| | `OutputOfLastAttempt` | `Spec => []OutputIsOwn` |
| | `VerdictIsTrue` | `Spec => []RecordMatchesRun` |
| `JobImagesProofs` | `StoreImplemented` | `Spec => StoreSpec` |
| | `ImageTypes` | `Spec => []TypeOK` |
| | `CachesHonest` | `Spec => []CacheHonest` |
| | `LatestIsImage` | `Spec => []LatestVersionIsImage` |
| `ExecutionArchiveProofs` | `SchemaIsSound` | `Spec => []SchemaSound` |
| | `ArchiveTypes` | `Spec => []TypeOK` |
| | `ReplaysAreFaithful` | `Spec => []LineageFaithful` |
| | `RetainedIsReplayable` | `Spec => []RetainedRowHasFiles` |
| | `RunKeepsWorkspace` | `Spec => []LiveWorkspaceKept` |
| `ApiProtectionProofs` | `FixedWindowKept` | `Spec => LimiterSpec` |

The `ASSUME`s are what the code guarantees: thresholds and bounds are numbers, values
that stand for "nothing" are not values, clients are finitely many. Nothing is assumed
of how the budget of an attempt compares with the age limit of a workspace.

**Pool.** `IInv` adds to `TypeOK` what each program counter has already achieved:
`Recorded` (the row exists exactly from the commit in `submit()` on), `Owned` (what
is queued, or in the hands of a worker, a canceller or the drain, is an accepted
job and so has a row), `Durable` (a worker or canceller whose commit is behind it has
a terminal row, and so has every future with a result), `Down` (no worker coroutine
survives its process). `ResultIsDurable`
alone is not inductive: the step that resolves the future needs to know that the
write *before* it committed, several actions earlier. The refinement needs
`Recorded` and `Owned` so that "mark running" and "save result" meet a row that
exists. The proof goes component by component (`SubmitInv`, `WorkerInv`,
`ThreadInv`, `CancelCallInv`, `CancelInv`, `ProcessInv`).

**Custody.** `CInv` puts three layers on top of `IInv`, each proved from those below.
`Places` is about where a job is: `Custody` is `SingleCustody` with the queue as a set,
`Vacant` ties the jobs of workers and drain to their program counters, `Reached` says that
nothing happens to a job before it is accepted and that a job in hand has a waiter,
`Lost` and `Condemned` that a process that is down has nothing in memory and which tasks
survive `stop()`. `Rows` is about what the row of a job in that place may
say: `OpenRows` and `Saves` give each save of a worker its purpose and its effect, `Told`
gives every difference between row and record an excuse. `Entries` is about the
two dictionaries and the future: `Waiting` for a job in the queue or the drain, `Tracked` and
`Released` for one that a worker has. None of the seven invariants is inductive alone: that a
worker never finds a job it does not know rests on custody, and that a waiter is not
forgotten on what the dictionaries say when the recovery path looks. The two action
properties follow from `CInv` step by step.

**Submission.** `IInv` = `Typed` + `OneHolder` (at most one row has the key, so
what a lookup finds is unique) + `Anchored` (an accepted job and an answered job
are that row; a handler past its insert owns it). It does not mention the lock: uniqueness is
carried by the unique index and by the COALESCE that never gives the key up. The
lock is proved on its own: `Locked` says that the count of waiters is the number of
requests inside `acquire()`, that all of them refer to the lock in the table, and that the
one in the critical section owns it; so a lock is evicted only when nobody refers to it.
This is where the clients must be finitely many. `SInv` joins both with
`Settling`: a row in flight is the business of its handler, of the pool or of a failed call,
and clients know of it only in the latter two cases.

**Execution.** `Typed` is `TypeOK` with `RetryCounted` (a job that cleans up for a retry
has an attempt behind it). `Counted` relates the breaker's counters to the ghost `streak`: in
`closed` the failure count never exceeds it, and in `half_open` a positive
success count means no failure since. `Retriable` says of every job that its
attempts up to the present one are the only ones with containers, that an earlier
attempt ended without a report or in one of the two ways that are taken for a failure of
Docker (`Excused`: 125, or a non-zero exit with the daemon named), and where the present container
stands at each program counter. `ContainersDecay` isolates what daemon, kills and
reaper may do to a container, so that each step of the thread can be treated alone.

**What an execution leaves.** `OInv` adds four things to `Retriable`. `AttemptsSwept`: a
job moves on from an attempt only behind a removal, and `ContainersSettle` says that
nothing but its own docker run brings a container back. `OutputKept`: between two attempts the output may
be anybody's, but once `Clean` has emptied it, whoever writes is the current
attempt or a container that could not be removed. `ResultPhased`: a result is true of its container
(`Truth`) from the moment it is settled; on the way there, the OOM inspection has a killed
process before it, and what is killed on the way out is only what timed out or raised. It stays true
because the cause of an end is never rewritten: docker kill and docker rm change it for
running containers only, which have none. `VerdictGiven` carries it into the record.

**Registry.** A step of a save must replace the file by the map that its process has
in memory, but what `os.replace` installs is the temporary file, written a step
before. `Faithful` says that between the two the temporary file holds the
memory's map; with `Typed` (memory holds a map without the invalid entries a file may
have) it is inductive, and `Elsewhere` disposes of every action of builder, caches
and executor at once.

**Images.** `JInv` adds `Honest` and `Recorded`. `Honest` follows a belief on its way: a
question is not of the future, an answer was true when it was given (`Believable` at the time
of the question, not of the answer), an entry of the cache is such an answer plus its
lifetime; whatever moves a tag ages the beliefs about it and leaves them believable. So a reset that comes too early for
an answer does not matter. `Recorded` tells a build that has moved the tag and
not yet recorded it from one that has: in the first case the tag is what the build is about
to record, in the second what the table has first (`SavedRows`).

**Archive.** The database and the rest are proved apart. `DbInv` adds `Applied` to the
types and `SchemaSound`: the parts a session has passed are committed or its own,
and a session that commits has passed them all. This is what makes the early release
of the lock harmless: the next session waits on a part it finds uncommitted, and
skips it only when committed. `LInv` carries the lineage: an identifier is
employed once (`Employed`, `Unsubmitted`); where the input file of a directory can be
read, input and code are those of the job that owns it (`Kept`), since the code is
written before the input; and so what a replay reads is what its parent ran
(`Descended`). Rows, sweeps and clocks need no invariant beyond their types.

`FInv` adds `FilesOf` for every id. A record that names files has both, in a directory
whose last entry is no older than the record (`Stored`, `Named`), because the record is made
before the directory is touched, and the row has no later time than the record
(`Ordered`); so what the sweep of directories takes belongs to rows that are past their
retention as well, whether their own sweep came by or not. `Fresh`: a run at
its n-th attempt started at most n budgets ago, and its workspace is as old as the run, so
what the sweep takes belongs to no run with `n * Budget <= WsAge`.

**Limits.** `IInv` is the types with "no bucket starts in the future". `Spent` and `Told`
are the refinement mapping. `AllowStep` says that `allow()` with its eviction
leaves every other caller's `Spent` alone: a bucket is evicted at more than twice
the window, when `Spent` has long read as no window. `SpentStep` matches a request that
counts with `Admit` and one over the limit with `Refuse`, both of its own caller, whose
Retry-After is the end of the window. Only a request in `Exempted` maps to `Exempt`.

**Only model-checked**: the liveness properties (`WaitersReleased`, `RowsSettle`,
`RequestsAnswered`, `JobsFinish`, `LeaksReclaimed`), since fairness and `ENABLED` are outside
the prover's reach. Every safety property of a passing run has a theorem.

## 5. Where code and documentation disagree

Each has a run whose counterexample shows it.

1. **The first `cancel()` of a running job does not kill it** (`queue.py:355`,
   `CancelKillsRunning`). A running job is still in `_active_jobs`, so the branch
   for pending jobs takes it: row `cancelled`, future resolved, no kill; the comment
   at `queue.py:365` says a kill is sent. A second cancel does kill.
2. **A job may be recorded as timed out without having started** (`queue.py:672`,
   `TimedOutJobRan`). The watchdog counts from the hand-over to the thread pool; a
   thread stranded by an earlier watchdog keeps its slot.
3. **A refused submission keeps its key** (`storage.py:311`, `RetryNotDead`). The
   second save clears the key, but the upsert's COALESCE keeps it, so the retry that
   the 503 asks for is answered with the dead job.
4. **The hourly reaper may remove the container of a job in progress**
   (`health.py:264`, `ReaperSparesLive`): containers in state `created` have no age guard,
   and a running one may be older than the limit (below).

Observed while modelling, without a run of their own:

* The half-open state admits every caller; `docs/guide/error-handling.md:114`
  speaks of a limited number of probes.
* A missing `docker` command counts against the breaker but the record blames the
  user's code (`worker.py:1575-1584`: the result has no `infra_failure`).
* If the daemon refuses to remove the container of an earlier attempt and that
  container still runs, its `result.json` may be taken for the later attempt's: the
  exception `unremoved` of `OutputIsOwn`.
* `cancel()` and the watchdog name the container of attempt 0, so a job in a
  later attempt is not stopped by them.
* User code that exits with 125, or with any code but 0 after it has written a phrase
  like "cannot connect to the Docker daemon" to stderr, is executed again, counts against
  the breaker and, at the last attempt, is recorded as `service_unavailable`:
  `docker run` is attached, `entrypoint.sh` passes exit code and stderr through, and
  `classify_docker_run_result` takes both for Docker's own failure (`docker.py:916-919`,
  `worker.py:1514-1526`), although `tests/test_worker_errors.py:353` says that non-zero
  exits of user code never retry. Exit codes 124 and 137 with such a phrase are retried
  too but recorded as `timeout` and `oom`, the latter without an inspection, since the
  record looks at the exit code first. `NoReexecution` and `RecordMatchesRun` except exactly
  these ends.
* Output that is not valid UTF-8 raises in `subprocess.run(text=True)` (`worker.py:1504`): a
  run that exited 0 is then recorded as failed.
* The watchdog's budget assumes 30 s where the executor uses
  `config.default_timeout` for a job without a job type.
* The comment at `app.py:300-304` says that no live run is older than the age limit of
  workspaces, max(3600, `max_startup_timeout` + `max_timeout` + 300); the one at
  `app.py:241-249` says it of containers. Neither holds. An attempt takes up to
  `startup_timeout` + `timeout` + 5 (`worker.py:1489`), and the `startup_timeout` of a request
  or a job type (up to 600, `app.py:371`, `config.py:222`) is never compared with
  `max_startup_timeout` (`config.py:478`): with 120 there and a `max_timeout` of 3600, a
  first attempt may take 4205 s against a limit of 4020 s. And the age of a workspace
  counts from the start of the job, while each retry has a budget of its own.
  `LiveWorkspaceKept` holds exactly as far as the attempts so far fit into the limit;
  the reaper of `JobExecution` may find any running container old.
* `pg_advisory_unlock` runs before the transaction of the migrations commits
  (`storage.py:482`): the next start goes on without the lock. The schema stays
  sound (`SchemaSound`), but two starts on an empty database can meet in
  `CREATE TABLE IF NOT EXISTS`, and one of them fails.
* Start-up reconciliation assumes one server, while `cli.py:373` passes `--workers N` to
  uvicorn: each further start fails the rows of jobs that others are running. Each
  process also has a rate limiter and idempotency locks of its own.
* The TTL deletes open rows as well; a job still running inserts its row again
  with a new `created_at`. A database failure in the middle of a sweep skips the disk
  sweeps until the next hour.
* Records saved by `cancel()`, the watchdog and recovery name no files, so those
  executions can never be rerun. `fork` accepts a parent that is still running, but its
  files are named only in its final record. Rerun and fork carry no idempotency
  key. `POST /execute` answers even if its row could not be saved.
* The registry saves the whole map a process loaded earlier, so processes overwrite
  each other's job types (`job_types.py:302`), and an entry that failed
  validation on load is erased by the next save.
* A prebuilt image is run without installing the job type's current requirements
  (`worker.py:1183`), so a changed definition has no effect until it is rebuilt.
  `reset_image_caches` clears the caches of its own process, and an answer asked for
  before a reset may be stored after it (`CacheHonest` bounds its life).
* Building a definition again without a tag erases its tag; two versions may bear
  one tag, and `get_version_by_tag` has no order (`storage.py:1113`).
* The build endpoint runs `docker build` on the event loop.
* The fixed window admits up to twice the limit around a boundary, which is what
  `FixedWindow` says too.
* `_resolve_read_timeout` of the SDK says that it always outlives the job on the
  server; with retries on the server, or a `max_timeout` above 300 s, it does not.

## 6. What is not modelled, and why

* Requirement validation, phase timing, the list of artifacts: choices of `Check`
  and `Begin` or absent; they have no state that other jobs read.
* A second server process in `WorkerPool` and `IdempotentSubmit`: the code keeps locks
  and queue in memory. `ExecutionArchive` has two servers, because rows and files are
  what they share.
* Several threads in one registry: `_save` serialises and writes on the caller's
  thread, and the server never saves.
* The length of Retry-After in fractions of a second, header parsing, and a change of
  the limiter's settings while the server runs (it starts with empty buckets).
* The SDK beyond `submit_code`: `send`, polling and result decoding are one request and
  one response each, without state that outlives them.
* The library sandbox: it repeats the container handling of `_run_container`
  without queue, breaker or record.
* `dev up` by hand: the steps of `EnsureManagedPostgres` and `WaitForPostgres` once more.
* The dead letter queue's retention: its entries are read by operators only.
* Validation, sanitising, schemas, configuration, correlation ids: pure or I/O only.
* The sessions table: nothing in the server calls it.

## 7. Plan

Modelled: the rows, the pool, the submission and the execution first, because
everything else depends on them; then registry and images, database and archive,
and the API protection. Proved: all safety properties that the runs check, and the three
refinements.

What could be added, most valuable first:

1. The safety half of the liveness properties: that a waiter, a handler or a job that
   has not ended always has a next step of its own (for `WaitersReleased`,
   `RequestsAnswered`, `JobsFinish`), stated without `ENABLED`.
2. Action properties that sharpen the refinements: which process may move a tag, which
   sweep may remove a row.
3. A second server process in `IdempotentSubmit`, where only the unique index remains.
