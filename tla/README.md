# App Salmon in TLA+

App Salmon hands out short-lived Postgres and Supabase clusters over HTTP. A
create request stores a row and starts a background task that provisions
containers; a DELETE request, a TTL reaper and a start-up reconciliation pass
take clusters away again. Everything runs in one process over one SQLite table,
but nothing holds a lock from one repository call to the next, so the program is
a set of concurrent activities over shared rows, containers and directories.
This directory models that, checks it with TLC and proves part of it with TLAPS.

## The system and its parts

| Part | State it keeps | Operations | Talks to |
|---|---|---|---|
| Cluster lifecycle (`domain/cluster.rs`) | none: pure | `transition` | called by the service and the spawn task |
| Cluster table (`adapters/sqlite_repository.rs`) | one row per cluster: owner, slot, state, worker | `try_insert_if_under_quota`, `update_state`, `set_worker`, `delete`, reads | every other part; one closure under a mutex per call |
| Cluster service (`service/cluster_service.rs`) | limits | `create`, `request_delete`, `info`, `list` | the table; returns a `DeleteOutcome` its caller must act on |
| HTTP handlers (`http/handlers.rs`) | none | create, DELETE, get, list | the service, the task registry, `tokio::spawn` |
| Task registry (`service/deps.rs`) | a cancellation token per running spawn | `register`, `cancel`, `unregister` | handlers and spawn tasks |
| Spawn task (`service/spawn_task.rs`) | its own copy of the cluster | resolve account, prepare directory, adopt upload, backend spawn, recheck, write the outcome | table, privileged executor, backend |
| Teardown task (`service/teardown_task.rs`) | a copy of the cluster | backend teardown, wipe, delete the row | same |
| TTL reaper (`service/ttl_reaper.rs`) | the list of the current sweep | list, `request_delete` each, start teardowns | table, service |
| Reconciliation (`service/reconciliation.rs`) | the list of the pass | settle each row a stopped process left | table, backend, teardown |
| Backends (`backends/`), container runtime (`adapters/docker_bollard.rs`), health wait | containers, networks (in Docker) | `spawn`, `teardown`, `is_alive` | Docker |
| Privileged executor (`adapters/sudo_exec.rs`), worker accounts | directories of each account, one per slot | prepare, wipe, adopt a staged tree | `sudo` |
| Uploads (`domain/tar_validation.rs`, staging) | a staging directory per account and slot | validate, extract, copy | spawn task |
| Process (`main.rs`, `config.rs`, `auth/`, `telemetry.rs`) | the configuration, the token and account maps | load, validate, build, reconcile, start tasks, bind, serve | builds everything above |
| Log rotation (`service/log_rotation.rs`, `adapters/tokio_filesystem.rs`) | log files and archives | compress and expire by age | shares the directory with the appender |
| Routes and wire format (`http/mod.rs`, `error.rs`) | none | authenticate, answer by state: 200, 410, 404 | the service, on behalf of one client |

### What is hard, and what makes it correct

* *Read, then write.* `request_delete` and the spawn task each read a row in one
  repository call and write it in another. Anything may happen in between.
* *Copies.* A spawn, a teardown and a delete call work on the copy of the row
  they were given; the reaper works through a list made at its start.
* *Who tears down?* Exactly one task must, and never under a live cluster.
* *Slots.* A row's (account, slot) names the directory of the cluster. Two
  clusters must never hold it at once, and what one leaves there meets the next.
* *Partial failure.* Each step may fail; most failures are logged and the next
  step runs all the same.
* *Cancellation.* A dropped future stops at an await: a cancelled spawn, and a
  handler whose client went away.
* *Crashes.* Tasks, tokens and handlers vanish; rows, containers and files stay.
* *What outlives its caller.* A request Docker has received, a blocking task, a
  command `sudo` has started: each goes on when the future that awaited it is
  dropped, while the cluster is torn down and its slot given away.
* *Two writers in one directory.* The log sweep replaces files under an appender
  that does not know of it.

Per component the properties are: the table keeps slots exclusive and quotas
respected; rows follow the lifecycle; a delete is final and is always carried out, by one task; a teardown
removes what there is and touches nothing of anybody else's, and only calls that
nobody awaits any more may do otherwise; a restarted process
settles every row before it serves; every cluster goes in the end. A backend
delivers a whole cluster or fails, and a teardown that reports success leaves
nothing; an upload that reaches a backend is acceptable as a whole; a token and
an account belong to one client; a line of the log is kept until its time is over.
A client hears of its own clusters only, and no answer takes an earlier one back.

## Modules

| Module | Models |
|---|---|
| `ClusterState` | `ClusterState`, `ClusterEvent`, `transition`, and the choice of `DeleteOutcome` |
| `ClusterRepository` | the table (`rows`), as a function from ids to `Cluster` records, and its four writes |
| `SqliteRepository` | how that table is stored: the SQL statements, the JSON documents, the conversions there and back |
| `ClusterService` | all activities over the table; the composition of service, handlers, registry, tasks, reaper, reconciliation, crash and restart |
| `ClusterLifecycle` | the abstract specification: each cluster's phase, and the place it holds alone |
| `ClusterOwnership` | the invariant that says who may touch a cluster, and when |
| `Http` | the clients of the API over `ClusterService`: the four routes and what each client has been told |
| `ContainerSpecs` | what each backend asks of each container |
| `ContainerRuntime` | the Docker daemon as the adapter sees it, with requests whose caller is gone |
| `HealthWait` | the verdict of one look at a container, and how long a wait can last |
| `Backends` | `spawn`, `teardown` and `is_alive` of both backends for one cluster |
| `ClusterBackend` | the abstract specification: what the trait promises the service |
| `TarValidation`, `CreateRequest` | the checks on an archive and on a create request, with what they mean |
| `Uploads` | one directory slot and the clusters that hold it in turn: extraction, copy, wipe, and the jobs that outlive their tasks |
| `Startup` | one process: configuration, accounts, tokens, the stages of `run` |
| `LogRotation` | the log directory, its appender and its sweep |
| `Process` | the composition of the two: processes one after another over one log directory |
| `MCClusterService`, `MCHttp`, `MCProcess`, `MCUploads` | symmetry sets, the configurations and the requests for TLC |
| `ClusterServiceProofs`, `ClusterOwnershipProofs`, `ClusterLifecycleProofs` | theorems about the table and the service, each module building on the one before |
| `HttpProofs` | theorems about what clients are told, and why clusters go |
| `ProcessProofs` | theorems about the log directory, and about the processes over it |
| `UploadsProofs` | theorems about one slot, for archives of any length |
| `BackendsProofs` | theorems about both backends, and that they implement `ClusterBackend` |
| `SqliteRepositoryProofs` | theorems about what is read back from the table, and that it is the table of `ClusterRepository` |

### State of `ClusterService`

| Variable | In the program |
|---|---|
| `rows` | the `clusters` table |
| `due` | rows whose `decommission_at`, or `failed_at` plus grace, has passed: the clock as `due_for_reaping` sees it |
| `used` | ids the generator has handed out |
| `launching` | `create_cluster` between its insert and `launch_spawn` |
| `tokens` | `TaskRegistry`: registered id, and whether its token is cancelled |
| `spawns` | running `spawn_task::run` futures: the task's copy of the cluster, where it stands, whether `do_spawn` succeeded, and the state its recheck saw |
| `deletes` | `request_delete` calls: the copy read, and whether the write is still to come or the outcome is still to be acted on. For the reaper a call that has written is an element of `run_once`'s results |
| `sweep` | what is left of the reaper's list |
| `teardowns` | `teardown_task::teardown` calls and who made them |
| `proc`, `restart` | the process, and what is left of reconciliation's list |
| `containers`, `files` | what Docker and the worker directories hold |
| `late` | Docker requests and commands under `sudo` that nobody waits for any more: their caller was cancelled, timed out or died |
| `faults` | how many faults have occurred (a bound) |

Each action is the code between two awaits that matters to shared state.
`Create` is `create` up to the commit of the insert, `LaunchSpawn` the rest of
the handler. A spawn goes `start` (account resolved, `set_worker`), `prepare`
(`PrepareWorkerDir` and the upload), `create` and `run` (the container's two
requests), `wait` (health), then `recheck` (`get_any`) and `write` (`update_state`). The `select!` in `run` is
biased, so no step of `do_spawn` starts after its token is cancelled; the code
after it ignores the token. `TeardownBackend`, `TeardownWipe` and
`TeardownDelete` are the steps of `teardown`, each with a branch where it fails
and the next one runs all the same. A step that is cancelled (`SpawnCancelled`),
times out (the fault `timeout` of a spawn, `backend` and `exec` of a teardown) or is
cut off by a crash leaves the call it awaited (`Awaited`) in `late`. `LateStep`
carries such a call out, at any time or never: a container is created, which nobody
will start (`orphan`), started or removed; an upload or a wipe goes on for as long
as it likes, the wipe deleting whatever files the directory holds by then.
`DeleteRead`, `DeleteWrite` and
`DeleteDispatch` are `request_delete` and what `delete_cluster` does with its
outcome; `ReaperList`, `ReaperRead`, `DeleteWrite` and `ReaperDispatch` the same
for a sweep. The `Reconcile*` actions are the four branches of
`reconciliation::run`, which awaits each teardown before the next row.

### The clients (`Http`)

`told` is what each client was last told of each cluster, `asked` the clusters
it has asked to be deleted. `Post` and `Deleted` are `Create` and `DeleteDispatch`
with the answer 202; `Delete` is `DeleteRead` behind the owner's lookup
(`Visible`, which is `get_owned`); `Get` and `List` read. Everything else the
service does is `Background`. An answer is told when its row is read or inserted.
A client that has never heard of an id learns nothing from a 404, so `told` then
stays `"nothing"`; after that a 404 says the cluster is gone. `MayFollow` is what
may be said after what; that Ready or Failed may follow Deleting is finding 1.

### The backends (`Backends`)

`containers`, `network` and `config` are what Docker and the disk hold of one
cluster; `call` is the backend call in progress and the request it awaits, and
`answer` what the last call returned. One step is one request with its answer. A
request may fail, or time out in the adapter; a call may be cut short at any
await, by `Cancel` or `Crash`, and the request is then in `late` and may be
carried out at any later time, or never. `orphans` are what late requests made.
`wasHealthy` remembers health checks that succeeded. The wait counts its own
time, in units shorter than a request's timeout. The service calls a backend once
at a time, which is what `OneOwner` of `ClusterOwnership` provides for spawns.
The daemon is external: it is modelled by the requests that are sent and the
answers that `docker_bollard.rs` handles.

### Uploads (`Uploads`)

`staging` and `dir` are the two directories of one slot, each a function from a
path to the cluster whose file it is; `jobs` are blocking tasks (`extract`,
`clean`) and privileged commands (`adopt`, `wipe`) that run, awaited or not.
`phase` is where the task of the present `tenant` is. A job works file by file.
`cut` and `overrun` record which clusters were cut short, and which of them left
a removal running. A Postgres cluster in the same slot has no archive and its
database in `dir`.

### The process (`Process`)

`Startup` has one action per stage of `run`, `Ends` for every way out, and the
two maps built from the configuration. `LogRotation` has the clock, the plain
files, the archives, the day the appender writes to, and the sweep: the entries
it has still to visit, and the file being compressed with the step it is at. A
line is known by its time and counts as written once it has left the
non-blocking writer's buffer; lines still in it when the process crashes are not
considered. A graceful stop lets a running compression finish, which is the same
as finishing it and stopping then.

### Abstractions

* Timestamps, connection details, service kinds and messages are left out. A
  deadline is passed (`due`) or not.
* The worker account follows from the owner, so a row only records whether it is
  known.
* In `ClusterService` a backend is one container: absent, running, exited (also
  before its first start), or made by a late request. `Backends` has every container
  and request of one cluster, `Uploads` every file and job of one slot.
* In `ClusterService` the uploaded tree belongs to the files `SpawnPrepare` writes,
  and a cluster's files are there as a whole or not at all.
* The effect of a repository call and the return of its future are one step,
  except where a dropped handler makes the difference (`CreateDropped`,
  `DeleteDropped`).
* In `ClusterRepository` a row can always be decoded. `EveryRowAlwaysReads` proves
  that of what the program stores; the hazard at ttl_reaper.rs:71 is about rows it
  did not write.
* Timestamps, connection details and kinds, left out elsewhere, are values in
  `SqliteRepository`, which is about what becomes of them in the table.
* A secret stands for its hash. `Backends` leaves out what a container is told
  in its environment but for the containers it dials. `CREATE EXTENSION` has no
  timeout of its own; it is taken to return.

## Runs

The runs do not check for deadlock: once every id is used up and gone, every
process has been started, or every request has been answered, the system
rightly has nothing left to do.

| Run | Instance | Checks | Shows |
|---|---|---|---|
| `Concurrent` | 2 clusters, 1 slot, 2 DELETE requests, reaper, no faults; calls of cancelled spawns carried out late | `TeardownOnlyWhenDeleting`, `NothingOutlivesItsRow` | what holds in every order of races |
| `Faults` | 2 clients, 1 cluster, 2 requests, reaper, any 3 faults | `TypeOK`, `Ownership`, `NoNewsIsUndone`, `RowStepsLegal`, `OnlyForAReason` | what clients see, with failing calls, dropped handlers and crashes, and the invariant behind it (`Ownership` has `TeardownOnlyWhenDeleting` as a conjunct) |
| `System` | 3 clusters, 2 slots, no user DELETE, one exit, crash, or wipe that fails or is cut off | `SlotsExclusive`, `QuotaRespected`, `ReadyIntact`, `DeletingIsHandled`, `ReconcileSettles`, `ImplementsLifecycle` | what the service promises without racing DELETEs |
| `Liveness` | 2 clusters, 1 slot, reaper, any two exits, timeouts or crashes | `EveryClusterGoes` | no cluster and no slot is lost for ever |
| `Serial` | 2 clusters, 1 slot, 1 request, no reaper, one crash or timeout | `ReadyIntact`, `AtMostOneTeardown`, `NothingOutlivesItsRow`, `CancelledSpawnGoes` | DELETEs that do not race each other |
| `Backends` | one cluster of each kind, any 2 faults of 5 kinds, a wait of 2 to 3 units | `TypeOK`, `SpawnedComplete`, `NothingRefused`, `OrphansNeverRun`, `FailureIsHonest`, `CallsReturn`, `ImplementsBackend` | the backends keep the promises of the trait |
| `Uploads` | 3 clusters in one slot, 7 requests (one with an empty archive), any 2 faults | `TypeOK`, `LeftoversAreOfTheCut`, `ReadyIsComplete`, `OnlyAcceptedIsServed`, `SpawnAnswers` | only a cluster that was cut short can leave anything to the next |
| `Process` | 3 processes, 9 configurations, 2 days, 1 failing step | `TypeOK`, `TokenAndAccountAgree`, `ReconciledFirst`, `NoLineLost`, `OpenFileStays`, `SweepIsThorough`, `PanicsAreKnown`, `StartupEnds`, `OldFilesGo` | start-up and the log directory, through crashes |
| `Resurrection` | 1 cluster, 1 request | `DeletingIsFinal` violated | finding 1 |
| `LostTeardown` | 1 cluster, 1 request | `DeletingIsHandled` violated | finding 2 |
| `DoubleTeardown` | 1 cluster, 2 requests | `AtMostOneTeardown` violated | finding 3 |
| `StuckDeleting` | 1 cluster, reaper, one failing repository call | `DeletingGoes` violated | finding 4 |

**Bounds.** `Clusters` bounds the ids ever handed out. Two clusters and one slot
are enough for every interaction between a cluster and the next tenant of its
slot; three clusters and two slots add a neighbour and a reused slot.
`Requests` bounds the DELETE handlers in flight; a request's name is free again
once its handler and the teardown it started are done, so the number of DELETEs
over time is not bounded. Two at once are the least that can race each other, and
each also races the reaper. `MaxFaults` bounds the faults of one behaviour: two
allow a fault and a crash after it, or two crashes. `Faults` has one cluster, which is
enough for what is told of a cluster and of somebody else's, and three faults, so
that a call may fail, and fail again, before a crash. A spawn that fails is not a
fault and is not bounded. The proofs have none of these bounds.

In `Backends` two faults allow a failing spawn and a failing teardown after it; a
cancelled caller is not counted, so there are calls cut short beside them.
`HealthTimeout = 2` with looks of up to one unit and a sleep of one lets the
deadline fall into a look, between two looks and after the last. In `Uploads`
three clusters are the least in which a job of the first can meet the second and
the third still find what was left; an archive of two files can be cut between
them; `MaxU64` is just above the total limit, so that the sum saturates. In
`Process` two days, an archive age of one and a clock of three let a file be
written, archived and its archive deleted; three processes allow two crashes.
`MCProcess` has one configuration per distinction that start-up makes: good, one
name twice, a shared account, a bad hash, an account that is missing or whose
uid does not parse, a zero interval, a time too large in each of the two
places where times are converted, and a reap delay that a `TimeDelta` holds
(`MaxSeconds`) and the calendar does not (`MaxDelay`).

**Fairness** (`Fairness`). Tokio runs every task and handler that is ready: weak
fairness for each cluster's launch, spawn, teardowns and delete calls, for the
reaper and for reconciliation. The clock advances: `BecomesDue`. `Start` is an
assumption about the operator, who starts a process that is down; the repository
ships no supervisor. Nothing makes a client send a request, a
fault occur or an abandoned call be carried out. Health checks end by `health_check_timeout`, which is why a spawn
that waits makes progress, by `SpawnHealthy` or `SpawnFails`. In `Backends` the
call in progress goes on, because Docker or the adapter's own timeout answers
every request; nothing makes a container healthy. In `Uploads` the tenant's task
and the job it awaits go on, an abandoned job need not. In `Process` every stage,
panic over a time and failing resolution, and the sweep, go on; nobody has to start or
stop a process or write a line, and the log need not fail to open nor the reaper meet
a Failed row.

**Mutants.** Each property of a passing run has a slip of the code that breaks
it, an operator named `Bug...` beside the definition it would replace.

## Findings

1. *A deleted cluster comes back* (`Resurrection`). `spawn_task::run` rechecks the
   row and then writes its outcome in a second call. A DELETE between the two is
   overwritten, although DESIGN.md:199-202 calls the race fixed; the window is
   narrower than before, not closed. `RowStepsLegal` shows that this write is the
   only way a row ever leaves Deleting; a client then gets a 410 and later a 200,
   the one case in which `NoNewsIsUndone` lets an answer go back.
2. *A deleted cluster is never torn down* (`LostTeardown`). `request_delete` takes
   its outcome from the state it read, not from the one it replaced. If the spawn
   finishes in between, the row becomes Deleting with a token that is not there
   to be cancelled. The reaper skips Deleting rows and a further DELETE answers
   `AlreadyDeleting`, so the slot is held until a restart.
3. *Two teardowns of one cluster* (`DoubleTeardown`). Two DELETEs, or a DELETE and
   the reaper, read Ready and both get `StartTeardown`. The slower one wipes the
   slot's directory after the faster one has given the slot away, so a new
   cluster may lose its files; this is why `ReadyIntact` is checked where DELETEs
   do not race.
4. *A row stuck in Deleting* (`StuckDeleting`). When the last step of a teardown
   fails, nothing tries again before a restart, contrary to
   teardown_task.rs:10-12. A client that disconnects between the insert and
   `launch_spawn` (handlers.rs:426-431) leaves a Spawning row in the same way.
None of these is for ever. The cluster of finding 1 goes when its TTL has passed; those
of 2 and 4 stay until a restart, whose reconciliation settles them; 3 is over
when both teardowns are, and what the other tenant lost stays lost.
`EveryClusterGoes` and `ReconcileSettles` show that the ways out work.

The later modules show further places where the code and its documentation
differ. The properties hold in the form given, which has the exception in it.

* *A staging directory is not always fresh.* DESIGN.md:905-908 and
  tar_validation.rs:137-139 say that the directory an archive is extracted into is
  fresh and exclusively owned. It is created if it is not there, and a spawn that
  was cancelled, or a removal that failed, leaves files in it which the next
  cluster of the slot copies into its own directory. `LeftoversAreOfTheCut` says
  exactly whose files those can be.
* *A wipe can take the next cluster's files.* `run_as` waits 30 seconds and then drops
  its child, whose `kill_on_drop` kills `sudo` and not the `find -delete` it has
  started, although ports/privileged_exec.rs:71 says that the command was killed. The
  teardown removes the row, the slot goes to the next cluster, and the command deletes
  that cluster's files too; one DELETE is enough, and so is a crash. It is the
  exception in `ReadyIntact` (`WipeLeftRunning`) and in `ReadyIsComplete`: without it
  neither holds.
* *Start-up can panic.* main.rs:336 and 46-48, and config.rs:1-2, say that every
  failure is returned. `rolling::daily` panics when the log file of the day cannot be
  opened (telemetry.rs:58). A TTL, estimate or reap delay too large for a `TimeDelta`
  passes `validate` and panics, after reconciliation has run. The reaper's task panics
  on a `ttl_reaper_interval_secs` of zero, and on a reap delay that leads out of the
  calendar once a sweep meets a Failed row (ttl_reaper.rs:40), while the process goes
  on serving. `PanicsAreKnown` says which panic comes where, and that a process that
  serves does not panic; that the system may not let a thread or the runtime start is
  not modelled.
* *A cluster can leave something behind.* teardown_task.rs:1-2 has a teardown run a
  cluster's resources through to full removal. A request or copy that a cancelled spawn
  was awaiting may be carried out after it, so that a plain DELETE in mid-spawn leaves
  a container that never runs, or files which the next tenant of the slot finds.
  `NothingOutlivesItsRow` says that nothing else is left where removals work.
* *The age at which logs are archived is not configurable.* main.rs:32 fixes it at a
  day and `logging.compress_after_days` is not read. `retention_days = 0` is
  accepted; an archive may then be due before the sweep that made it ends, which is
  why `RotationIsThorough` assumes that it is not zero.

## Proofs

The theorems hold for any clusters, owners, quota, requests, faults and fault
budget (the assumptions are `RepositoryAssumption`: the quota is a
positive number, and `ServiceAssumption`: the constants have their types):

* `TypeCorrect`: `Spec => []TypeOK`. `TypeOK` is inductive. The proof goes by the
  parts it is a conjunction of. For the table, `StepIsTableStep` shows that every
  step of the system changes the table by one of its operations or not at all
  (`TableStep`), and `TableStepOK` that each operation keeps it well formed; for
  the tasks there is one lemma per family of actions.
* `SlotsAlwaysExclusive`: `Spec => []SlotsExclusive`, inductive together with
  `TypeOK`. The one step that matters is the insert: `LowestFreeSlotIsFree` shows
  that a least free slot exists whenever one is free (by well-foundedness), so
  the new row takes a slot no row of its owner has. `TypeOK` is needed because
  a fresh id must not be that of a live row.
* `QuotaAlwaysRespected`, by counting. When slots are exclusive, the slot is an
  injection from an owner's rows into the slots, so there are at most `MaxPerUser`.
* `OwnershipHolds`: `Spec => []Ownership`, inductive together with `TypeOK`, one
  lemma per family of actions. `TeardownOnlyWhenDeleting` alone is not inductive:
  a step that starts a teardown says nothing of the row, and a step that writes a
  row says nothing of the teardowns. `Ownership` supplies what is missing. A
  cluster whose outcome is not yet written has exactly one owner (`OneOwner`), its
  row is Spawning or Deleting, nothing tears it down, and a delete that has read
  it can at most cancel the spawn (`OwnerIsAlone`). Whoever is about to start a
  teardown, a spawn that is cancelled or a call whose outcome says so, has seen
  the row made Deleting (`TeardownsAreEarned`). A fresh id is in nobody's hands
  (`IdsInUse`). Reconciliation has the process to itself and its list is current
  (`ReconcilesAlone`).
* `TeardownsSpareTheLiving` (`Spec => []TeardownOnlyWhenDeleting`) follows at once.
* `RowsStepLegally`: `Spec => RowStepsLegal`. By `Ownership` the write of a spawn
  finds Spawning or Deleting, a removed row was Deleting, and reconciliation writes
  over the state it listed.

Five promises hold only where something does not go wrong, and each theorem has
that as a hypothesis: on `Faults`, `Requests` and `TtlsExpire`, or on what the calls
in progress have read. Everything else may happen, and the runs named here are
instances of the hypotheses on constants.

* `NothingIsLeftBehind`: from `RemovalsWork` (neither a backend nor a wipe fails;
  `Concurrent`, `Serial`), `Spec => []NothingOutlivesItsRow`. The code goes on after
  either failure and deletes the row, so without the hypothesis the property is false.
  The property itself excepts what an abandoned call of the spawn makes after all: a
  container that is created and never started, files while a command of the spawn may
  still run. That a late start cannot make such a container run, and that a late
  command never adds to the files of anybody else, is part of the proof
  (`LateStepClean`, from `Orphans`: nobody builds on a container that was created
  late, and no request to start it is left). What else needs an argument is that
  nobody skips the wipe: `teardown` does so for a copy of the cluster without a
  worker. `AccountsKnown` says that whoever may yet have to wipe files knows the
  account, row and copy alike, and `CopiesAgree` that the copies of one cluster have
  its slot and owner.
* `OneTeardownAtATime` and `ReadyStaysIntact`: `Spec /\ []OneStarter` implies
  `[]AtMostOneTeardown` and `[]ReadyIntact`, with all seven kinds of fault and any
  number of deletes of one cluster. `OneStarter` says that of two calls for the same
  cluster at most one means to start its teardown; finding 3 is what happens without
  it. `OneAtATime` counts each delete call and each teardown of a cluster, with every
  teardown's row still there; `Intact` says that the container and files of a Ready
  cluster, and those a spawn has made, are there and, by exclusive slots, nobody
  else's wipe reaches them, except a wipe of the slot that was cut off. So a Ready
  cluster never loses its container, and its files only to a wipe of its slot that was
  cut off; that no late removal reaches a Ready cluster's container is `LateOrders`: a
  late removal is of a cluster that is Deleting or gone for good. `OneDeleterIsSafe`
  derives the hypothesis where only the reaper deletes, or one user request at a time
  and no reaper (`OneDeleter`: the runs `System` and `Serial`).
* `CurrentReadsStartOneTeardown` and `CurrentReadsAreHandled`: what the delete
  protocol would promise if nothing came between the read and the write of
  `request_delete`. `CallsAreCurrent` says that a call about to write still has the
  outcome that the row as it is would give it. From it follow `OneStarter`, so both
  properties above, and (with `TableWorks` and `ClientsStay`, no handler dropped)
  `[]DeletingIsHandled`, for any number of clients beside the reaper. Findings 2 and 3
  therefore come from that one gap and from nothing else. `Handled` is the invariant:
  a Spawning row has an owner, a Deleting row an owner, a teardown or a call that will
  start one; a spawn task that is about to write has seen Spawning
  (`SeenIsSpawning`), so its write settles the row. Nothing makes the code satisfy
  `CallsAreCurrent`; finding 1 does not depend on it.
* `ReconciliationSettles`: from `TableWorks` (no repository call fails),
  `Spec => ReconcileSettles`. A row that cannot be written stays as it is by the
  code's choice. `Settling`: while the pass runs, each row that is Spawning or
  Deleting is on its list or being torn down. A crash in the middle needs no case of
  its own: the next pass lists again.
* `EveryDeletingIsHandled`: from `TableWorks` and `NoUserDeletes` (`System`),
  `[]DeletingIsHandled`. Findings 2 and 4 are what happens without either. `InHand`
  is the property in a form that follows each row from hand to hand.
* `CurrentLooksImplementLifecycle`: `Spec /\ []LooksAreCurrent` implies
  `ImplementsLifecycle`, the refinement of `ClusterLifecycle`, and `DeletingIsFinal`.
  `LooksAreCurrent` says that a spawn task about to write finds its row Spawning, as
  its recheck did; then no write goes over Deleting, and every change of the table
  (`TableStep`) is a step of the lifecycle. Finding 1 is the gap between that look
  and that write, and the theorem says there is no other way out of the lifecycle,
  whatever users delete and whatever fails.
* `ServiceImplementsLifecycle`: from `NoUserDeletes`, `Spec => ImplementsLifecycle`.
  The invariant `Undisturbed` (an owned cluster is Spawning, and neither the reaper's
  list nor a call of its names it) gives `LooksAreCurrent`.

For the clients, over `HttpSpec`, whose every step is a step of the service or of
nobody:

* `NewsIsNeverUndone`: `HttpSpec => []NoNewsIsUndone`. What was told can follow on
  from the row as it is, and a step moves the row as `RowsStepLegally` allows
  (`FollowsOn`); that is enough but for Ready and Failed, which the spawn's late
  write might change. So `NewsInv` adds that nobody owns a cluster a client was told
  Ready or Failed, which lasts because nobody becomes the owner of an id that was
  handed out (`BuildersAreOld`). `CallsInv` says that a DELETE call is about its
  client's own cluster, which is not Spawning any more once the call has written.
* `NothingGoesWithoutReason`: `HttpSpec => OnlyForAReason`. Three activities write a
  state (`Writers`). What the reaper has on its list or in its calls is not owned, and
  until it is Deleting it stays due (`ReapedInv`): a write would end the deadline, but
  the only write left to such a row is that of Deleting. A request's call is one its
  client asked for (`AskedInv`).

For the log directory (`RotationAssumption`: a file is archived no earlier than a
day after its last line, as main.rs has it; the other constants are numbers):

* `RotationLosesNothing`: `RotationSpec => [](NoLineLost /\ OpenFileStays /\
  RotationTypeOK)`. The inductive invariant `IInv` adds what makes it so: the clock
  is within the present day (`ClockInv`); a file's lines are no younger than its
  mtime and only today's file was written to today (`LogsInv`); an archive is of
  an earlier day, and a complete one says no more than the file it was made from,
  while that is there, and is younger than each of its lines by `CompressAfter`
  (`ArchivesInv`); the file being compressed is of an earlier day, and once it has
  come to be removed its archive is complete and has all of its lines (`SweepInv`).
  `NoLineLost` alone is not inductive: the step that removes a file says nothing
  of its archive.
* `RotationIsThorough`: when `Retention > 0`, `RotationSpec => []SweepIsThorough`.
  The invariant is `Remaining`: what was old when the sweep began is still to come,
  is being compressed, or has failed.

For the processes over it, with any configurations and any files of accounts
(`StartupAssumption`: the constants have their types, and a malformed entry is
none of the good ones):

* `ProcessImplementsRotation`: `Spec => RotationSpec`. `ProcessInv` is the invariant
  of each part and the tie between them: the appender is open exactly in the stages
  from telemetry to the end, and there is no sweep without it. `ProcessLosesNothing`
  and `ProcessIsThorough` are the two theorems above, carried over.
* `ProcessTypes`, `TokensRunTheirAccounts`, `NothingBeforeReconciliation`: `TypeOK`,
  `TokenAndAccountAgree` and `ReconciledFirst` of `Spec`. By `StartupInv` what a
  process knows is a function of its stage and its configuration. Registry and
  account map are built by two loops, in each of which a later entry of one name
  replaces an earlier one; the last entry of a name is the same for both, which
  is a maximum over the indices (`WFMin`).
* `PanicsHaveTheirCauses`: `Spec => PanicsAreKnown`, step by step.

For one slot, with any requests, archives of any length, and any number of tenants
and faults (`UploadsAssumption`: the requests are well typed):

* `UploadsTypes`, `OnlyTheCutLeave`, `ReadyHasItsFiles`, `OnlyTheAcceptableIsServed`:
  the four invariants of the run, from one `IInv`. `JobsInv`: a job is the one its
  task awaits, or of a cluster that was cut short. `FilesInv`: so is a file.
  `CompleteInv`: as long as nobody else's removal runs, what was extracted stays
  staged, what is still to be copied is staged, and what was copied stays.
  `VerdictInv`: a verdict of `ok` is of an acceptable archive.
* The last needs a recursive definition, the total of the sizes, at every length.
  `SumsExist` to `TotalIs` prove by the least counterexample over the number of
  entries, with `WFMin`, that the fold and the running total of the loop agree; an
  induction theorem with an operator as parameter is not needed for that.

For the backends, with any timeouts and any faults:

* `BackendsTypes`, `DeliveredIsWhole`, `RequestsAreInOrder`, `OrphansAreHarmless`,
  `FailuresAreHonest`: the five invariants of the run, from one `Inv`. None of them
  is inductive. `SpawnInv` says which resources are there at each step of a spawn.
  `AnswerInv` says that nothing is late once a cluster is delivered, so that nothing
  can change it behind the caller's back. `OrphanInv` says that at most one request
  that makes something is late, and nothing but a directory is an orphan while it
  is: a late start therefore never finds an orphan to start. `TeardownInv` says
  that behind the present step of a teardown there are only orphans. A wait ends by
  `StepsInv`, which bounds its time at each look and each sleep.
* `BackendsKeepTheirPromise`: `Spec => ImplementsBackend`, one lemma per action. A
  request of a spawn is `Build`, the last `Deliver`; a removal is `Dismantle`, the
  last `TearDown`, and what the daemon does by itself is `Fade` or a stutter.

For the stored table, over `SqliteRepository` and without assumptions on the
constants:

* The lemmas `PostgresReadsBack` up to `ClusterReadsBack` say that the conversions
  are inverse to each other, part by part as the code nests them; of a
  cluster only the sub-second part of its TTL would be lost, and
  `ClusterService::create` is given whole seconds. `TableOK`, that every row is a
  client's and holds a document of the right shape, is then inductive.
* `EveryRowAlwaysReads`: `Spec => []EveryRowReads`. It is why the model of the service
  has no rows that cannot be read. A row from elsewhere would stop every sweep
  (ttl_reaper.rs:71) and every start's reconciliation.
* `CreatedReadsBack` and `UpdatesTouchOneField`: `Spec => CreatedAsGiven` and
  `Spec => OneFieldAtATime`. An update reads, changes and rewrites a whole document,
  and still nothing but its one field of its one row reads differently.
* `TableImplementsRepository`: `Spec => ImplementsRepository`. With `RowsMirrorTable`
  (quota, used and free slots are the same seen from either side) each statement is
  the operation of `ClusterRepository` of its name, so the theorems about the
  service rest on what the code stores.

These four are proved only; no configuration listed here runs `SqliteRepository`,
which has no interleaving of its own: every statement is one atomic step.

What the proofs corrected in the models:

* A `CASE` with overlapping guards is an unordered choice, which TLC resolves in the
  order written and the provers do not. `Verdict` of `HealthWait` and of
  `TarValidation` and `InspectService` had such guards, and translate `match` and
  early returns, which are ordered; they are chains of IF now.
* `OnlyAcceptedIsServed` used to say that a Supabase cluster is served exactly if its
  archive is not the empty sequence. A file without entries is an archive, and
  `validate_and_extract` accepts it; the property speaks of the kind of the cluster
  now, and the run has a request with an empty archive.
* `StartupAssumption` and `UploadsAssumption` now give all of the constants types.

Only model-checked is all liveness, since fairness and ENABLED are out of the
provers' reach: `EveryClusterGoes`, `CancelledSpawnGoes`, `CallsReturn`,
`SpawnAnswers`, `StartupEnds`, `OldFilesGo`; and the four violations, which are
counterexamples. Every safety property that a passing run checks, the refinements
included, is proved; those with a hypothesis are proved for the instances that meet it,
and every passing run that checks one does.

## Not modelled

The text of requests, responses, errors and generated configuration, of the stored
JSON, OpenAPI, identifiers and the generation of secrets hold no state that these
properties depend on. Rows that another program or version wrote into the table
are not modelled.
Errors other than 404 and 410 change nothing a client knows. Two processes at once over one database are not
modelled. File modes in the staging directory are left out, and archives whose
entries have absolute paths, so nothing is said of the permissions
`validate_and_extract` sets. A deadline is passed or not: the overflow of
`ready_at + requested_ttl` (spawn_task.rs:346) for a `max_ttl` beyond the calendar
is listed as a hazard without a property. Cargo files, scripts and the VM tests
hold no program logic.

## Plan

1. (done) `ClusterState`, `ClusterRepository`, `ClusterService`,
   `ClusterLifecycle`, `ClusterOwnership`; their runs; types, slots, quota,
   ownership, row steps and the refinement proved.
2. (done) `Backends` over `ContainerRuntime` and `HealthWait`, with `ClusterBackend`
   as what it implements.
3. (done) `Uploads` with `TarValidation` and `CreateRequest`; `Startup` and
   `LogRotation`, composed in `Process`; the log directory proved; `Http` with its
   theorems; `SqliteRepository` proved to implement `ClusterRepository`.
4. (done) Proofs: `ReconcileSettles`, `DeletingIsHandled`, `AtMostOneTeardown`,
   `ReadyIntact` and `NothingOutlivesItsRow` under their hypotheses; the safety
   properties of `Uploads`, `Process` and `Backends`; `ImplementsBackend`.
5. (done) Weaker hypotheses: the delete protocol's promises from what its calls
   have read (`OneStarter`, `CallsAreCurrent`) and the lifecycle from what a spawn has
   seen (`LooksAreCurrent`), instead of from who may delete.
