--------------------------- MODULE ClusterService ---------------------------
(***************************************************************************)
(* App Salmon's control plane as a set of concurrent activities over one   *)
(* table of clusters: HTTP create and DELETE handlers, one spawn task per  *)
(* created cluster, teardown tasks, the TTL reaper, and the reconciliation *)
(* pass a restarted process runs before it serves.                         *)
(*                                                                         *)
(* An activity in progress is a record that holds the Cluster value the    *)
(* code holds at that point (a copy of a row, which the row may have moved *)
(* on from) and a pc that names the next await.  Each action is the code   *)
(* between two awaits that touch shared state; everything else may happen  *)
(* in between.  A crash drops every activity and keeps the table, the      *)
(* containers and the files.                                               *)
(*                                                                         *)
(* A Docker request or a sudo command whose caller is cancelled, times out *)
(* or dies is not taken back: it may still be carried out at any time.     *)
(***************************************************************************)
EXTENDS ClusterRepository

CONSTANTS Requests,     \* DELETE handlers (with their teardown tasks) in flight
          TtlsExpire,   \* whether deadlines may pass while the system runs
          Faults,       \* the kinds of fault that may occur
          MaxFaults     \* how many faults may occur in one behaviour

FaultKinds == {"db",       \* a repository call returns an error
               "backend",  \* a Docker call of teardown or is_alive fails or times out
               "exec",     \* the wipe of a worker directory fails or times out
               "timeout",  \* a Docker call or command of a spawn times out
               "drop",     \* a client disconnects: its handler is dropped
               "exit",     \* a running container exits by itself
               "crash"}    \* the process stops (killed, or main returns)

(* The initiators of a teardown: a DELETE handler, the reaper's sweep, a   *)
(* spawn task (inline) or reconciliation (inline).                         *)
System == {"reaper", "spawn", "reconcile"}

ASSUME ServiceAssumption ==
  /\ TtlsExpire \in BOOLEAN
  /\ Faults \subseteq FaultKinds
  /\ MaxFaults \in Nat
  /\ Requests \cap System = {}

VARIABLES
  used,        \* ids handed out so far
  due,         \* live clusters past decommission_at, or failed_at + grace
  launching,   \* create handlers between their insert and launch_spawn
  tokens,      \* TaskRegistry: registered id -> its token is cancelled
  spawns,      \* running spawn_task::run tasks
  deletes,     \* request_delete calls in progress, or done and not acted on
  sweep,       \* ids the reaper listed as due and has not looked at yet
  teardowns,   \* teardown_task::teardown calls in progress
  proc,        \* "down", "reconciling" or "serving"
  restart,     \* rows reconciliation listed and has not handled yet
  containers,  \* each cluster's backend resource, as Docker reports it
  files,       \* whose files lie in which worker slot directory
  late,        \* Docker requests and sudo commands whose caller is gone
  faults       \* how many faults have occurred

table    == <<rows, due>>
tasks    == <<launching, tokens, spawns, deletes, sweep, teardowns>>
process  == <<proc, restart>>
external == <<containers, files, late>>
vars     == <<table, used, tasks, process, external, faults>>

SpawnPcs == {"start", "prepare", "create", "run", "wait",   \* inside do_spawn
             "recheck", "write", "teardown", "finish"}
DoSpawn  == {"start", "prepare", "create", "run", "wait"}

SpawnTask  == [cluster : Cluster, pc : SpawnPcs, ok : BOOLEAN, seen : ClusterStates]
DeleteCall == [by : Requests \cup {"reaper"}, cluster : Cluster, pc : {"write", "dispatch"}]
Teardown   == [by : Requests \cup System, cluster : Cluster, pc : {"backend", "wipe", "delete"}]
File       == [id : Clusters, owner : Owners, slot : Slots]

(* What Docker and sudo are asked to do, by the step that awaits it:       *)
(* prepare and wipe are commands that run under sudo, create, run (start)  *)
(* and backend (remove) are requests to the Docker daemon.                 *)
Outside  == {"prepare", "create", "run", "backend", "wipe"}
Order    == [op : Outside, cluster : Cluster]

Fault(kind) == kind \in Faults /\ faults < MaxFaults /\ faults' = faults + 1
NoFault     == UNCHANGED faults

Remove(S, x)     == S \ {x}
Replace(S, x, y) == (S \ {x}) \cup {y}
Advance(S, x, p) == Replace(S, x, [x EXCEPT !.pc = p])
-----------------------------------------------------------------------------
(* Helpers: the parts of an action that several handlers share.            *)

(* Replacing a row's state also replaces the timestamps in it, so a        *)
(* deadline that had passed is no longer the row's deadline.               *)
WriteState(c, s) == UpdateState(c, s) /\ due' = due \ {c}

IsCancelled(c) == c \in DOMAIN tokens /\ tokens[c]

StartTeardown(by, x) ==
  [by |-> by, cluster |-> [x EXCEPT !.state = "Deleting"], pc |-> "backend"]

(* Slip: the wipe takes the account's directory, not the slot's.           *)
BugWipesAccount(x) == {f \in files : f.owner = x.owner}

(* The worker's directory for a cluster: one per (account, slot).          *)
FilesAt(x) == {f \in files : f.owner = x.owner /\ f.slot = x.slot}
FileOf(x)  == [id |-> x.id, owner |-> x.owner, slot |-> x.slot]

Mine(by) == {d \in deletes : d.by = by}

(* What a task that stops waiting leaves behind: dropping the future of a  *)
(* Docker call does not take the request back, and killing sudo does not   *)
(* kill the command that runs under it.                                    *)
Awaited(task) ==
  {q \in {[op |-> task.pc, cluster |-> task.cluster]} : q.op \in Outside}
-----------------------------------------------------------------------------
(* POST /clusters                                                          *)

Create(c, o) ==
  /\ proc = "serving"
  /\ c \notin used
  /\ TryInsert(c, o)
  /\ used' = used \cup {c}
  /\ launching' = launching \cup {NewCluster(c, o)}
  /\ UNCHANGED <<due, tokens, spawns, deletes, sweep, teardowns, process, external, faults>>

NewSpawn(x) == [cluster |-> x, pc |-> "start", ok |-> TRUE, seen |-> "Spawning"]

LaunchSpawn(x) ==
  /\ launching' = Remove(launching, x)
  /\ tokens' = [c \in DOMAIN tokens \cup {x.id} |-> IF c = x.id THEN FALSE ELSE tokens[c]]
  /\ spawns' = spawns \cup {NewSpawn(x)}
  /\ UNCHANGED <<table, used, deletes, sweep, teardowns, process, external, faults>>

(* The client disconnects while the insert is awaited: the row is written, *)
(* and nothing will ever spawn it.                                         *)
CreateDropped(x) ==
  /\ Fault("drop")
  /\ launching' = Remove(launching, x)
  /\ UNCHANGED <<table, used, tokens, spawns, deletes, sweep, teardowns, process, external>>
-----------------------------------------------------------------------------
(* spawn_task::run.  The select! is biased: a poll of the task looks at    *)
(* the token first, so no step of do_spawn starts once it is cancelled.    *)

Running(s, pc) == s.pc = pc /\ ~IsCancelled(s.cluster.id)

(* Slip: the resolved account is stored in the row and not in the task.    *)
BugTaskForgetsWorker(s) == s

WithWorker(s) == [s EXCEPT !.cluster.worker = TRUE]
Failing(s)    == [s EXCEPT !.ok = FALSE, !.pc = "recheck"]

(* cluster.worker is set before set_worker is called, so the task knows    *)
(* its account even when the call fails.                                   *)
SpawnSetWorker(s) ==
  /\ Running(s, "start")
  /\ \/ /\ SetWorker(s.cluster.id)
        /\ spawns' = Replace(spawns, s, [WithWorker(s) EXCEPT !.pc = "prepare"])
        /\ NoFault
     \/ /\ s.cluster.id \in Live => Fault("db")
        /\ s.cluster.id \notin Live => NoFault
        /\ spawns' = Replace(spawns, s, Failing(WithWorker(s)))
        /\ UNCHANGED rows
  /\ UNCHANGED <<due, used, launching, tokens, deletes, sweep, teardowns, process, external>>

(* PrepareWorkerDir for the slot directory, then the uploaded tree.        *)
SpawnPrepare(s) ==
  /\ Running(s, "prepare")
  /\ files' = files \cup {FileOf(s.cluster)}
  /\ spawns' = Advance(spawns, s, "create")
  /\ UNCHANGED <<table, used, launching, tokens, deletes, sweep, teardowns,
                 process, containers, late, faults>>

(* create_and_start: a request that creates the container, which is not    *)
(* running yet, and one that starts it.                                    *)
SpawnCreate(s) ==
  /\ Running(s, "create")
  /\ containers' = [containers EXCEPT ![s.cluster.id] = "exited"]
  /\ spawns' = Advance(spawns, s, "run")
  /\ UNCHANGED <<table, used, launching, tokens, deletes, sweep, teardowns,
                 process, files, late, faults>>

SpawnStart(s) ==
  /\ Running(s, "run")
  /\ containers' = [containers EXCEPT ![s.cluster.id] = "running"]
  /\ spawns' = Advance(spawns, s, "wait")
  /\ UNCHANGED <<table, used, launching, tokens, deletes, sweep, teardowns,
                 process, files, late, faults>>

SpawnHealthy(s) ==
  /\ Running(s, "wait")
  /\ containers[s.cluster.id] = "running"
  /\ spawns' = Advance(spawns, s, "recheck")
  /\ UNCHANGED <<table, used, launching, tokens, deletes, sweep, teardowns, process, external, faults>>

(* Any step of do_spawn may return an error: no account, a directory that  *)
(* cannot be prepared, a rejected upload, a Docker error, an unhealthy     *)
(* container; or a call that took too long, which is then left behind.     *)
SpawnFails(s) ==
  /\ \E pc \in DoSpawn : Running(s, pc)
  /\ spawns' = Replace(spawns, s, Failing(s))
  /\ \/ NoFault /\ UNCHANGED late
     \/ Fault("timeout") /\ late' = late \cup Awaited(s)
  /\ UNCHANGED <<table, used, launching, tokens, deletes, sweep, teardowns, process, containers, files>>

(* Slip: a cancelled or overtaken spawn returns without cleaning up.       *)
BugNoInlineTeardown(s) == spawns' = Advance(spawns, s, "finish") /\ UNCHANGED teardowns

TeardownInline(s) ==
  /\ spawns' = Advance(spawns, s, "teardown")
  /\ teardowns' = teardowns \cup {StartTeardown("spawn", s.cluster)}

(* select! drops do_spawn, and with it the call it awaits.                 *)
SpawnCancelled(s) ==
  /\ s.pc \in DoSpawn
  /\ IsCancelled(s.cluster.id)
  /\ TeardownInline(s)
  /\ late' = late \cup Awaited(s)
  /\ UNCHANGED <<table, used, launching, tokens, deletes, sweep, process, containers, files, faults>>

(* get_any after do_spawn: the row as it is now decides.                   *)
SpawnRecheck(s) ==
  LET c == s.cluster.id IN
  /\ s.pc = "recheck"
  /\ \/ /\ c \notin Live \/ rows[c].state = "Deleting"
        /\ TeardownInline(s)
        /\ NoFault
     \/ /\ c \in Live /\ rows[c].state # "Deleting"
        /\ spawns' = Replace(spawns, s, [s EXCEPT !.pc = "write", !.seen = rows[c].state])
        /\ NoFault
        /\ UNCHANGED teardowns
     \/ /\ Fault("db")
        /\ spawns' = Replace(spawns, s, [s EXCEPT !.pc = "write", !.seen = s.cluster.state])
        /\ UNCHANGED teardowns
  /\ UNCHANGED <<table, used, launching, tokens, deletes, sweep, process, external>>

SpawnEvent(s) == IF s.ok THEN "SpawnSucceeded" ELSE "SpawnFailed"

(* update_state with the outcome, computed from the state seen at the      *)
(* recheck and written over whatever the row holds by now.  An error or an *)
(* inapplicable event is only logged.                                      *)
SpawnWrite(s) ==
  LET c == s.cluster.id
      canWrite == Applies(s.seen, SpawnEvent(s)) /\ c \in Live IN
  /\ s.pc = "write"
  /\ \/ canWrite /\ WriteState(c, Transition(SpawnEvent(s))) /\ NoFault
     \/ ~canWrite /\ NoFault /\ UNCHANGED table
     \/ canWrite /\ Fault("db") /\ UNCHANGED table
  /\ spawns' = Advance(spawns, s, "finish")
  /\ UNCHANGED <<used, launching, tokens, deletes, sweep, teardowns, process, external>>

(* The wrapper in launch_spawn drops the token once run has returned.      *)
SpawnFinish(s) ==
  /\ \/ s.pc = "finish"
     \/ /\ s.pc = "teardown"
        /\ ~\E t \in teardowns : t.by = "spawn" /\ t.cluster.id = s.cluster.id
  /\ spawns' = Remove(spawns, s)
  /\ tokens' = [c \in DOMAIN tokens \ {s.cluster.id} |-> tokens[c]]
  /\ UNCHANGED <<table, used, launching, deletes, sweep, teardowns, process, external, faults>>
-----------------------------------------------------------------------------
(* teardown_task::teardown: backend, wipe, delete the row, each going on   *)
(* when the step before it failed or took too long, in which case what it  *)
(* asked for may still be done.                                            *)

TeardownBackend(t) ==
  /\ t.pc = "backend"
  /\ \/ /\ containers' = [containers EXCEPT ![t.cluster.id] = "absent"]
        /\ UNCHANGED late
        /\ NoFault
     \/ /\ Fault("backend")
        /\ late' \in {late, late \cup Awaited(t)}
        /\ UNCHANGED containers
  /\ teardowns' = Advance(teardowns, t, IF t.cluster.worker THEN "wipe" ELSE "delete")
  /\ UNCHANGED <<table, used, launching, tokens, spawns, deletes, sweep, process, files>>

TeardownWipe(t) ==
  /\ t.pc = "wipe"
  /\ \/ files' = files \ FilesAt(t.cluster) /\ UNCHANGED late /\ NoFault
     \/ /\ Fault("exec")
        /\ late' \in {late, late \cup Awaited(t)}
        /\ UNCHANGED files
  /\ teardowns' = Advance(teardowns, t, "delete")
  /\ UNCHANGED <<table, used, launching, tokens, spawns, deletes, sweep, process, containers>>

TeardownDelete(t) ==
  /\ t.pc = "delete"
  /\ \/ DeleteRow(t.cluster.id) /\ due' = due \ {t.cluster.id} /\ NoFault
     \/ Fault("db") /\ UNCHANGED table
  /\ teardowns' = Remove(teardowns, t)
  /\ UNCHANGED <<used, launching, tokens, spawns, deletes, sweep, process, external>>
-----------------------------------------------------------------------------
(* ClusterService::request_delete, called by DELETE handlers and by the    *)
(* reaper: read the row, then write Deleting, then act on what was read.   *)

Call(by, c) == [by |-> by, cluster |-> rows[c], pc |-> "write"]

(* A read that finds no row, or fails, answers 404 or 500 and changes      *)
(* nothing.                                                                *)
DeleteRead(r, c) ==
  /\ proc = "serving"
  /\ Mine(r) = {}
  /\ ~\E t \in teardowns : t.by = r
  /\ c \in Live
  /\ deletes' = deletes \cup {Call(r, c)}
  /\ UNCHANGED <<table, used, launching, tokens, spawns, sweep, teardowns, process, external, faults>>

(* Slip: a failed write is logged, and the outcome is acted on.            *)
BugActsOnFailedWrite(d) ==
  /\ d.pc = "write"
  /\ \/ WriteState(d.cluster.id, Transition("DeleteRequested")) /\ NoFault
     \/ Fault("db") /\ UNCHANGED table
  /\ deletes' = Advance(deletes, d, "dispatch")
  /\ UNCHANGED <<used, launching, tokens, spawns, sweep, teardowns, process, external>>

(* For the reaper a call that is written is an element of run_once's       *)
(* results; a failed write ends the call with an error.                    *)
DeleteWrite(d) ==
  LET c == d.cluster.id IN
  /\ d.pc = "write"
  /\ \/ /\ WriteState(c, Transition("DeleteRequested"))
        /\ deletes' = Advance(deletes, d, "dispatch")
        /\ NoFault
     \/ /\ c \in Live => Fault("db")
        /\ c \notin Live => NoFault
        /\ deletes' = Remove(deletes, d)
        /\ UNCHANGED table
  /\ UNCHANGED <<used, launching, tokens, spawns, sweep, teardowns, process, external>>

Cancel(c) ==
  tokens' = IF c \in DOMAIN tokens THEN [tokens EXCEPT ![c] = TRUE] ELSE tokens

DeleteDispatch(d) ==
  /\ d.pc = "dispatch"
  /\ d.by \in Requests
  /\ deletes' = Remove(deletes, d)
  /\ \/ /\ DeleteOutcome(d.cluster.state) = "CancelSpawn"
        /\ Cancel(d.cluster.id)
        /\ UNCHANGED teardowns
     \/ /\ DeleteOutcome(d.cluster.state) = "StartTeardown"
        /\ teardowns' = teardowns \cup {StartTeardown(d.by, d.cluster)}
        /\ UNCHANGED tokens
     \/ /\ DeleteOutcome(d.cluster.state) = "AlreadyDeleting"
        /\ UNCHANGED <<tokens, teardowns>>
  /\ UNCHANGED <<table, used, launching, spawns, sweep, process, external, faults>>

(* The client disconnects while the write is awaited: the row is Deleting, *)
(* and nothing acts on it.                                                 *)
DeleteDropped(d) ==
  /\ d.pc = "dispatch"
  /\ d.by \in Requests
  /\ Fault("drop")
  /\ deletes' = Remove(deletes, d)
  /\ UNCHANGED <<table, used, launching, tokens, spawns, sweep, teardowns, process, external>>
-----------------------------------------------------------------------------
(* ttl_reaper: list the due rows, request_delete one after the other, then *)
(* start the teardowns of the whole sweep.                                 *)

(* The clock reaches the deadline of a Ready or Failed row.                *)
BecomesDue(c) ==
  /\ TtlsExpire
  /\ c \in Live \ due
  /\ rows[c].state \in {"Ready", "Failed"}
  /\ due' = due \cup {c}
  /\ UNCHANGED <<rows, used, tasks, process, external, faults>>

ReaperList ==
  /\ proc = "serving"
  /\ sweep = {} /\ Mine("reaper") = {}
  /\ due # {}
  /\ sweep' = due
  /\ UNCHANGED <<table, used, launching, tokens, spawns, deletes, teardowns, process, external, faults>>

ReaperRead(c) ==
  /\ c \in sweep
  /\ \A d \in Mine("reaper") : d.pc = "dispatch"
  /\ sweep' = Remove(sweep, c)
  /\ \/ c \in Live /\ deletes' = deletes \cup {Call("reaper", c)} /\ NoFault
     \/ c \notin Live /\ UNCHANGED deletes /\ NoFault
     \/ c \in Live /\ Fault("db") /\ UNCHANGED deletes
  /\ UNCHANGED <<table, used, launching, tokens, spawns, teardowns, process, external>>

(* CancelSpawn and AlreadyDeleting outcomes are ignored.                   *)
ReaperDispatch ==
  LET mine == Mine("reaper") IN
  /\ sweep = {} /\ mine # {}
  /\ \A d \in mine : d.pc = "dispatch"
  /\ deletes' = deletes \ mine
  /\ teardowns' = teardowns \cup
       {StartTeardown("reaper", d.cluster) :
          d \in {e \in mine : DeleteOutcome(e.cluster.state) = "StartTeardown"}}
  /\ UNCHANGED <<table, used, launching, tokens, spawns, sweep, process, external, faults>>
-----------------------------------------------------------------------------
(* Crash, restart and reconciliation::run, which handles one row at a time *)
(* and has the process to itself.                                          *)

Crash ==
  /\ proc # "down"
  /\ Fault("crash")
  /\ proc' = "down"
  /\ launching' = {} /\ tokens' = << >> /\ spawns' = {} /\ deletes' = {}
  /\ sweep' = {} /\ teardowns' = {} /\ restart' = {}
  /\ late' = late \cup UNION {Awaited(task) : task \in spawns \cup teardowns}
  /\ UNCHANGED <<table, used, containers, files>>

(* A failed list_all ends the pass: the process serves what it found.      *)
Start ==
  /\ proc = "down"
  /\ \/ /\ proc' = "reconciling"
        /\ restart' = ListAll
        /\ NoFault
     \/ /\ Fault("db")
        /\ proc' = "serving"
        /\ UNCHANGED restart
  /\ UNCHANGED <<table, used, tasks, external>>

Reconciling(x, state) == x.state = state /\ teardowns = {} /\ restart' = Remove(restart, x)

(* Slip: a stale Spawning row is torn down without being marked Deleting.  *)
BugReconcileSkipsMark(x) ==
  /\ Reconciling(x, "Spawning")
  /\ teardowns' = {StartTeardown("reconcile", x)}
  /\ UNCHANGED <<table, used, launching, tokens, spawns, deletes, sweep, proc, external, faults>>

(* Slip: a stale Spawning row is marked Deleting and left at that.         *)
BugReconcileOnlyMarks(x) ==
  /\ Reconciling(x, "Spawning")
  /\ WriteState(x.id, "Deleting")
  /\ UNCHANGED <<used, tasks, proc, external, faults>>

ReconcileSpawning(x) ==
  /\ Reconciling(x, "Spawning")
  /\ \/ /\ WriteState(x.id, "Deleting")
        /\ teardowns' = {StartTeardown("reconcile", x)}
        /\ NoFault
     \/ Fault("db") /\ UNCHANGED <<table, teardowns>>
  /\ UNCHANGED <<used, launching, tokens, spawns, deletes, sweep, proc, external>>

(* Slip: a lost cluster is resumed as Spawning instead of given up.        *)
BugReconcileResumes(x) ==
  /\ Reconciling(x, "Ready")
  /\ IF containers[x.id] = "running" THEN UNCHANGED table ELSE WriteState(x.id, "Spawning")
  /\ UNCHANGED <<used, tasks, proc, external, faults>>

ReconcileReady(x) ==
  /\ Reconciling(x, "Ready")
  /\ \/ containers[x.id] = "running" /\ NoFault /\ UNCHANGED table
     \/ containers[x.id] # "running" /\ WriteState(x.id, "Failed") /\ NoFault
     \/ Fault("backend") /\ UNCHANGED table
     \/ containers[x.id] # "running" /\ Fault("db") /\ UNCHANGED table
  /\ UNCHANGED <<used, tasks, proc, external>>

(* Slip: a row that is Deleting is taken for somebody else's work.         *)
BugReconcileSkipsDeleting(x) ==
  /\ Reconciling(x, "Deleting")
  /\ UNCHANGED <<table, used, tasks, proc, external, faults>>

ReconcileDeleting(x) ==
  /\ Reconciling(x, "Deleting")
  /\ teardowns' = {StartTeardown("reconcile", x)}
  /\ UNCHANGED <<table, used, launching, tokens, spawns, deletes, sweep, proc, external, faults>>

ReconcileFailed(x) ==
  /\ Reconciling(x, "Failed")
  /\ UNCHANGED <<table, used, tasks, proc, external, faults>>

(* Slip: reconciliation starts its teardowns and does not await them.      *)
BugServeAtOnce ==
  /\ proc = "reconciling"
  /\ restart = {}
  /\ proc' = "serving"
  /\ UNCHANGED <<table, used, tasks, restart, external, faults>>

StartServing ==
  /\ proc = "reconciling"
  /\ restart = {} /\ teardowns = {}
  /\ proc' = "serving"
  /\ UNCHANGED <<table, used, tasks, restart, external, faults>>

ContainerExits(c) ==
  /\ Fault("exit")
  /\ containers[c] = "running"
  /\ containers' = [containers EXCEPT ![c] = "exited"]
  /\ UNCHANGED <<table, used, tasks, process, files, late>>
-----------------------------------------------------------------------------
(* Orders nobody waits for any more.  Docker refuses to start a container  *)
(* that is gone; one that is created after all has no task to start it.  A *)
(* command may work for any time: nobody learns of its end.                *)

LateCreate(q) ==
  /\ q.op = "create" /\ containers[q.cluster.id] = "absent"
  /\ containers' = [containers EXCEPT ![q.cluster.id] = "orphan"]
  /\ late' = Remove(late, q)
  /\ UNCHANGED files

LateRun(q) ==
  /\ q.op = "run" /\ containers[q.cluster.id] # "absent"
  /\ containers' = [containers EXCEPT ![q.cluster.id] = "running"]
  /\ late' = Remove(late, q)
  /\ UNCHANGED files

LateRemove(q) ==
  /\ q.op = "backend"
  /\ containers' = [containers EXCEPT ![q.cluster.id] = "absent"]
  /\ late' = Remove(late, q)
  /\ UNCHANGED files

LatePrepare(q) ==
  /\ q.op = "prepare"
  /\ files' = files \cup {FileOf(q.cluster)}
  /\ UNCHANGED <<containers, late>>

(* A removal deletes what it finds, the next tenant's files included.      *)
LateWipe(q) ==
  /\ q.op = "wipe"
  /\ \E f \in FilesAt(q.cluster) : files' = Remove(files, f)
  /\ UNCHANGED <<containers, late>>

LateStep(q) ==
  /\ LateCreate(q) \/ LateRun(q) \/ LateRemove(q) \/ LatePrepare(q) \/ LateWipe(q)
  /\ UNCHANGED <<table, used, tasks, process, faults>>
-----------------------------------------------------------------------------
Init ==
  /\ rows = << >> /\ used = {} /\ due = {}
  /\ launching = {} /\ tokens = << >> /\ spawns = {} /\ deletes = {}
  /\ sweep = {} /\ teardowns = {}
  /\ proc = "down" /\ restart = {}
  /\ containers = [c \in Clusters |-> "absent"]
  /\ files = {} /\ late = {}
  /\ faults = 0

SpawnStep(s) ==
  \/ SpawnSetWorker(s) \/ SpawnPrepare(s) \/ SpawnCreate(s) \/ SpawnStart(s)
  \/ SpawnHealthy(s) \/ SpawnFails(s) \/ SpawnCancelled(s)
  \/ SpawnRecheck(s) \/ SpawnWrite(s) \/ SpawnFinish(s)

TeardownStep(t) == TeardownBackend(t) \/ TeardownWipe(t) \/ TeardownDelete(t)

ReaperStep == ReaperList \/ (\E c \in sweep : ReaperRead(c)) \/ ReaperDispatch

ReconcileStep ==
  \/ \E x \in restart : \/ ReconcileSpawning(x) \/ ReconcileReady(x)
                        \/ ReconcileDeleting(x) \/ ReconcileFailed(x)
  \/ StartServing

(* What the system does besides taking a request and answering a DELETE.   *)
Background ==
  \/ \E x \in launching : LaunchSpawn(x) \/ CreateDropped(x)
  \/ \E s \in spawns : SpawnStep(s)
  \/ \E t \in teardowns : TeardownStep(t)
  \/ \E d \in deletes : DeleteWrite(d) \/ DeleteDropped(d)
  \/ \E c \in Clusters : BecomesDue(c) \/ ContainerExits(c)
  \/ \E q \in late : LateStep(q)
  \/ ReaperStep
  \/ Crash \/ Start \/ ReconcileStep

Next ==
  \/ \E c \in Clusters, o \in Owners : Create(c, o)
  \/ \E r \in Requests, c \in Clusters : DeleteRead(r, c)
  \/ \E d \in deletes : DeleteDispatch(d)
  \/ Background

Spec == Init /\ [][Next]_vars

(* Tokio polls every task and handler that is ready, the clock advances,   *)
(* and an operator starts a process that is down.  Nothing makes a client  *)
(* send a request, a fault occur or an abandoned call be carried out.      *)
Fairness ==
  /\ \A c \in Clusters :
       /\ WF_vars(\E x \in launching : x.id = c /\ LaunchSpawn(x))
       /\ WF_vars(\E s \in spawns : s.cluster.id = c /\ SpawnStep(s))
       /\ WF_vars(\E t \in teardowns : t.cluster.id = c /\ TeardownStep(t))
       /\ WF_vars(\E d \in deletes : d.cluster.id = c /\ (DeleteWrite(d) \/ DeleteDispatch(d)))
       /\ WF_vars(BecomesDue(c))
  /\ WF_vars(ReaperStep)
  /\ WF_vars(Start)
  /\ WF_vars(ReconcileStep)

FairSpec == Spec /\ Fairness
-----------------------------------------------------------------------------
TableOK ==
  /\ RowsOK
  /\ used \subseteq Clusters /\ Live \subseteq used
  /\ due \subseteq Live /\ \A c \in due : rows[c].state \in {"Ready", "Failed"}

TasksOK ==
  /\ launching \subseteq Cluster
  /\ DOMAIN tokens \subseteq Clusters /\ tokens \in [DOMAIN tokens -> BOOLEAN]
  /\ spawns \subseteq SpawnTask
  /\ deletes \subseteq DeleteCall
  /\ sweep \subseteq Clusters
  /\ teardowns \subseteq Teardown

ProcessOK ==
  /\ proc \in {"down", "reconciling", "serving"}
  /\ restart \subseteq Cluster

ExternalOK ==
  /\ containers \in [Clusters -> {"absent", "running", "exited", "orphan"}]
  /\ files \subseteq File
  /\ late \subseteq Order
  /\ faults \in 0 .. MaxFaults

(* Every variable keeps its type; every row's id has been handed out, and  *)
(* only rows with a deadline, Ready or Failed ones, are due.               *)
TypeOK == TableOK /\ TasksOK /\ ProcessOK /\ ExternalOK
-----------------------------------------------------------------------------
(* A teardown only ever works on a row that is Deleting or already gone:   *)
(* nothing is torn down under a cluster that clients are told is Spawning, *)
(* Ready or Failed (cluster_service.rs:41-42, teardown_task.rs:1-8).       *)
TeardownOnlyWhenDeleting ==
  \A t \in teardowns : t.cluster.id \in Live => rows[t.cluster.id].state = "Deleting"

(* No two activities tear the same cluster down at the same time           *)
(* (cluster_service.rs:36-37, spawn_task.rs module docs).                  *)
AtMostOneTeardown ==
  \A t, u \in teardowns : t.cluster.id = u.cluster.id => t = u

(* While a row is Deleting and the process serves, something will finish   *)
(* the job: a teardown, a create handler or spawn task that will still     *)
(* look at the row, or a request_delete call whose outcome is to start a   *)
(* teardown (cluster_service.rs:43 and 54).                                *)
WillTearDown(c) ==
  \/ \E t \in teardowns : t.cluster.id = c
  \/ \E x \in launching : x.id = c
  \/ \E s \in spawns : s.cluster.id = c /\ s.pc # "finish"
  \/ \E d \in deletes : /\ d.cluster.id = c /\ d.pc = "dispatch"
                        /\ DeleteOutcome(d.cluster.state) = "StartTeardown"

DeletingIsHandled ==
  proc = "serving" =>
    \A c \in Live : rows[c].state = "Deleting" => WillTearDown(c)

(* A cluster reported Ready still has its container and its files: no      *)
(* teardown, its own or that of an earlier tenant of the slot, has reached *)
(* them (spawn_task.rs:74-75).  Only a wipe of the same slot that was cut  *)
(* off, by its timeout or by a crash, and still runs may take the files.   *)
WipeLeftRunning(x) ==
  \E q \in late : q.op = "wipe" /\ q.cluster.owner = x.owner /\ q.cluster.slot = x.slot

ReadyIntact ==
  \A c \in Live : rows[c].state = "Ready" =>
    /\ containers[c] \in {"running", "exited"}
    /\ FileOf(rows[c]) \in files \/ WipeLeftRunning(rows[c])

(* Whatever a cluster leaves behind, it has a row: when every removal      *)
(* works, a container or files outlive the row only if the call that made  *)
(* them was abandoned and carried out after all: a container that was      *)
(* created and never started, or files of an upload that went on           *)
(* (teardown_task.rs:1-2, tar_validation.rs:137-138).                      *)
PrepareLeftRunning(c) == \E q \in late : q.op = "prepare" /\ q.cluster.id = c

NothingOutlivesItsRow ==
  /\ \A c \in Clusters : containers[c] # "absent" => c \in Live \/ containers[c] = "orphan"
  /\ \A f \in files : f.id \in Live \/ PrepareLeftRunning(f.id)

(* What one step may do to one row.  An id is inserted at most once, as    *)
(* Spawning, and never comes back; a row goes away only while Deleting;    *)
(* its owner and slot never change and its account is never forgotten; its *)
(* state follows the lifecycle, except that a row may leave Deleting when  *)
(* the cluster's spawn task is about to write what it concluded before.    *)
StateSteps ==
  {<<"Spawning", "Ready">>, <<"Spawning", "Failed">>, <<"Ready", "Failed">>,
   <<"Spawning", "Deleting">>, <<"Ready", "Deleting">>, <<"Failed", "Deleting">>}

SpawnMayWrite(c) == \E s \in spawns : s.cluster.id = c /\ s.pc = "write"

SameCluster(old, new) ==
  /\ new.owner = old.owner /\ new.slot = old.slot
  /\ old.worker => new.worker

RowStep(c) ==
  /\ c \in Live' \ Live => c \notin used /\ rows'[c].state = "Spawning"
  /\ c \in Live \ Live' => rows[c].state = "Deleting"
  /\ c \in Live /\ c \in Live' =>
       /\ SameCluster(rows[c], rows'[c])
       /\ \/ rows'[c].state = rows[c].state
          \/ <<rows[c].state, rows'[c].state>> \in StateSteps
          \/ /\ rows[c].state = "Deleting" /\ SpawnMayWrite(c)
             /\ rows'[c].state \in {"Ready", "Failed"}

RowStepsLegal == [][\A c \in Clusters : RowStep(c)]_rows

(* Once a DELETE has made a row Deleting, the row is never reported Ready  *)
(* or Failed again (DESIGN.md:199-202, spawn_task.rs:317-323).             *)
DeletingIsFinal ==
  [][\A c \in Live \cap Live' :
       rows[c].state = "Deleting" => rows'[c].state = "Deleting"]_rows

(* When a restarted process begins to serve, no row is left over from the  *)
(* one that stopped: none is Spawning or Deleting (reconciliation.rs:1-12).*)
ReconcileSettles ==
  [][proc = "reconciling" /\ proc' = "serving" =>
       \A c \in Live : rows[c].state \in {"Ready", "Failed"}]_proc

(* Every cluster goes away in the end and gives its slot back, whatever    *)
(* became of its spawn and wherever a crash interrupted it.                *)
EveryClusterGoes == \A c \in Clusters : c \in Live ~> c \notin Live

(* A row that is Deleting is removed in the end, so no failed step keeps a *)
(* quota slot for ever (teardown_task.rs:10-12).                           *)
DeletingGoes ==
  \A c \in Clusters : (c \in Live /\ rows[c].state = "Deleting") ~> c \notin Live

(* A DELETE that cancels a spawn still inside do_spawn leads to the row    *)
(* being removed (deps.rs:50-54, spawn_task.rs:283-286).                   *)
CancelledSpawnGoes ==
  \A c \in Clusters :
    (IsCancelled(c) /\ \E s \in spawns : s.cluster.id = c /\ s.pc \in DoSpawn)
      ~> c \notin Live
-----------------------------------------------------------------------------
(* Without user DELETEs the service implements the lifecycle it documents: *)
(* crashes, restarts, the reaper and failing spawns included, every        *)
(* cluster goes through its states in order and holds its slot alone       *)
(* (DESIGN.md section 5, "Cluster state machine").                         *)
PhaseOf(c) == IF c \in Live THEN rows[c].state
              ELSE IF c \in used THEN "gone" ELSE "unborn"

Lifecycle == INSTANCE ClusterLifecycle WITH
               Places <- Owners \X Slots,
               phase  <- [c \in Clusters |-> PhaseOf(c)],
               place  <- [c \in Live |-> <<rows[c].owner, rows[c].slot>>]

ImplementsLifecycle == Lifecycle!Spec
=============================================================================
