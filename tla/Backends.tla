------------------------------ MODULE Backends ------------------------------
(***************************************************************************)
(* PostgresBackend and SupabaseBackend: spawn, teardown and is_alive for   *)
(* one cluster, as the requests they await one after the other.  The       *)
(* service calls spawn at most once, never tears down while it runs, and   *)
(* tears down again after a crash.  A call may be cut short at any await,  *)
(* by a cancelled spawn or by a crash; the request it awaited is then late.*)
(***************************************************************************)
EXTENDS ContainerRuntime, HealthWait, FiniteSets

CONSTANTS Faults,     \* the kinds of fault that may occur
          MaxFaults   \* how many faults may occur in one behaviour

FaultKinds == {"error",    \* a request fails, and the daemon did nothing
               "timeout",  \* the adapter gives up on a request
               "port",     \* no published port is reported
               "exit",     \* a running container exits by itself
               "crash"}    \* the process stops

ASSUME BackendsAssumption == Faults \subseteq FaultKinds /\ MaxFaults \in Nat

VARIABLES
  service,  \* the kind of service this cluster is of
  call,     \* the call in progress, or the last one
  answer,   \* what the last call returned; "cut" if it never did
  faults    \* how many faults have occurred

vars == <<daemon, service, call, answer, faults>>

Ops   == {"none", "spawn", "teardown", "is_alive"}
Steps == DockerVerbs \cup FileVerbs \cup {"poll", "sleep", "extension", "ports", "inspect"}

(* at: which of the services; now: how long the health wait has lasted;    *)
(* port: kong's port is known; up: every service ran when is_alive began.  *)
Call == [op : Ops, step : Steps, at : 1 .. 5, now : 0 .. MaxWait, port : BOOLEAN, up : BOOLEAN]

SpawnErrors == {"daemon", "gone", "deadline", "no port", "no extension"}
Delivered   == {"spawned", "alive", "unknown"}   \* the cluster's row is Ready
Answers     == {"none", "cut", "torn down", "not torn down", "dead"}
               \cup SpawnErrors \cup Delivered

Fault(kind) == kind \in Faults /\ faults < MaxFaults /\ faults' = faults + 1
NoFault     == UNCHANGED faults

Sequence == Services(service)
Name     == Sequence[call.at]
IsLast   == call.at = Len(Sequence)
Stack    == service = "supabase"
Mine     == {Sequence[i] : i \in DOMAIN Sequence}
IsUp     == \A n \in Mine : StatusOf(n) = "running"

(* The request the call awaits at steps that change something.             *)
Awaited == [verb |-> call.step,
            on   |-> CASE call.step \in {"createNetwork", "removeNetwork"} -> "network"
                       [] call.step \in FileVerbs -> "config"
                       [] OTHER -> Name]
Outstanding == IF call.op # "none" /\ call.step \in DockerVerbs \cup FileVerbs
               THEN {Awaited} ELSE {}

Idle        == call.op = "none"
At(op, s)   == call.op = op /\ call.step = s
Goto(s)     == call' = [call EXCEPT !.step = s] /\ UNCHANGED answer
Return(a)   == call' = [call EXCEPT !.op = "none"] /\ answer' = a
Begin(op, s) ==
  call' = [op |-> op, step |-> s, at |-> 1, now |-> 0, port |-> FALSE,
           up |-> answer \in Delivered /\ IsUp]
  /\ UNCHANGED answer

(* Slip: a teardown carries on as if the failed request had succeeded.     *)
BugErrorIgnored == CASE call.op = "spawn"    -> "daemon"
                     [] call.op = "teardown" -> "torn down"
                     [] OTHER                -> "unknown"

(* How a call that meets an error on a request returns: with `?`.          *)
Error == CASE call.op = "spawn"    -> "daemon"
           [] call.op = "teardown" -> "not torn down"
           [] OTHER                -> "unknown"

-----------------------------------------------------------------------------
(* The requests a call awaits                                              *)

Answered ==
  /\ ~Refused(Awaited)
  /\ Perform(Awaited)
  /\ orphans' = orphans \ {Awaited.on}
  /\ NoFault /\ UNCHANGED <<wasHealthy, late, service>>

RequestFails ==
  /\ call.step \in DockerVerbs \cup {"poll", "ports", "inspect"}
  /\ IF Outstanding # {} /\ Refused(Awaited) THEN NoFault ELSE Fault("error")
  /\ ~Idle /\ Return(Error)
  /\ UNCHANGED <<daemon, service>>

RequestTimesOut ==
  /\ call.step \in DockerVerbs
  /\ Fault("timeout")
  /\ ~Idle /\ Return(Error)
  /\ late' = late \cup Outstanding
  /\ UNCHANGED <<containers, network, config, wasHealthy, orphans, service>>
-----------------------------------------------------------------------------
(* spawn                                                                   *)

(* Slip: a spawn that failed or was cut short is tried again.              *)
BugSpawnAgain ==
  /\ Idle /\ answer \in {"none", "cut", "daemon"}
  /\ Begin("spawn", IF Stack THEN "createNetwork" ELSE "create")
  /\ NoFault /\ UNCHANGED <<daemon, service>>

CallSpawn ==
  /\ Idle /\ answer = "none"
  /\ Begin("spawn", IF Stack THEN "createNetwork" ELSE "create")
  /\ NoFault /\ UNCHANGED <<daemon, service>>

CreateNetwork == At("spawn", "createNetwork") /\ Answered /\ Goto("writeConfig")

WriteConfig == At("spawn", "writeConfig") /\ Answered /\ Goto("create")

(* The directory or one of the three files in it cannot be written.        *)
WriteConfigFails ==
  /\ At("spawn", "writeConfig")
  /\ Fault("error")
  /\ config' \in {config, TRUE}
  /\ Return("daemon")
  /\ UNCHANGED <<containers, network, wasHealthy, late, orphans, service>>

CreateContainer == At("spawn", "create") /\ Answered /\ Goto("start")

StartContainer == At("spawn", "start") /\ Answered /\ Goto("poll")

Seen(now) == Verdict(Inspect(Name), SpecOf(Name).health_check, now)

Reported(port) == \/ port = SpecOf(Name).publish /\ NoFault
                  \/ ~port /\ SpecOf(Name).publish /\ Fault("port")

(* The service is ready: on to the next, or to what follows the last.      *)
NextService(port) ==
  LET known == IF Name \in {"kong", "postgres"} THEN port ELSE call.port
  IN  CASE ~IsLast -> call' = [call EXCEPT !.at = @ + 1, !.step = "create",
                                           !.now = 0, !.port = known]
                      /\ UNCHANGED answer
        [] IsLast /\ ~known                        -> Return("no port")
        [] IsLast /\ known /\ Stack                -> Goto("ports")
        [] IsLast /\ known /\ service = "pgvector" -> Goto("extension")
        [] OTHER                                   -> Return("spawned")

PollReady ==
  /\ At("spawn", "poll")
  /\ Seen(call.now) = "ready"
  /\ \E port \in BOOLEAN : Reported(port) /\ NextService(port)
  /\ UNCHANGED <<daemon, service>>

PollAgain ==
  /\ At("spawn", "poll")
  /\ \E d \in Delays :
       /\ Seen(call.now + d) = "again"
       /\ call' = [call EXCEPT !.step = "sleep", !.now = @ + d]
  /\ NoFault /\ UNCHANGED <<daemon, service, answer>>

PollGivesUp ==
  /\ At("spawn", "poll")
  /\ \E d \in Delays :
       /\ Seen(call.now + d) \in {"gone", "deadline"}
       /\ call' = [call EXCEPT !.op = "none", !.now = @ + d]
       /\ answer' = Seen(call.now + d)
  /\ NoFault /\ UNCHANGED <<daemon, service>>

(* Slip: the deadline is computed anew before every look.                  *)
BugSleepForgets ==
  /\ At("spawn", "sleep")
  /\ call' = [call EXCEPT !.step = "poll", !.now = 0]
  /\ NoFault /\ UNCHANGED <<daemon, service, answer>>

Sleep ==
  /\ At("spawn", "sleep")
  /\ call' = [call EXCEPT !.step = "poll", !.now = @ + PollInterval]
  /\ NoFault /\ UNCHANGED <<daemon, service, answer>>

(* CREATE EXTENSION, over a connection of the backend's own.               *)
Extension ==
  /\ At("spawn", "extension")
  /\ \/ StatusOf(Name) = "running" /\ NoFault /\ Return("spawned")
     \/ IF StatusOf(Name) = "running" THEN Fault("error") /\ Return("no extension")
                                      ELSE NoFault /\ Return("no extension")
  /\ UNCHANGED <<daemon, service>>

(* db is looked at once more, for its port.                                *)
Ports ==
  /\ At("spawn", "ports")
  /\ \/ StatusOf("db") = "running" /\ NoFault /\ Return("spawned")
     \/ IF StatusOf("db") = "running" THEN Fault("port") /\ Return("no port")
                                      ELSE NoFault /\ Return("no port")
  /\ UNCHANGED <<daemon, service>>
-----------------------------------------------------------------------------
(* teardown and is_alive                                                   *)

(* Slip: the network is removed before the containers on it.               *)
BugNetworkFirst ==
  /\ Idle
  /\ Begin("teardown", IF Stack THEN "removeNetwork" ELSE "remove")
  /\ NoFault /\ UNCHANGED <<daemon, service>>

CallTeardown ==
  /\ Idle
  /\ Begin("teardown", "remove")
  /\ NoFault /\ UNCHANGED <<daemon, service>>

RemoveContainer ==
  /\ At("teardown", "remove") /\ Answered
  /\ CASE ~IsLast          -> call' = [call EXCEPT !.at = @ + 1] /\ UNCHANGED answer
       [] IsLast /\ Stack  -> Goto("removeNetwork")
       [] OTHER            -> Return("torn down")

RemoveNetwork == At("teardown", "removeNetwork") /\ Answered /\ Goto("removeConfig")

RemoveConfig == At("teardown", "removeConfig") /\ Answered /\ Return("torn down")

(* Only warned about: what is left of the directory stays.                 *)
RemoveConfigFails ==
  /\ At("teardown", "removeConfig")
  /\ config /\ Fault("error")
  /\ orphans' = orphans \cup {"config"}
  /\ Return("torn down")
  /\ UNCHANGED <<containers, network, config, wasHealthy, late, service>>

(* Reconciliation asks after a Ready cluster.                              *)
CallIsAlive ==
  /\ Idle /\ answer \in Delivered
  /\ Begin("is_alive", "inspect")
  /\ NoFault /\ UNCHANGED <<daemon, service>>

InspectService ==
  /\ At("is_alive", "inspect")
  /\ IF Inspect(Name).is # "Running" THEN Return("dead")
     ELSE IF IsLast THEN Return("alive")
     ELSE call' = [call EXCEPT !.at = @ + 1] /\ UNCHANGED answer
  /\ NoFault /\ UNCHANGED <<daemon, service>>
-----------------------------------------------------------------------------
(* The end of a caller                                                     *)

(* A DELETE cancels the spawn: select! drops do_spawn at its await.        *)
Cancel ==
  /\ call.op = "spawn" /\ NoFault
  /\ late' = late \cup Outstanding
  /\ Return("cut")
  /\ UNCHANGED <<containers, network, config, wasHealthy, orphans, service>>

Crash ==
  /\ ~Idle /\ Fault("crash")
  /\ late' = {q \in late \cup Outstanding : q.verb \in DockerVerbs}
  /\ Return(IF call.op = "is_alive" THEN "unknown" ELSE "cut")
  /\ UNCHANGED <<containers, network, config, wasHealthy, orphans, service>>
-----------------------------------------------------------------------------
Init ==
  /\ DaemonInit
  /\ service \in ServiceKinds
  /\ call = [op |-> "none", step |-> "create", at |-> 1, now |-> 0,
             port |-> FALSE, up |-> FALSE]
  /\ answer = "none"
  /\ faults = 0

Spawn    == CreateNetwork \/ WriteConfig \/ WriteConfigFails \/ CreateContainer
            \/ StartContainer \/ PollReady \/ PollAgain \/ PollGivesUp \/ Sleep
            \/ Extension \/ Ports
TearDown == RemoveContainer \/ RemoveNetwork \/ RemoveConfig \/ RemoveConfigFails
Proceed  == Spawn \/ TearDown \/ InspectService \/ RequestFails \/ RequestTimesOut

Daemon ==
  \/ \E q \in late : LateRequest(q) /\ NoFault /\ UNCHANGED <<service, call, answer>>
  \/ \E n \in Names : HealthCheck(n) /\ NoFault /\ UNCHANGED <<service, call, answer>>
  \/ \E n \in Names : Exit(n) /\ Fault("exit") /\ UNCHANGED <<service, call, answer>>

Next == CallSpawn \/ CallTeardown \/ CallIsAlive \/ Proceed \/ Cancel \/ Crash \/ Daemon

(* Tokio runs a task whose await has an answer, and Docker or the adapter's*)
(* own timeout answers every request.  Nothing makes a container healthy.  *)
Fairness == WF_vars(Proceed)

Spec == Init /\ [][Next]_vars /\ Fairness
-----------------------------------------------------------------------------
(* The variables have their types, and a wait ends within MaxWait of its   *)
(* start (the bound of Call.now; health_wait.rs:70-102).                   *)
TypeOK ==
  /\ DaemonTypeOK
  /\ service \in ServiceKinds
  /\ call \in Call
  /\ answer \in Answers
  /\ faults \in 0 .. MaxFaults

(* A cluster that spawn delivered is whole, whatever happened on the way:  *)
(* every container was created and started, each with a health check has   *)
(* been healthy, network and configuration are there, and no request is    *)
(* left that could still change it (supabase.rs:611-734,                   *)
(* postgres.rs:219-287).  Containers may have exited since.                *)
SpawnedComplete ==
  answer \in Delivered /\ call.op # "teardown" =>
    /\ \A n \in Mine : /\ StatusOf(n) \in {"running", "exited"}
                       /\ SpecOf(n).health_check => n \in wasHealthy
    /\ Stack => network /\ config
    /\ late = {} /\ orphans = {}

(* The order of the requests never makes the daemon refuse one: a name is  *)
(* never taken, a container to start and its network are there, and the    *)
(* network is unused when it is removed, also where a late request comes   *)
(* in between (supabase.rs:737-738: "Docker refuses removal while          *)
(* containers are attached").  Nor does it make up a directory for a       *)
(* mounted file that is missing, and a container comes up after those it   *)
(* dials have been healthy (supabase.rs:651-704).                          *)
NothingRefused ==
  /\ ~Idle /\ Outstanding # {} => ~Refused(Awaited)
  /\ At("spawn", "create") => /\ SpecOf(Name).config => config
                             /\ SpecOf(Name).dials \subseteq wasHealthy

(* What a call that was cut short leaves behind after the teardown costs   *)
(* disk and a name, but does not run: create and start are two requests,   *)
(* and nobody sends the second (docker_bollard.rs:289-312).  At most one   *)
(* resource is made that way.                                              *)
OrphansNeverRun ==
  /\ \A n \in orphans \cap Names : StatusOf(n) # "running"
  /\ Cardinality({r \in orphans \ {"config"} : Exists(r)}) <= 1

(* A spawn that failed says why: a container is gone for good, or it was   *)
(* given all of its time and not much more (health_wait.rs:60-64).         *)
FailureIsHonest ==
  Idle => /\ answer = "gone" => StatusOf(Name) \in {"absent", "exited"}
          /\ answer = "deadline" => call.now \in HealthTimeout .. MaxWait

(* Every call returns, or is cut short, although nothing makes a container *)
(* healthy (health_wait.rs:64, "the overall deadline to wait").            *)
CallsReturn == ~Idle ~> Idle

(* Both backends keep the promises of the trait (backends/mod.rs:20-119).  *)
Promise == INSTANCE ClusterBackend WITH
  parts     <- Mine \cup (IF Stack THEN {"network", "config"} ELSE {}),
  phase     <- call.op,
  footprint <- {r \in Resources : Exists(r)} \ orphans,
  up        <- answer \in Delivered /\ IsUp,
  wasUp     <- call.up
ImplementsBackend == Promise!Spec
=============================================================================
