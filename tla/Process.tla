------------------------------ MODULE Process ------------------------------
(***************************************************************************)
(* One app_salmon process after another over one log directory: start-up   *)
(* opens the log, the sweep of the log directory runs beside the server    *)
(* from the moment the tasks are spawned, and everything in memory goes    *)
(* with the process.                                                       *)
(***************************************************************************)
EXTENDS Startup, LogRotation

vars == <<startupVars, rotationVars>>

TasksRun == stage \in {"bind", "serving"}

Init == StartupInit /\ RotationInit

(* The log is open from telemetry::init on.                                *)
Boot ==
  \/ \E c \in Configs : Load(c) /\ UNCHANGED rotationVars
  \/ LoadFails /\ UNCHANGED rotationVars
  \/ (Advance \/ ReaperOverflows) /\ UNCHANGED rotationVars
  \/ InitTelemetry /\ OpenLog

End == Terminate /\ Stop

Rotate == TasksRun /\ SweepStep /\ UNCHANGED startupVars

Log  == Write /\ UNCHANGED startupVars
Time == Tick /\ UNCHANGED startupVars

Next == Boot \/ End \/ Rotate \/ Log \/ Time

(* The process and its tasks go on; nobody has to start, stop or crash it, *)
(* and no line has to be logged.  The sweep is repeated for ever.          *)
Fairness ==
  /\ WF_vars(Advance /\ UNCHANGED rotationVars)
  /\ WF_vars(InitTelemetry /\ OpenLog)
  /\ WF_vars(Panic /\ Stop)
  /\ WF_vars(\E p \in Passwds : ResolutionFails(p) /\ Stop)
  /\ WF_vars(Rotate)

Spec == Init /\ [][Next]_vars /\ Fairness
-----------------------------------------------------------------------------
TypeOK ==
  /\ RotationTypeOK
  /\ stage \in Stages
  /\ config = NoConfig \/ config \in Configs
  /\ registry \in [DOMAIN registry -> Hashes]
  /\ reconciled \in BOOLEAN
  /\ reaper \in {"none", "spawned", "running", "panicked"}
  /\ outcome \in {"none", "ok", "error", "panic", "crash"}
  /\ starts \in 0 .. MaxStarts
  /\ appender # NoDay <=> stage \in Stages \ {"down", "directory", "telemetry"}

(* A bearer token that is accepted runs clusters under the account that    *)
(* stands in the same [[clients]] entry as the token's hash, also when two *)
(* entries have one name: the registry and the workers are built apart     *)
(* (config.rs:client_registry, main.rs:build_task_deps) and must agree.    *)
(* Nor does another client run clusters under that account                 *)
(* (config.rs:153-156).                                                    *)
TokenAndAccountAgree ==
  stage = "serving" =>
    \A name \in DOMAIN registry, secret \in Hashes :
      Authenticate(name, secret) =>
        /\ name \in DOMAIN workers
        /\ \E e \in EntriesOf(config) :
             e.name = name /\ e.hash = secret /\ e.unix_user = workers[name]
        /\ \A other \in DOMAIN workers : workers[other] = workers[name] => other = name

(* No request is served and no cluster reaped before this process has      *)
(* reconciled the rows of the last one (main.rs:113-114), and rows are     *)
(* reconciled, clusters torn down, only by a process that knows an account *)
(* for every client it is configured with.                                 *)
ReconciledFirst ==
  /\ stage = "serving" \/ reaper # "none" => reconciled
  /\ reconciled => \A e \in EntriesOf(config) : e.name \in DOMAIN workers

(* A process panics where it opens the log file (telemetry.rs:58) and,     *)
(* before it binds, over a time that is valid for Config::validate and too *)
(* large for a TimeDelta; its reaper over an interval of zero or a delay   *)
(* that leads out of the calendar (ttl_reaper.rs:40).  Every other failure *)
(* of a stage is returned, and no process panics once it serves.           *)
PanicsAreKnown ==
  [][/\ outcome' = "panic" /\ outcome # "panic" =>
          \/ stage = "telemetry"
          \/ /\ stage \in {"limits", "tasks"}
             /\ ~Representable({"min_ttl", "max_ttl", "estimate", "reap_delay"})
     /\ reaper' = "panicked" /\ reaper # "panicked" =>
          \/ config.limits["interval"] = 0
          \/ config.limits["reap_delay"] > MaxDelay]_vars

(* A process that was started ends or serves: no stage waits for ever.     *)
StartupEnds == stage # "down" ~> stage \in {"serving", "down"}

(* As long as a process serves, every file comes to be archived and every  *)
(* archive to be deleted once its time is over, although sweeps fail: the  *)
(* next sweep finds again what one has left (log_rotation.rs:137-141).     *)
OldFilesGo ==
  <>[](stage = "serving") =>
    []<>(/\ \A d \in DOMAIN logs : ~OlderThan(logs[d].mtime, now, CompressAfter)
         /\ \A d \in DOMAIN archives : ~OlderThan(archives[d].mtime, now, Retention))
=============================================================================
