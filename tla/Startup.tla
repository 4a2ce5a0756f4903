------------------------------ MODULE Startup ------------------------------
(***************************************************************************)
(* The life of one app_salmon process: read and validate config.toml,      *)
(* build the adapters, reconcile, start the tasks, bind, serve.  Any stage *)
(* may fail, and the process may crash or be stopped and started again     *)
(* with another configuration.                                             *)
(***************************************************************************)
EXTENDS Integers, FiniteSets, Sequences

CONSTANTS Hashes,      \* the secret hashes that are well formed
          Configs,     \* what config.toml may say
          Passwds,     \* what /etc/passwd may say: account -> uid, or Malformed
          MaxSeconds,  \* the largest number of seconds a TimeDelta holds
          MaxDelay,    \* the most seconds that may follow the time of a failure
          Malformed,   \* a hash or uid that does not parse
          MaxStarts    \* bound on the times the process is started

(* A configuration as serde reads it: every number is at most the i64 or   *)
(* u64 it is parsed into.                                                  *)
Limits  == {"min_ttl", "max_ttl", "clusters", "tar", "tar_entry", "estimate", "reap_delay",
            "interval"}
EntriesOf(c) == {c.clients[i] : i \in DOMAIN c.clients}

ASSUME StartupAssumption ==
  /\ MaxSeconds \in Nat /\ MaxDelay \in Nat /\ MaxStarts \in Nat
  /\ Malformed \notin Hashes /\ Malformed \notin Nat
  /\ \A c \in Configs :
       /\ c.limits \in [Limits -> Int]
       /\ Len(c.clients) \in Nat /\ DOMAIN c.clients = 1 .. Len(c.clients)
       /\ \A e \in EntriesOf(c) : e.hash \in Hashes \cup {Malformed}
  /\ \A p \in Passwds : \A u \in DOMAIN p : p[u] \in Nat \cup {Malformed}

VARIABLES
  stage,       \* what the process does next; "down" when there is no process
  config,      \* the configuration it runs with
  workers,     \* ClientWorkers: client -> Unix account
  registry,    \* ClientRegistry: client -> hash of its secret
  reconciled,  \* startup reconciliation has run in this process
  reaper,      \* the TTL reaper's task
  outcome,     \* how the last process ended
  starts       \* how many processes there were

startupVars == <<stage, config, workers, registry, reconciled, reaper, outcome, starts>>

NoConfig == [limits |-> << >>, clients |-> << >>]

Stages == {"down", "directory", "telemetry", "database", "accounts", "docker", "reconcile",
           "limits", "tasks", "bind", "serving"}
-----------------------------------------------------------------------------
(* Config::validate, resolve_client_workers, client_registry, authenticate *)

(* Slip: any text will do for a hash.                                      *)
BugWellFormed(hash) == TRUE

WellFormed(hash) == hash # Malformed

AccountsDiffer(c) ==
  \A i, j \in DOMAIN c.clients : c.clients[i].unix_user = c.clients[j].unix_user => i = j

Valid(c) ==
  /\ c.limits["min_ttl"] > 0
  /\ c.limits["min_ttl"] < c.limits["max_ttl"]
  /\ c.limits["clusters"] > 0
  /\ c.limits["tar"] > 0 /\ c.limits["tar_entry"] > 0
  /\ c.limits["tar_entry"] <= c.limits["tar"]
  /\ c.clients # << >>
  /\ \A e \in EntriesOf(c) : WellFormed(e.hash)
  /\ AccountsDiffer(c)

(* A map is built from the entries in their order: of two entries with one *)
(* name the later one stays.                                               *)
ClientNames(c) == {e.name : e \in EntriesOf(c)}

LastEntry(c, name) ==
  c.clients[CHOOSE i \in DOMAIN c.clients :
              /\ c.clients[i].name = name
              /\ \A j \in DOMAIN c.clients : c.clients[j].name = name => j <= i]

(* Slip: the registry keeps the first of two entries with one name.        *)
BugClientRegistry(c) ==
  LET First(name) == CHOOSE i \in DOMAIN c.clients :
                       /\ c.clients[i].name = name
                       /\ \A j \in DOMAIN c.clients : c.clients[j].name = name => i <= j
  IN [name \in ClientNames(c) |-> c.clients[First(name)].hash]

ClientRegistry(c) == [name \in ClientNames(c) |-> LastEntry(c, name).hash]

Resolves(user, passwd) == user \in DOMAIN passwd /\ passwd[user] # Malformed

(* The account a bearer token is for; a secret is known by its hash.       *)
Authenticate(name, secret) == name \in DOMAIN registry /\ registry[name] = secret
-----------------------------------------------------------------------------
(* The end of a process, whatever it was doing                             *)

Ends(how) ==
  /\ stage' = "down" /\ outcome' = how
  /\ config' = NoConfig /\ workers' = << >> /\ registry' = << >>
  /\ reconciled' = FALSE /\ reaper' = "none"
  /\ UNCHANGED starts

(* Every stage that touches the system outside may fail, and run returns   *)
(* the error.  Opening the log is the exception (OpenLogPanics).           *)
StageFails ==
  /\ stage \in {"directory", "telemetry", "database", "accounts", "docker", "bind", "serving"}
  /\ Ends("error")

Shutdown == stage = "serving" /\ Ends("ok")

Crash == stage # "down" /\ Ends("crash")
-----------------------------------------------------------------------------
(* The stages                                                              *)

At(s)       == stage = s
Reach(next) == stage' = next /\ UNCHANGED <<config, outcome, starts>>

Load(c) ==
  /\ At("down") /\ starts < MaxStarts
  /\ Valid(c)
  /\ stage' = "directory" /\ config' = c /\ outcome' = "none" /\ starts' = starts + 1
  /\ UNCHANGED <<workers, registry, reconciled, reaper>>

(* The file cannot be read or parsed, or what it says is not valid.        *)
LoadFails ==
  /\ At("down") /\ starts < MaxStarts
  /\ outcome' = "error" /\ starts' = starts + 1
  /\ UNCHANGED <<stage, config, workers, registry, reconciled, reaper>>

Pass(s, next) ==
  /\ At(s) /\ Reach(next)
  /\ UNCHANGED <<workers, registry, reconciled, reaper>>

(* Slip: the database is not reconciled when Docker is not there yet.      *)
BugConnectDocker ==
  \/ Pass("docker", "reconcile")
  \/ Pass("docker", "limits")

EnsureDirectory == Pass("directory", "telemetry")
InitTelemetry   == Pass("telemetry", "database")
OpenDatabase    == Pass("database", "accounts")
ConnectDocker   == Pass("docker", "reconcile")
Bind            == Pass("bind", "serving")

ResolveClientWorkers(passwd) ==
  /\ At("accounts")
  /\ \A e \in EntriesOf(config) : Resolves(e.unix_user, passwd)
  /\ workers' = [name \in ClientNames(config) |-> LastEntry(config, name).unix_user]
  /\ Reach("docker")
  /\ UNCHANGED <<registry, reconciled, reaper>>

(* Slip: an account that is missing is unwrapped.                          *)
BugResolutionFails(passwd) ==
  /\ At("accounts")
  /\ \E e \in EntriesOf(config) : ~Resolves(e.unix_user, passwd)
  /\ Ends("panic")

(* Slip: start-up waits for the account to be made.                        *)
BugWaitsForAccount(passwd) ==
  /\ At("accounts")
  /\ \E e \in EntriesOf(config) : ~Resolves(e.unix_user, passwd)
  /\ UNCHANGED startupVars

ResolutionFails(passwd) ==
  /\ At("accounts")
  /\ \E e \in EntriesOf(config) : ~Resolves(e.unix_user, passwd)
  /\ Ends("error")

(* Reconciliation logs its failures and goes on.                           *)
Reconcile ==
  /\ At("reconcile") /\ Reach("limits")
  /\ reconciled' = TRUE
  /\ UNCHANGED <<workers, registry, reaper>>

(* TimeDelta::seconds panics outside its range; min_ttl and max_ttl are    *)
(* converted with the limits, the other two with the tasks.                *)
Representable(names) == \A n \in names : config.limits[n] <= MaxSeconds

BuildLimits ==
  /\ At("limits")
  /\ Representable({"min_ttl", "max_ttl"})
  /\ registry' = ClientRegistry(config)
  /\ Reach("tasks")
  /\ UNCHANGED <<workers, reconciled, reaper>>

SpawnTasks ==
  /\ At("tasks")
  /\ Representable({"estimate", "reap_delay"})
  /\ reaper' = "spawned"
  /\ Reach("bind")
  /\ UNCHANGED <<workers, registry, reconciled>>

Panic ==
  /\ \/ At("limits") /\ ~Representable({"min_ttl", "max_ttl"})
     \/ At("tasks") /\ ~Representable({"estimate", "reap_delay"})
  /\ Ends("panic")

(* The log file of the day cannot be opened: rolling::daily panics where   *)
(* the directory's failure (StageFails) is returned.                       *)
OpenLogPanics == At("telemetry") /\ Ends("panic")

(* The reaper's task is first polled beside main; tokio::time::interval    *)
(* panics on a period of zero, which ends the task and nothing else.       *)
StartReaper ==
  /\ reaper = "spawned"
  /\ reaper' = IF config.limits["interval"] = 0 THEN "panicked" ELSE "running"
  /\ UNCHANGED <<stage, config, workers, registry, reconciled, outcome, starts>>

(* A sweep that meets a Failed row adds the delay to the time it failed,   *)
(* and the calendar ends before a TimeDelta does.                          *)
ReaperOverflows ==
  /\ reaper = "running"
  /\ config.limits["reap_delay"] > MaxDelay
  /\ reaper' = "panicked"
  /\ UNCHANGED <<stage, config, workers, registry, reconciled, outcome, starts>>

Advance ==
  \/ EnsureDirectory \/ OpenDatabase \/ ConnectDocker \/ Reconcile
  \/ \E p \in Passwds : ResolveClientWorkers(p)
  \/ BuildLimits \/ SpawnTasks \/ Bind \/ StartReaper

Terminate ==
  \/ StageFails \/ OpenLogPanics \/ Panic \/ Shutdown \/ Crash
  \/ \E p \in Passwds : ResolutionFails(p)

StartupInit ==
  /\ stage = "down" /\ config = NoConfig
  /\ workers = << >> /\ registry = << >>
  /\ reconciled = FALSE /\ reaper = "none"
  /\ outcome = "none" /\ starts = 0
=============================================================================
