-------------------------- MODULE ContainerRuntime --------------------------
(***************************************************************************)
(* The Docker daemon, and the requests the adapter over it sends.  The     *)
(* daemon is shared state outside the program: a request it has received   *)
(* may be carried out after the caller has given up on the answer.         *)
(***************************************************************************)
EXTENDS ContainerSpecs

VARIABLES
  containers,  \* each container of the cluster, as the daemon sees it
  network,     \* the cluster's network exists
  config,      \* the cluster's directory of generated configuration exists
  wasHealthy,  \* the containers whose health check has ever succeeded
  late,        \* requests received whose caller is gone
  orphans      \* resources made by late requests, or knowingly left

daemon == <<containers, network, config, wasHealthy, late, orphans>>

Health    == {"none", "starting", "healthy", "unhealthy"}
Container == [status : {"absent", "created", "running", "exited"}, health : Health]
Absent    == [status |-> "absent", health |-> "none"]

(* network and config stand for themselves where a resource is named.      *)
Resources == Names \cup {"network", "config"}

(* writeConfig and removeConfig are file operations of this process; they  *)
(* outlive their caller too, on a thread of the blocking pool, but not a   *)
(* crash.                                                                  *)
DockerVerbs == {"create", "start", "remove", "createNetwork", "removeNetwork"}
FileVerbs   == {"writeConfig", "removeConfig"}
Request     == [verb : DockerVerbs \cup FileVerbs, on : Resources]

StatusOf(n) == containers[n].status

Exists(r) == CASE r = "network" -> network
               [] r = "config"  -> config
               [] OTHER         -> StatusOf(r) # "absent"

(* What the daemon refuses: a name that is taken, a container or a network *)
(* that is not there to start on, a network in use.                        *)
Refused(q) ==
  \/ q.verb = "create" /\ Exists(q.on)
  \/ q.verb = "start" /\ (Exists(q.on) => SpecOf(q.on).network /\ ~network)
  \/ q.verb = "createNetwork" /\ network
  \/ q.verb = "removeNetwork" /\ \E n \in Names : StatusOf(n) = "running" /\ SpecOf(n).network

(* The body sent with a create: the daemon tracks health only for a        *)
(* container with a HEALTHCHECK, from its start.                           *)
Created(n) == [status |-> "created", health |-> "none"]
Started(n) == [status |-> "running",
               health |-> IF SpecOf(n).health_check THEN "starting" ELSE "none"]

SetContainer(n, c) == containers' = [containers EXCEPT ![n] = c]
                      /\ UNCHANGED <<network, config>>

(* Starting a container that runs, and removing what is not there (404,    *)
(* NotFound for a directory), change nothing and are no error.             *)
Perform(q) ==
  \/ q.verb = "create" /\ SetContainer(q.on, Created(q.on))
  \/ q.verb = "start" /\ SetContainer(q.on, IF StatusOf(q.on) = "running"
                                            THEN containers[q.on] ELSE Started(q.on))
  \/ q.verb = "remove" /\ SetContainer(q.on, Absent)
  \/ q.verb \in {"createNetwork", "removeNetwork"}
     /\ network' = (q.verb = "createNetwork") /\ UNCHANGED <<containers, config>>
  \/ q.verb \in FileVerbs
     /\ config' = (q.verb = "writeConfig") /\ UNCHANGED <<containers, network>>

(* What inspect reports.  A container that was created and never started   *)
(* is not running, hence Exited; a port is reported if one is published.   *)
Inspect(n) ==
  CASE StatusOf(n) = "absent"  -> [is |-> "NotFound"]
    [] StatusOf(n) = "running" -> [is |-> "Running", health |-> containers[n].health,
                                   port |-> SpecOf(n).publish]
    [] OTHER                   -> [is |-> "Exited"]
-----------------------------------------------------------------------------
(* The daemon by itself                                                    *)

Makes(q) == q.verb \in {"create", "createNetwork", "writeConfig"}

(* A late request is carried out, is refused, or never gets anywhere.      *)
LateRequest(q) ==
  /\ late' = late \ {q}
  /\ \/ ~Refused(q) /\ Perform(q)
        /\ orphans' = IF Makes(q) THEN orphans \cup {q.on} ELSE orphans \ {q.on}
     \/ UNCHANGED <<containers, network, config, orphans>>
  /\ UNCHANGED wasHealthy

(* A health check reports.  It may go back and forth.                      *)
HealthCheck(n) ==
  /\ StatusOf(n) = "running" /\ SpecOf(n).health_check
  /\ \E h \in {"healthy", "unhealthy"} \ {containers[n].health} :
       /\ SetContainer(n, [containers[n] EXCEPT !.health = h])
       /\ wasHealthy' = IF h = "healthy" THEN wasHealthy \cup {n} ELSE wasHealthy
  /\ UNCHANGED <<late, orphans>>

Exit(n) ==
  /\ StatusOf(n) = "running"
  /\ SetContainer(n, [status |-> "exited", health |-> "none"])
  /\ UNCHANGED <<wasHealthy, late, orphans>>

DaemonTypeOK ==
  /\ containers \in [Names -> Container]
  /\ network \in BOOLEAN /\ config \in BOOLEAN
  /\ wasHealthy \subseteq Names
  /\ late \subseteq Request
  /\ orphans \subseteq Resources

DaemonInit ==
  /\ containers = [n \in Names |-> Absent]
  /\ network = FALSE /\ config = FALSE
  /\ wasHealthy = {} /\ late = {} /\ orphans = {}
=============================================================================
