-------------------------- MODULE ClusterOwnership --------------------------
(***************************************************************************)
(* Who may touch a cluster, and when: the argument by which the code keeps *)
(* teardowns away from live clusters although no lock is ever held from    *)
(* one repository call to the next.  A create handler, and after it the    *)
(* spawn task, owns the cluster until the task has written its outcome;    *)
(* only then can a delete find it Ready or Failed and start a teardown.    *)
(***************************************************************************)
EXTENDS ClusterService

UnwrittenPcs == DoSpawn \cup {"recheck", "write"}

Owned(c) == \/ \E x \in launching : x.id = c
            \/ \E s \in spawns : s.cluster.id = c /\ s.pc \in UnwrittenPcs

GoneOrDeleting(c) == c \in Live => rows[c].state = "Deleting"

(* Nothing tears an owned cluster down, and a delete that found it read    *)
(* Spawning or Deleting and can do no more than cancel the spawn.          *)
OwnerIsAlone ==
  \A c \in Clusters : Owned(c) =>
    /\ c \in Live /\ rows[c].state \in {"Spawning", "Deleting"}
    /\ \A t \in teardowns : t.cluster.id # c
    /\ \A d \in deletes : d.cluster.id = c =>
         /\ d.cluster.state \in {"Spawning", "Deleting"}
         /\ d.pc = "dispatch" => rows[c].state = "Deleting"

(* A cluster has one owner: one handler or one spawn task.                 *)
OneOwner ==
  /\ \A x, y \in launching : x.id = y.id => x = y
  /\ \A s, r \in spawns : s.cluster.id = r.cluster.id => s = r
  /\ \A x \in launching, s \in spawns : x.id # s.cluster.id

(* Whoever is about to start a teardown has seen the row made Deleting:    *)
(* a spawn that is cancelled, and a delete call whose outcome says so.     *)
TeardownsAreEarned ==
  /\ \A s \in spawns :
       s.pc \in DoSpawn /\ IsCancelled(s.cluster.id) => GoneOrDeleting(s.cluster.id)
  /\ \A d \in deletes :
       d.pc = "dispatch" /\ DeleteOutcome(d.cluster.state) = "StartTeardown"
         => GoneOrDeleting(d.cluster.id)

(* No activity is about an id that has not been handed out.                *)
IdsInUse ==
  /\ \A x \in launching : x.id \in used
  /\ \A s \in spawns : s.cluster.id \in used
  /\ \A d \in deletes : d.cluster.id \in used
  /\ \A t \in teardowns : t.cluster.id \in used

(* A process that does not serve runs no task but reconciliation's, and    *)
(* reconciliation works through rows that are still as it listed them.     *)
ReconcilesAlone ==
  /\ proc # "serving" => launching = {} /\ spawns = {} /\ deletes = {} /\ sweep = {}
  /\ proc = "down" => teardowns = {}
  /\ proc # "reconciling" => restart = {}
  /\ \A x \in restart : /\ x.id \in Live /\ rows[x.id] = x
                        /\ \A t \in teardowns : t.cluster.id # x.id

(* The inductive invariant behind TeardownOnlyWhenDeleting and             *)
(* RowStepsLegal (cluster_service.rs:36-44, teardown_task.rs:4-8).         *)
Ownership ==
  /\ OwnerIsAlone
  /\ OneOwner
  /\ TeardownsAreEarned
  /\ IdsInUse
  /\ ReconcilesAlone
  /\ TeardownOnlyWhenDeleting
=============================================================================
