---------------------------- MODULE ClusterState ----------------------------
(***************************************************************************)
(* The lifecycle of one cluster: the states a row can be in, the events    *)
(* that move it, and the pure function domain::cluster::transition.  The   *)
(* timestamps, connection details and error summaries the states carry are *)
(* left out: nothing here depends on them except the deadline a Ready or   *)
(* Failed row has, which ClusterService keeps as the set "due".            *)
(***************************************************************************)

ClusterStates == {"Spawning", "Ready", "Failed", "Deleting"}
ClusterEvents == {"SpawnSucceeded", "SpawnFailed", "DeleteRequested"}

(* The (state, event) pairs transition() accepts; every other pair is its  *)
(* InvalidTransition error.                                                *)
Applies(state, event) == event = "DeleteRequested" \/ state = "Spawning"

(* The state an accepted event leads to.  DeleteRequested on a row that is *)
(* already Deleting returns that same state.                               *)
Transition(event) ==
  CASE event = "SpawnSucceeded"  -> "Ready"
    [] event = "SpawnFailed"     -> "Failed"
    [] event = "DeleteRequested" -> "Deleting"

(* Slip: every DELETE of a row that is not Spawning starts a teardown.     *)
BugDeletingTornDownAgain(state) ==
  IF state = "Spawning" THEN "CancelSpawn" ELSE "StartTeardown"

(* Slip: a teardown is started next to a spawn instead of cancelling it.   *)
BugSpawnNotCancelled(state) ==
  IF state = "Deleting" THEN "AlreadyDeleting" ELSE "StartTeardown"

(* What the caller of request_delete must do next, from the state the row  *)
(* had when request_delete read it.                                        *)
DeleteOutcome(state) ==
  CASE state = "Deleting"            -> "AlreadyDeleting"
    [] state = "Spawning"            -> "CancelSpawn"
    [] state \in {"Ready", "Failed"} -> "StartTeardown"
=============================================================================
