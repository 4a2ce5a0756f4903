--------------------------- MODULE ClusterBackend ---------------------------
(***************************************************************************)
(* What a backend promises the service (trait ClusterBackend), whatever    *)
(* requests it makes: spawn delivers a whole cluster or fails, a teardown  *)
(* that succeeds leaves nothing, is_alive is right about the cluster.      *)
(* Resources count only while somebody answers for them: what a request    *)
(* makes whose caller is gone is not in the footprint.                     *)
(***************************************************************************)
VARIABLES parts,      \* the resources of a whole cluster of its kind
          phase,      \* the call in progress, or "none"
          answer,     \* what the last call returned
          footprint,  \* the cluster's resources
          up,         \* the cluster was delivered and all of it runs
          wasUp       \* up when is_alive was called

vars == <<parts, phase, answer, footprint, up, wasUp>>

Delivered == {"spawned", "alive", "unknown"}

Init ==
  /\ phase = "none" /\ answer = "none"
  /\ footprint = {} /\ ~up /\ ~wasUp

Return(op) == phase = op /\ phase' = "none" /\ UNCHANGED wasUp

CallSpawn ==
  /\ phase = "none" /\ answer = "none"
  /\ phase' = "spawn" /\ wasUp' = up
  /\ UNCHANGED <<answer, footprint, up>>

Build ==
  /\ phase = "spawn" /\ footprint \subseteq footprint' /\ footprint' \subseteq parts
  /\ UNCHANGED <<phase, answer, up, wasUp>>

Deliver ==
  /\ Return("spawn")
  /\ footprint = parts
  /\ answer' = "spawned" /\ up' \in BOOLEAN
  /\ UNCHANGED footprint

(* A spawn that fails or is cut short may leave any part of the cluster.   *)
GiveUp ==
  /\ Return("spawn")
  /\ answer' \notin Delivered \cup {"none", "torn down"}
  /\ footprint \subseteq footprint' /\ footprint' \subseteq parts
  /\ UNCHANGED up

CallTeardown ==
  /\ phase = "none"
  /\ phase' = "teardown" /\ wasUp' = up
  /\ UNCHANGED <<answer, footprint, up>>

Dismantle ==
  /\ phase = "teardown" /\ footprint' \subseteq footprint
  /\ up' \in BOOLEAN /\ (up' => up)
  /\ UNCHANGED <<phase, answer, wasUp>>

TearDown ==
  /\ Return("teardown")
  /\ answer' = "torn down" /\ footprint' = {} /\ up' = FALSE

GiveUpTeardown ==
  /\ Return("teardown")
  /\ answer' \in {"not torn down", "cut"} /\ up' = FALSE
  /\ UNCHANGED footprint

CallIsAlive ==
  /\ phase = "none" /\ answer \in Delivered
  /\ phase' = "is_alive" /\ wasUp' = up
  /\ UNCHANGED <<answer, footprint, up>>

(* "alive" may be out of date by the time it is given: it was so when the  *)
(* call began.                                                             *)
Tell ==
  /\ Return("is_alive")
  /\ \/ answer' = "alive" /\ wasUp /\ UNCHANGED up
     \/ answer' = "dead" /\ ~up /\ up' = FALSE
     \/ answer' = "unknown" /\ UNCHANGED up
  /\ UNCHANGED footprint

(* A container stops by itself; a request made before goes through late.   *)
(* A delivered cluster keeps all of its resources.                         *)
Fade ==
  /\ footprint' \subseteq footprint
  /\ answer \in Delivered /\ phase # "teardown" => footprint' = footprint
  /\ up' \in BOOLEAN /\ (up' => up)
  /\ UNCHANGED <<phase, answer, wasUp>>

Next ==
  /\ \/ CallSpawn \/ Build \/ Deliver \/ GiveUp
     \/ CallTeardown \/ Dismantle \/ TearDown \/ GiveUpTeardown
     \/ CallIsAlive \/ Tell \/ Fade
  /\ UNCHANGED parts

Spec == Init /\ [][Next]_vars
=============================================================================
