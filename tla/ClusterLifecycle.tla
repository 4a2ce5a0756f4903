-------------------------- MODULE ClusterLifecycle --------------------------
(***************************************************************************)
(* What the service promises about a cluster, without tasks, races or      *)
(* restarts: the state machine DESIGN.md section 5 describes, and one      *)
(* place (an account's slot directory) held by at most one cluster from    *)
(* the moment it is created until it is forgotten.                         *)
(***************************************************************************)
CONSTANTS Clusters, Places

VARIABLES phase,   \* where each cluster is in its life
          place    \* the place each live cluster holds

Phases == {"unborn", "Spawning", "Ready", "Failed", "Deleting", "gone"}

Init == /\ phase = [c \in Clusters |-> "unborn"]
        /\ place = << >>

Held == {place[c] : c \in DOMAIN place}

Become(c, from, to) == phase[c] \in from /\ phase' = [phase EXCEPT ![c] = to]

Create(c, p) == /\ p \notin Held
                /\ Become(c, {"unborn"}, "Spawning")
                /\ place' = [x \in DOMAIN place \cup {c} |-> IF x = c THEN p ELSE place[x]]

Spawned(c) == Become(c, {"Spawning"}, "Ready") /\ UNCHANGED place

(* A spawn fails, or a cluster is found lost after a restart.              *)
Fail(c) == Become(c, {"Spawning", "Ready"}, "Failed") /\ UNCHANGED place

Delete(c) == Become(c, {"Spawning", "Ready", "Failed"}, "Deleting") /\ UNCHANGED place

Forget(c) == /\ Become(c, {"Deleting"}, "gone")
             /\ place' = [x \in DOMAIN place \ {c} |-> place[x]]

Next == \E c \in Clusters :
          \/ \E p \in Places : Create(c, p)
          \/ Spawned(c) \/ Fail(c) \/ Delete(c) \/ Forget(c)

Spec == Init /\ [][Next]_<<phase, place>>
=============================================================================
