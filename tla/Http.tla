-------------------------------- MODULE Http --------------------------------
(***************************************************************************)
(* The API as its clients see it: who may ask about a cluster, and what    *)
(* they are told of it, while the service goes on with all its activities. *)
(*                                                                         *)
(* An answer counts from the moment the row was read or inserted for it: on*)
(* their way to the client answers may overtake each other or be lost.     *)
(***************************************************************************)
EXTENDS ClusterOwnership

VARIABLES
  told,    \* what each client was last told of each cluster
  asked    \* the clusters each client has asked to be deleted

httpVars == <<vars, told, asked>>

(* 200 with one of the first three, 410 (or an entry of a list), 404.      *)
Answers == ClusterStates \cup {"NotFound"}

(* Slip: the row is looked up by its id alone.                             *)
BugVisible(o, c) == c \in Live

(* get_owned finds a row by its id and its owner.                          *)
Visible(o, c) == c \in Live /\ rows[c].owner = o

Answer(o, c) == IF Visible(o, c) THEN rows[c].state ELSE "NotFound"
-----------------------------------------------------------------------------
(* 202 with the id, once the row is inserted.                              *)
Post(c, o) ==
  /\ Create(c, o)
  /\ told' = [told EXCEPT ![o][c] = "Spawning"]
  /\ UNCHANGED asked

(* A client that has never heard of an id is told that there is no such    *)
(* cluster, which is no news.                                              *)
News(o, c) == IF told[o][c] = "nothing" /\ Answer(o, c) = "NotFound"
              THEN "nothing" ELSE Answer(o, c)

Get(o, c) ==
  /\ proc = "serving"
  /\ told' = [told EXCEPT ![o][c] = News(o, c)]
  /\ UNCHANGED <<vars, asked>>

(* list_by_owner finds the same rows as get_owned does one by one.         *)
List(o) ==
  /\ proc = "serving"
  /\ told' = [told EXCEPT ![o] = [c \in Clusters |-> News(o, c)]]
  /\ UNCHANGED <<vars, asked>>

Delete(r, o, c) ==
  /\ Visible(o, c)
  /\ DeleteRead(r, c)
  /\ asked' = [asked EXCEPT ![o] = @ \cup {c}]
  /\ UNCHANGED told

(* 202, which is no news to a client that has seen the cluster gone.       *)
Deleted(d) ==
  /\ DeleteDispatch(d)
  /\ told' = [told EXCEPT ![d.cluster.owner][d.cluster.id] =
                IF @ = "NotFound" THEN @ ELSE "Deleting"]
  /\ UNCHANGED asked
-----------------------------------------------------------------------------
HttpInit ==
  /\ Init
  /\ told = [o \in Owners |-> [c \in Clusters |-> "nothing"]]
  /\ asked = [o \in Owners |-> {}]

HttpNext ==
  \/ \E c \in Clusters, o \in Owners : Post(c, o) \/ Get(o, c)
  \/ \E o \in Owners : List(o)
  \/ \E r \in Requests, o \in Owners, c \in Clusters : Delete(r, o, c)
  \/ \E d \in deletes : Deleted(d)
  \/ Background /\ UNCHANGED <<told, asked>>

HttpSpec == HttpInit /\ [][HttpNext]_httpVars
-----------------------------------------------------------------------------
(* What a client may be told of a cluster after what it was told before.   *)
(* A cluster that was Deleting may be Ready or Failed again, by the write  *)
(* of a spawn that was not cancelled in time, but it never spawns again.   *)
MayFollow(said, answer) ==
  CASE said = "nothing"  -> answer \in {"Spawning", "Ready", "Failed", "Deleting", "NotFound"}
    [] said = "Spawning" -> answer \in {"Spawning", "Ready", "Failed", "Deleting", "NotFound"}
    [] said = "Ready"    -> answer \in {"Ready", "Failed", "Deleting", "NotFound"}
    [] said = "Failed"   -> answer \in {"Failed", "Deleting", "NotFound"}
    [] said = "Deleting" -> answer \in {"Deleting", "Ready", "Failed", "NotFound"}
    [] said = "NotFound" -> answer = "NotFound"

(* Whatever the service does meanwhile, the next answer about a cluster    *)
(* never takes back an earlier one: Failed is not Ready in the end, a 404  *)
(* is for good, and nobody hears of a cluster that is not its own          *)
(* (DESIGN.md:66-68, cluster_service.rs:161-163).                          *)
NoNewsIsUndone ==
  /\ told \in [Owners -> [Clusters -> Answers \cup {"nothing"}]]
  /\ \A o \in Owners, c \in Clusters :
       /\ MayFollow(told[o][c], Answer(o, c))
       /\ told[o][c] # "nothing" => c \in used /\ (c \in Live => rows[c].owner = o)

(* A cluster is given up only because its own owner asked for it, because  *)
(* its time was over when it was, or because the process that ran it is    *)
(* gone (cluster_service.rs:207-211, ttl_reaper.rs:31-45,                  *)
(* reconciliation.rs:42-61).                                               *)
OnlyForAReason ==
  [][\A c \in Live :
       rows[c].state # "Deleting" /\ (c \in Live' => rows'[c].state = "Deleting") =>
         \/ c \in asked[rows[c].owner]
         \/ c \in due
         \/ proc = "reconciling"]_httpVars
=============================================================================
