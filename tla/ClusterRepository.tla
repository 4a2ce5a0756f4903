------------------------- MODULE ClusterRepository --------------------------
(***************************************************************************)
(* The SQLite table of clusters (adapters::sqlite_repository).  Every      *)
(* operation runs as one closure on a blocking thread while it holds the   *)
(* connection's mutex, so each is one atomic step, whatever happens to the *)
(* future that awaits it.  The operations are written as constraints on    *)
(* rows' for the actions of ClusterService to conjoin.                     *)
(*                                                                         *)
(* rows is the table: a function from the ids that have a row to the       *)
(* Cluster stored there.  A Cluster value is also what the program copies  *)
(* out of a row and keeps in memory while the row moves on.                *)
(***************************************************************************)
EXTENDS ClusterState, Naturals, FiniteSets

CONSTANTS Clusters,    \* the ids the generator may ever hand out, each once
          Owners,      \* the configured clients
          MaxPerUser   \* limits.max_clusters_per_user

ASSUME RepositoryAssumption == MaxPerUser \in Nat \ {0}

VARIABLE rows

Slots == 0 .. (MaxPerUser - 1)

(* worker says whether the owner's unix account has been recorded on the   *)
(* cluster; which account it is follows from the owner.                    *)
Cluster == [id     : Clusters,
            owner  : Owners,
            slot   : Slots,
            state  : ClusterStates,
            worker : BOOLEAN]

Live == DOMAIN rows

(* Slip: a row that is being deleted no longer counts.                     *)
BugDeletingNotCounted(o) == {c \in Live : rows[c].owner = o /\ rows[c].state # "Deleting"}

RowsOf(o)    == {c \in Live : rows[c].owner = o}
UsedSlots(o) == {rows[c].slot : c \in RowsOf(o)}
FreeSlots(o) == Slots \ UsedSlots(o)

(* Slip: the number of rows is taken as the next slot.                     *)
BugSlotIsCount(o) == Cardinality(RowsOf(o))
LowestFreeSlot(o) ==
  CHOOSE s \in FreeSlots(o) : \A t \in FreeSlots(o) : s <= t

UnderQuota(o) == Cardinality(RowsOf(o)) < MaxPerUser

NewCluster(c, o) == [id     |-> c,
                     owner  |-> o,
                     slot   |-> LowestFreeSlot(o),
                     state  |-> "Spawning",
                     worker |-> FALSE]

(* try_insert_if_under_quota: count, pick the lowest free slot and insert  *)
(* in one transaction.  An owner under quota with no free slot would get   *)
(* the CorruptRow error.                                                   *)
TryInsert(c, o) ==
  /\ UnderQuota(o)
  /\ FreeSlots(o) # {}
  /\ rows' = [x \in Live \cup {c} |-> IF x = c THEN NewCluster(c, o) ELSE rows[x]]

(* Slip: update_state inserts a row that is missing.                       *)
BugUpdateInserts(c, s) ==
  rows' = [x \in Live \cup {c} |->
             IF x # c THEN rows[x]
             ELSE [id |-> c, owner |-> CHOOSE o \in Owners : TRUE, slot |-> 0,
                   state |-> s, worker |-> FALSE]]

(* Slip: update_state replaces the row, not just its state.                *)
BugUpdateReplacesRow(c, s) == c \in Live /\ rows' = [rows EXCEPT ![c] = [id |-> c, state |-> s]]

(* Slip: set_worker answers Ok without storing anything.                   *)
BugWorkerNotStored(c) == c \in Live /\ UNCHANGED rows

(* update_state and set_worker fail when the row is gone: they never       *)
(* insert, and each replaces its own field only.                           *)
UpdateState(c, s) == c \in Live /\ rows' = [rows EXCEPT ![c].state = s]
SetWorker(c)      == c \in Live /\ rows' = [rows EXCEPT ![c].worker = TRUE]

(* delete is idempotent: deleting a row that is gone changes nothing.      *)
DeleteRow(c) == rows' = [x \in Live \ {c} |-> rows[x]]

(* list_all copies every row out.                                          *)
ListAll == {rows[c] : c \in Live}
-----------------------------------------------------------------------------
RowsOK ==
  /\ Live \subseteq Clusters
  /\ rows = [c \in Live |-> rows[c]]
  /\ \A c \in Live : rows[c] \in Cluster /\ rows[c].id = c

(* Two clusters of one owner never hold the same slot, so no two live      *)
(* clusters share a data directory, however creates, deletes and failed    *)
(* writes interleave (DESIGN 6; spawn_task.rs:74-75).                      *)
SlotsExclusive ==
  \A c, d \in Live :
     rows[c].owner = rows[d].owner /\ rows[c].slot = rows[d].slot => c = d

(* No owner ever has more rows than the limit, rows that are Deleting or   *)
(* stuck included (cluster_service.rs:31-33).                              *)
QuotaRespected ==
  \A o \in Owners : Cardinality({c \in Live : rows[c].owner = o}) <= MaxPerUser
=============================================================================
