-------------------------- MODULE SqliteRepository --------------------------
(***************************************************************************)
(* How ClusterRepository is stored: a SQLite table with the columns id,    *)
(* owner and data_json, and the documents that clusters become in the      *)
(* third.  An update reads a document, replaces one field and writes the   *)
(* document back; a list reads every document or fails.                    *)
(*                                                                         *)
(* A document is the tree that serde writes out and reads in again: its    *)
(* text is abstracted, its fields and tags are not.  An enum in memory is  *)
(* a record with the field "variant", an Option a set of at most one       *)
(* element.                                                                *)
(***************************************************************************)
EXTENDS Naturals, FiniteSets

CONSTANTS Clusters, Owners, MaxPerUser,   \* as in ClusterRepository
          Text, Time, Number              \* strings, timestamps, integers

VARIABLE table    \* id -> [owner, data_json]
-----------------------------------------------------------------------------
(* Clusters in memory                                                      *)

(* Redacted<String>: only expose takes the value out.                      *)
Redacted  == [hidden : Text]
Redact(s) == [hidden |-> s]
Expose(r) == r.hidden

PostgresInfo ==
  [host : Text, port : Number, dbname : Text, user : Text, password : Redacted]

SupabaseInfo ==
  [api_url : Text, postgres : PostgresInfo,
   anon_key : Redacted, service_role_key : Redacted, jwt_secret : Redacted]

ConnectionInfo ==
  [variant : {"Postgres"}, info : PostgresInfo] \cup
  [variant : {"Supabase"}, info : SupabaseInfo]

DeleteReasons == {"user_requested", "ttl_expired", "spawn_failed", "admin_forced"}

ClusterState ==
  [variant : {"Spawning"}, started_at : Time] \cup
  [variant : {"Ready"}, ready_at : Time, decommission_at : Time,
   connection : ConnectionInfo] \cup
  [variant : {"Failed"}, failed_at : Time, error_summary : Text] \cup
  [variant : {"Deleting"}, deleting_since : Time, reason : DeleteReasons]

(* PersistedWorker has the fields of WorkerUser, PersistedCluster::service *)
(* is the ServiceSpec itself.                                              *)
WorkerUser  == [name : Text, uid : Number, gid : Number]
ServiceSpec == [kind : {"postgres", "supabase"}, pgvector : BOOLEAN]

(* TimeDelta is exact to the nanosecond, what is stored to the second.     *)
TimeDelta     == [secs : Number, nanos : Nat]
Seconds(n)    == [secs |-> n, nanos |-> 0]
NumSeconds(d) == d.secs

Slots == 0 .. (MaxPerUser - 1)

Cluster ==
  [id : Clusters, owner : Owners, service : ServiceSpec, requested_ttl : TimeDelta,
   requested_at : Time, state : ClusterState,
   worker : {{}} \cup {{w} : w \in WorkerUser}, slot : Slots]
-----------------------------------------------------------------------------
(* Documents, and the way there and back                                   *)

PostgresDoc ==
  [host : Text, port : Number, dbname : Text, user : Text, password : Text]

ConnectionDoc ==
  [kind : {"postgres"}, host : Text, port : Number, dbname : Text, user : Text,
   password : Text] \cup
  [kind : {"supabase"}, api_url : Text, postgres : PostgresDoc,
   anon_key : Text, service_role_key : Text, jwt_secret : Text]

StateDoc ==
  [status : {"spawning"}, started_at : Time] \cup
  [status : {"ready"}, ready_at : Time, decommission_at : Time,
   connection : ConnectionDoc] \cup
  [status : {"failed"}, failed_at : Time, error_summary : Text] \cup
  [status : {"deleting"}, deleting_since : Time, reason : DeleteReasons]

PersistPostgres(c) == [c EXCEPT !.password = Expose(@)]
RestorePostgres(d) == [d EXCEPT !.password = Redact(@)]

(* The Postgres variant is flat, with the fields next to the tag.          *)
PersistConnection(c) ==
  IF c.variant = "Postgres"
  THEN LET d == PersistPostgres(c.info) IN
       [kind |-> "postgres", host |-> d.host, port |-> d.port,
        dbname |-> d.dbname, user |-> d.user, password |-> d.password]
  ELSE [kind |-> "supabase", api_url |-> c.info.api_url,
        postgres |-> PersistPostgres(c.info.postgres),
        anon_key |-> Expose(c.info.anon_key),
        service_role_key |-> Expose(c.info.service_role_key),
        jwt_secret |-> Expose(c.info.jwt_secret)]

RestoreConnection(d) ==
  IF d.kind = "postgres"
  THEN [variant |-> "Postgres",
        info |-> [host |-> d.host, port |-> d.port, dbname |-> d.dbname,
                  user |-> d.user, password |-> Redact(d.password)]]
  ELSE [variant |-> "Supabase",
        info |-> [api_url |-> d.api_url, postgres |-> RestorePostgres(d.postgres),
                  anon_key |-> Redact(d.anon_key),
                  service_role_key |-> Redact(d.service_role_key),
                  jwt_secret |-> Redact(d.jwt_secret)]]

PersistState(s) ==
  CASE s.variant = "Spawning" -> [status |-> "spawning", started_at |-> s.started_at]
    [] s.variant = "Ready" ->
         [status |-> "ready", ready_at |-> s.ready_at,
          decommission_at |-> s.decommission_at,
          connection |-> PersistConnection(s.connection)]
    [] s.variant = "Failed" ->
         [status |-> "failed", failed_at |-> s.failed_at, error_summary |-> s.error_summary]
    [] s.variant = "Deleting" ->
         [status |-> "deleting", deleting_since |-> s.deleting_since, reason |-> s.reason]

RestoreState(d) ==
  CASE d.status = "spawning" -> [variant |-> "Spawning", started_at |-> d.started_at]
    [] d.status = "ready" ->
         [variant |-> "Ready", ready_at |-> d.ready_at,
          decommission_at |-> d.decommission_at,
          connection |-> RestoreConnection(d.connection)]
    [] d.status = "failed" ->
         [variant |-> "Failed", failed_at |-> d.failed_at, error_summary |-> d.error_summary]
    [] d.status = "deleting" ->
         [variant |-> "Deleting", deleting_since |-> d.deleting_since, reason |-> d.reason]

ClusterDoc ==
  [service : ServiceSpec, requested_ttl_secs : Number, requested_at : Time,
   state : StateDoc, worker : {{}} \cup {{w} : w \in WorkerUser}, slot : Slots]

ToPersisted(c) ==
  [service |-> c.service, requested_ttl_secs |-> NumSeconds(c.requested_ttl),
   requested_at |-> c.requested_at, state |-> PersistState(c.state),
   worker |-> c.worker, slot |-> c.slot]

FromRow(id, owner, d) ==
  [id |-> id, owner |-> owner, service |-> d.service,
   requested_ttl |-> Seconds(d.requested_ttl_secs), requested_at |-> d.requested_at,
   state |-> RestoreState(d.state), worker |-> d.worker, slot |-> d.slot]

(* What serde_json::from_str accepts as a PersistedCluster.                *)
Readable(d) == d \in ClusterDoc
-----------------------------------------------------------------------------
(* The statements                                                          *)

Ids == DOMAIN table

RowsOf(o) == {id \in Ids : table[id].owner = o}

(* A document that cannot be read counts in the quota and holds no slot.   *)
UsedSlots(o) ==
  {table[id].data_json.slot : id \in {x \in RowsOf(o) : Readable(table[x].data_json)}}

FreeSlots(o) == Slots \ UsedSlots(o)
FirstFreeSlot(o) == CHOOSE s \in FreeSlots(o) : \A t \in FreeSlots(o) : s <= t

Insert(c) ==
  /\ c.id \notin Ids
  /\ Cardinality(RowsOf(c.owner)) < MaxPerUser
  /\ FreeSlots(c.owner) # {}
  /\ LET stored == [c EXCEPT !.slot = FirstFreeSlot(c.owner)] IN
     table' = [id \in Ids \cup {c.id} |->
                 IF id = c.id THEN [owner |-> c.owner, data_json |-> ToPersisted(stored)]
                 ELSE table[id]]

UpdateState(id, s) ==
  /\ id \in Ids /\ Readable(table[id].data_json)
  /\ table' = [table EXCEPT ![id].data_json.state = PersistState(s)]

SetWorker(id, w) ==
  /\ id \in Ids /\ Readable(table[id].data_json)
  /\ table' = [table EXCEPT ![id].data_json.worker = {w}]

Delete(id) == table' = [x \in Ids \ {id} |-> table[x]]

(* What get_any, list_by_owner and list_all find; a list fails when one of *)
(* its rows cannot be read.                                                *)
GetAny(id)      == FromRow(id, table[id].owner, table[id].data_json)
GetOwned(id, o) == {FromRow(x, o, table[x].data_json) : x \in RowsOf(o) \cap {id}}
ListByOwner(o)  == {FromRow(x, o, table[x].data_json) : x \in RowsOf(o)}
ListAll         == {GetAny(id) : id \in Ids}
ListAllFails    == \E id \in Ids : ~Readable(table[id].data_json)
-----------------------------------------------------------------------------
(* ClusterService::create: a TTL of whole seconds, no worker yet, and a    *)
(* slot that the repository replaces.                                      *)
NewCluster(id, owner, service, ttl_secs, now) ==
  [id |-> id, owner |-> owner, service |-> service, requested_ttl |-> Seconds(ttl_secs),
   requested_at |-> now, state |-> [variant |-> "Spawning", started_at |-> now],
   worker |-> {}, slot |-> 0]

NewClusters ==
  {NewCluster(id, o, service, n, now) :
     id \in Clusters, o \in Owners, service \in ServiceSpec, n \in Number, now \in Time}

(* An empty file gets the table; one that has it keeps its rows.           *)
Init == table = << >>

Next ==
  \/ \E c \in NewClusters : Insert(c)
  \/ \E id \in Clusters : \/ \E s \in ClusterState : UpdateState(id, s)
                          \/ \E w \in WorkerUser : SetWorker(id, w)
                          \/ Delete(id)

Spec == Init /\ [][Next]_table
-----------------------------------------------------------------------------
(* Every document in the table can be read, so no sweep, reconciliation or *)
(* request ever fails on a row this program wrote (ports/repository.rs:    *)
(* 42-46, the errors Serde and CorruptRow), and the ways to read a row     *)
(* agree: what a client lists is what it gets one by one.                  *)
EveryRowReads ==
  /\ ~ListAllFails
  /\ ListAll \subseteq Cluster
  /\ \A o \in Owners : ListByOwner(o) = {c \in ListAll : c.owner = o}
  /\ \A o \in Owners, id \in Clusters : GetOwned(id, o) = {c \in ListByOwner(o) : c.id = id}

(* A cluster is read back as it was created, but for its slot.             *)
CreatedAsGiven ==
  [][\A id \in Ids' \ Ids :
       \E c \in NewClusters : GetAny(id)' = [c EXCEPT !.slot = FirstFreeSlot(c.owner)]]_table

(* An update changes the state or the worker of one row and no other field *)
(* or row: the passwords and keys of a Ready cluster are the ones its      *)
(* spawn reported for as long as it is Ready (repository.rs, update_state  *)
(* and set_worker).                                                        *)
OnlyRow(id) ==
  \A x \in (Ids \cup Ids') \ {id} : x \in Ids \cap Ids' /\ GetAny(x)' = GetAny(x)

OneField(id) ==
  \/ \E s \in ClusterState : GetAny(id)' = [GetAny(id) EXCEPT !.state = s]
  \/ \E w \in WorkerUser : GetAny(id)' = [GetAny(id) EXCEPT !.worker = {w}]

OneFieldAtATime ==
  [][\A id \in Ids \cap Ids' :
       GetAny(id)' = GetAny(id) \/ (OnlyRow(id) /\ OneField(id))]_table

(* The table is the one of ClusterRepository, whose clusters are these     *)
(* without the details.                                                    *)
Abstract(c) == [id |-> c.id, owner |-> c.owner, slot |-> c.slot,
                state |-> c.state.variant, worker |-> c.worker # {}]

Rows == [id \in Ids |-> Abstract(GetAny(id))]

Repository == INSTANCE ClusterRepository WITH rows <- Rows

RepositoryStep ==
  \/ \E c \in Clusters, o \in Owners : Repository!TryInsert(c, o)
  \/ \E c \in Clusters : \/ \E s \in Repository!ClusterStates : Repository!UpdateState(c, s)
                         \/ Repository!SetWorker(c)
                         \/ Repository!DeleteRow(c)

ImplementsRepository == Rows = << >> /\ [][RepositoryStep]_Rows
=============================================================================
