----------------------- MODULE SqliteRepositoryProofs -----------------------
(***************************************************************************)
(* What is read from the table, for any strings, times and numbers and any *)
(* number of clients and clusters.  The conversions are inverse to each    *)
(* other, part by part; from that every row reads, an update touches one   *)
(* field of one row, and the table is the one ClusterRepository describes. *)
(***************************************************************************)
EXTENDS SqliteRepository, WellFoundedInduction, TLAPS

(* A secret is stored in the clear and comes back hidden.                  *)
LEMMA PostgresReadsBack ==
  ASSUME NEW c \in PostgresInfo
  PROVE  /\ PersistPostgres(c) \in PostgresDoc
         /\ RestorePostgres(PersistPostgres(c)) = c
<1>1. c.password \in Redacted /\ c.password = [hidden |-> c.password.hidden]
  BY DEF PostgresInfo, Redacted
<1>2. PersistPostgres(c) \in PostgresDoc
  BY <1>1 DEF PersistPostgres, Expose, PostgresInfo, PostgresDoc, Redacted
<1>3. RestorePostgres(PersistPostgres(c)) = [c EXCEPT !.password = Redact(Expose(c.password))]
  BY DEF RestorePostgres, PersistPostgres, PostgresInfo
<1>4. Redact(Expose(c.password)) = c.password
  BY <1>1 DEF Redact, Expose
<1>. QED  BY <1>2, <1>3, <1>4 DEF PostgresInfo

LEMMA PostgresReads ==
  ASSUME NEW d \in PostgresDoc
  PROVE  RestorePostgres(d) \in PostgresInfo
BY DEF RestorePostgres, Redact, PostgresInfo, PostgresDoc, Redacted

LEMMA SecretReadsBack ==
  ASSUME NEW r \in Redacted
  PROVE  Expose(r) \in Text /\ Redact(Expose(r)) = r
BY DEF Redacted, Redact, Expose

LEMMA ConnectionReadsBack ==
  ASSUME NEW c \in ConnectionInfo
  PROVE  /\ PersistConnection(c) \in ConnectionDoc
         /\ RestoreConnection(PersistConnection(c)) = c
<1>1. CASE c \in [variant : {"Postgres"}, info : PostgresInfo]
  <2>. DEFINE i == c.info
              d == PersistPostgres(i)
  <2>1. i \in PostgresInfo /\ c = [variant |-> "Postgres", info |-> i]
    BY <1>1
  <2>2. d \in PostgresDoc /\ d = [i EXCEPT !.password = Expose(@)]
    BY <2>1, PostgresReadsBack DEF PersistPostgres
  <2>3. PersistConnection(c) =
          [kind |-> "postgres", host |-> d.host, port |-> d.port,
           dbname |-> d.dbname, user |-> d.user, password |-> d.password]
    BY <2>1 DEF PersistConnection
  <2>4. PersistConnection(c) \in ConnectionDoc
    BY <2>2, <2>3 DEF ConnectionDoc, PostgresDoc
  <2>5. RestoreConnection(PersistConnection(c)) =
          [variant |-> "Postgres",
           info |-> [host |-> d.host, port |-> d.port, dbname |-> d.dbname,
                     user |-> d.user, password |-> Redact(d.password)]]
    BY <2>3 DEF RestoreConnection
  <2>6. d.host = i.host /\ d.port = i.port /\ d.dbname = i.dbname /\ d.user = i.user
        /\ d.password = Expose(i.password)
    BY <2>1, <2>2 DEF PostgresInfo
  <2>7. Redact(d.password) = i.password
    BY <2>1, <2>6, SecretReadsBack DEF PostgresInfo
  <2>8. i = [host |-> i.host, port |-> i.port, dbname |-> i.dbname,
             user |-> i.user, password |-> i.password]
    BY <2>1 DEF PostgresInfo
  <2>. QED  BY <2>1, <2>4, <2>5, <2>6, <2>7, <2>8
<1>2. CASE c \in [variant : {"Supabase"}, info : SupabaseInfo]
  <2>. DEFINE i == c.info
              d == PersistPostgres(i.postgres)
  <2>1. i \in SupabaseInfo /\ c = [variant |-> "Supabase", info |-> i]
    BY <1>2
  <2>2. /\ i.postgres \in PostgresInfo /\ i.api_url \in Text
        /\ i.anon_key \in Redacted /\ i.service_role_key \in Redacted
        /\ i.jwt_secret \in Redacted
    BY <2>1 DEF SupabaseInfo
  <2>3. d \in PostgresDoc /\ RestorePostgres(d) = i.postgres
    BY <2>2, PostgresReadsBack
  <2>. HIDE DEF d
  <2>4. PersistConnection(c) =
          [kind |-> "supabase", api_url |-> i.api_url, postgres |-> d,
           anon_key |-> Expose(i.anon_key),
           service_role_key |-> Expose(i.service_role_key),
           jwt_secret |-> Expose(i.jwt_secret)]
    BY <2>1 DEF PersistConnection, d
  <2>5. PersistConnection(c) \in ConnectionDoc
    BY <2>2, <2>3, <2>4, SecretReadsBack DEF ConnectionDoc
  <2>6. RestoreConnection(PersistConnection(c)) =
          [variant |-> "Supabase",
           info |-> [api_url |-> i.api_url, postgres |-> RestorePostgres(d),
                     anon_key |-> Redact(Expose(i.anon_key)),
                     service_role_key |-> Redact(Expose(i.service_role_key)),
                     jwt_secret |-> Redact(Expose(i.jwt_secret))]]
    BY <2>4 DEF RestoreConnection
  <2>7. i = [api_url |-> i.api_url, postgres |-> i.postgres, anon_key |-> i.anon_key,
             service_role_key |-> i.service_role_key, jwt_secret |-> i.jwt_secret]
    BY <2>1 DEF SupabaseInfo
  <2>8. /\ Redact(Expose(i.anon_key)) = i.anon_key
        /\ Redact(Expose(i.service_role_key)) = i.service_role_key
        /\ Redact(Expose(i.jwt_secret)) = i.jwt_secret
    BY <2>2, SecretReadsBack
  <2>. QED  BY <2>1, <2>3, <2>5, <2>6, <2>7, <2>8
<1>. QED  BY <1>1, <1>2 DEF ConnectionInfo
LEMMA ConnectionReads ==
  ASSUME NEW d \in ConnectionDoc
  PROVE  RestoreConnection(d) \in ConnectionInfo
<1>1. \A s \in Text : Redact(s) \in Redacted
  BY DEF Redact, Redacted
<1>2. CASE d.kind = "postgres"
  <2>1. /\ d.host \in Text /\ d.port \in Number /\ d.dbname \in Text
        /\ d.user \in Text /\ d.password \in Text
    BY <1>2 DEF ConnectionDoc
  <2>. QED  BY <1>1, <1>2, <2>1 DEF RestoreConnection, ConnectionInfo, PostgresInfo
<1>3. CASE d.kind # "postgres"
  <2>1. /\ d.api_url \in Text /\ d.postgres \in PostgresDoc /\ d.anon_key \in Text
        /\ d.service_role_key \in Text /\ d.jwt_secret \in Text
    BY <1>3 DEF ConnectionDoc
  <2>2. RestorePostgres(d.postgres) \in PostgresInfo
    BY <2>1, PostgresReads
  <2>. QED  BY <1>1, <1>3, <2>1, <2>2 DEF RestoreConnection, ConnectionInfo, SupabaseInfo
<1>. QED  BY <1>2, <1>3

(* A state is read back as it was written, whichever it is.                *)
LEMMA StateReadsBack ==
  ASSUME NEW s \in ClusterState
  PROVE  /\ PersistState(s) \in StateDoc
         /\ RestoreState(PersistState(s)) = s
<1>1. CASE s \in [variant : {"Spawning"}, started_at : Time]
  BY <1>1 DEF PersistState, RestoreState, StateDoc
<1>2. CASE s \in [variant : {"Ready"}, ready_at : Time, decommission_at : Time,
                  connection : ConnectionInfo]
  <2>. DEFINE d == PersistConnection(s.connection)
  <2>1. d \in ConnectionDoc /\ RestoreConnection(d) = s.connection
    BY <1>2, ConnectionReadsBack
  <2>. HIDE DEF d
  <2>2. PersistState(s) = [status |-> "ready", ready_at |-> s.ready_at,
                           decommission_at |-> s.decommission_at, connection |-> d]
    BY <1>2 DEF PersistState, d
  <2>3. PersistState(s) \in StateDoc
    BY <1>2, <2>1, <2>2 DEF StateDoc
  <2>4. RestoreState(PersistState(s)) =
          [variant |-> "Ready", ready_at |-> s.ready_at,
           decommission_at |-> s.decommission_at, connection |-> s.connection]
    BY <2>1, <2>2 DEF RestoreState
  <2>. QED  BY <1>2, <2>3, <2>4
<1>3. CASE s \in [variant : {"Failed"}, failed_at : Time, error_summary : Text]
  BY <1>3 DEF PersistState, RestoreState, StateDoc
<1>4. CASE s \in [variant : {"Deleting"}, deleting_since : Time, reason : DeleteReasons]
  BY <1>4 DEF PersistState, RestoreState, StateDoc
<1>. QED  BY <1>1, <1>2, <1>3, <1>4 DEF ClusterState

LEMMA StateReads ==
  ASSUME NEW d \in StateDoc
  PROVE  RestoreState(d) \in ClusterState
<1>1. CASE d \in [status : {"spawning"}, started_at : Time]
  BY <1>1 DEF RestoreState, ClusterState
<1>2. CASE d \in [status : {"ready"}, ready_at : Time, decommission_at : Time,
                  connection : ConnectionDoc]
  BY <1>2, ConnectionReads DEF RestoreState, ClusterState
<1>3. CASE d \in [status : {"failed"}, failed_at : Time, error_summary : Text]
  BY <1>3 DEF RestoreState, ClusterState
<1>4. CASE d \in [status : {"deleting"}, deleting_since : Time, reason : DeleteReasons]
  BY <1>4 DEF RestoreState, ClusterState
<1>. QED  BY <1>1, <1>2, <1>3, <1>4 DEF StateDoc

LEMMA ClusterReads ==
  ASSUME NEW id \in Clusters, NEW o \in Owners, NEW d \in ClusterDoc
  PROVE  FromRow(id, o, d) \in Cluster
<1>1. RestoreState(d.state) \in ClusterState
  BY StateReads DEF ClusterDoc
<1>2. Seconds(d.requested_ttl_secs) \in TimeDelta
  BY DEF Seconds, TimeDelta, ClusterDoc
<1>. QED  BY <1>1, <1>2 DEF FromRow, Cluster, ClusterDoc

(* The sub-second part of a TTL is all that would be lost.                 *)
LEMMA ClusterReadsBack ==
  ASSUME NEW c \in Cluster, c.requested_ttl.nanos = 0
  PROVE  /\ ToPersisted(c) \in ClusterDoc
         /\ FromRow(c.id, c.owner, ToPersisted(c)) = c
<1>. DEFINE d == PersistState(c.state)
<1>1. c.state \in ClusterState /\ c.requested_ttl \in TimeDelta
  BY DEF Cluster
<1>2. d \in StateDoc /\ RestoreState(d) = c.state
  BY <1>1, StateReadsBack
<1>3. NumSeconds(c.requested_ttl) \in Number
      /\ Seconds(NumSeconds(c.requested_ttl)) = c.requested_ttl
  BY <1>1 DEF TimeDelta, Seconds, NumSeconds
<1>. HIDE DEF d
<1>4. ToPersisted(c) =
        [service |-> c.service, requested_ttl_secs |-> NumSeconds(c.requested_ttl),
         requested_at |-> c.requested_at, state |-> d, worker |-> c.worker, slot |-> c.slot]
  BY DEF ToPersisted, d
<1>5. ToPersisted(c) \in ClusterDoc
  BY <1>2, <1>3, <1>4 DEF ClusterDoc, Cluster
<1>6. FromRow(c.id, c.owner, ToPersisted(c)) =
        [id |-> c.id, owner |-> c.owner, service |-> c.service,
         requested_ttl |-> c.requested_ttl, requested_at |-> c.requested_at,
         state |-> c.state, worker |-> c.worker, slot |-> c.slot]
  BY <1>2, <1>3, <1>4 DEF FromRow
<1>. QED  BY <1>5, <1>6 DEF Cluster
-----------------------------------------------------------------------------
(* The table: every row belongs to a client and holds a document.          *)
TableOK ==
  /\ table = [id \in Ids |-> table[id]]
  /\ Ids \subseteq Clusters
  /\ \A id \in Ids : table[id] \in [owner : Owners, data_json : ClusterDoc]

(* The slot the repository picks is free whenever one is.                  *)
LEMMA FirstFreeSlotIsFree ==
  ASSUME NEW o, FreeSlots(o) # {}
  PROVE  FirstFreeSlot(o) \in FreeSlots(o)
<1>. DEFINE lt == {p \in Nat \X Nat : p[1] < p[2]}
<1>1. FreeSlots(o) \subseteq Nat
  BY DEF FreeSlots, Slots
<1>2. IsWellFoundedOn(lt, Nat)
  BY NatLessThanWellFounded DEF OpToRel
<1>3. PICK s \in FreeSlots(o) : \A t \in FreeSlots(o) : ~(<<t, s>> \in lt)
  <2>. HIDE DEF lt
  <2>. QED  BY <1>1, <1>2, WFMin
<1>4. ASSUME NEW t \in FreeSlots(o) PROVE s <= t
  <2>1. s \in Nat /\ t \in Nat
    BY <1>1
  <2>2. <<t, s>> \in Nat \X Nat /\ <<t, s>>[1] = t /\ <<t, s>>[2] = s
    BY <2>1
  <2>3. ~(t < s)
    BY <1>3, <2>2
  <2>. QED  BY <2>1, <2>3
<1>. QED  BY <1>4 DEF FirstFreeSlot

(* What create hands over becomes a cluster once it has a slot.            *)
LEMMA NewClusterGetsSlot ==
  ASSUME NEW c \in NewClusters, NEW s \in Slots
  PROVE  /\ [c EXCEPT !.slot = s] \in Cluster
         /\ c.id \in Clusters /\ c.owner \in Owners
         /\ c.requested_ttl.nanos = 0 /\ c.state.variant = "Spawning" /\ c.worker = {}
         /\ [c EXCEPT !.slot = s].id = c.id /\ [c EXCEPT !.slot = s].owner = c.owner
         /\ [c EXCEPT !.slot = s].slot = s /\ [c EXCEPT !.slot = s].state = c.state
         /\ [c EXCEPT !.slot = s].worker = c.worker
         /\ [c EXCEPT !.slot = s].requested_ttl = c.requested_ttl
<1>1. PICK id \in Clusters, o \in Owners, service \in ServiceSpec, n \in Number, now \in Time :
        c = NewCluster(id, o, service, n, now)
  BY DEF NewClusters
<1>2. Seconds(n) \in TimeDelta /\ Seconds(n).nanos = 0
  BY DEF Seconds, TimeDelta
<1>3. [variant |-> "Spawning", started_at |-> now] \in ClusterState
  BY DEF ClusterState
<1>. QED  BY <1>1, <1>2, <1>3 DEF NewCluster, Cluster

LEMMA InsertOK ==
  ASSUME TableOK, NEW c \in NewClusters, Insert(c)
  PROVE  /\ TableOK'
         /\ c.id \in Clusters \ Ids /\ Ids' = Ids \cup {c.id}
         /\ FirstFreeSlot(c.owner) \in FreeSlots(c.owner)
         /\ GetAny(c.id)' = [c EXCEPT !.slot = FirstFreeSlot(c.owner)]
         /\ \A x \in Ids : table'[x] = table[x]
<1>. DEFINE new == [c EXCEPT !.slot = FirstFreeSlot(c.owner)]
            row == [owner |-> c.owner, data_json |-> ToPersisted(new)]
<1>1. FirstFreeSlot(c.owner) \in FreeSlots(c.owner) /\ FirstFreeSlot(c.owner) \in Slots
  BY FirstFreeSlotIsFree DEF Insert, FreeSlots
<1>2. /\ new \in Cluster /\ new.requested_ttl.nanos = 0
      /\ new.id = c.id /\ new.owner = c.owner /\ c.id \in Clusters /\ c.owner \in Owners
  BY <1>1, NewClusterGetsSlot
<1>3. c.id \notin Ids
      /\ table' = [id \in Ids \cup {c.id} |-> IF id = c.id THEN row ELSE table[id]]
  BY DEF Insert
<1>. HIDE DEF new
<1>4. ToPersisted(new) \in ClusterDoc /\ FromRow(c.id, c.owner, ToPersisted(new)) = new
  BY <1>2, ClusterReadsBack
<1>5. row \in [owner : Owners, data_json : ClusterDoc]
      /\ row.owner = c.owner /\ row.data_json = ToPersisted(new)
  BY <1>2, <1>4
<1>. HIDE DEF row
<1>6. /\ Ids' = Ids \cup {c.id}
      /\ table'[c.id] = row
      /\ \A x \in Ids : table'[x] = table[x]
  BY <1>3 DEF Ids
<1>7. TableOK'
  BY <1>2, <1>3, <1>5, <1>6 DEF TableOK, Ids
<1>8. GetAny(c.id)' = new
  BY <1>4, <1>5, <1>6 DEF GetAny
<1>. QED  BY <1>1, <1>2, <1>3, <1>6, <1>7, <1>8 DEF new

(* An update touches one field of one document.                            *)
LEMMA UpdateStateOK ==
  ASSUME TableOK, NEW id, NEW s \in ClusterState, UpdateState(id, s)
  PROVE  /\ TableOK'
         /\ id \in Ids /\ Ids' = Ids
         /\ GetAny(id)' = [GetAny(id) EXCEPT !.state = s]
         /\ \A x \in Ids \ {id} : table'[x] = table[x]
<1>. DEFINE doc == table[id].data_json
            new == [doc EXCEPT !.state = PersistState(s)]
            row == [owner |-> table[id].owner, data_json |-> new]
<1>1. PersistState(s) \in StateDoc /\ RestoreState(PersistState(s)) = s
  BY StateReadsBack
<1>2. id \in Ids /\ id \in Clusters /\ doc \in ClusterDoc /\ table[id].owner \in Owners
      /\ table[id] = [owner |-> table[id].owner, data_json |-> doc]
  BY DEF UpdateState, TableOK
<1>3. table' = [table EXCEPT ![id] = row]
  <2>1. table' = [table EXCEPT ![id] = [table[id] EXCEPT !.data_json = new]]
    BY DEF UpdateState
  <2>2. [table[id] EXCEPT !.data_json = new] = row
    BY <1>2
  <2>. QED  BY <2>1, <2>2
<1>4. new \in ClusterDoc
  BY <1>1, <1>2 DEF ClusterDoc
<1>5. /\ new.service = doc.service /\ new.requested_ttl_secs = doc.requested_ttl_secs
      /\ new.requested_at = doc.requested_at /\ new.state = PersistState(s)
      /\ new.worker = doc.worker /\ new.slot = doc.slot
  BY <1>2 DEF ClusterDoc
<1>. HIDE DEF new
<1>6. row \in [owner : Owners, data_json : ClusterDoc]
      /\ row.owner = table[id].owner /\ row.data_json = new
  BY <1>2, <1>4
<1>. HIDE DEF row
<1>7. Ids' = Ids /\ table'[id] = row /\ \A x \in Ids \ {id} : table'[x] = table[x]
  BY <1>2, <1>3 DEF TableOK, Ids
<1>8. TableOK'
  BY <1>3, <1>6, <1>7 DEF TableOK, Ids
<1>9. GetAny(id)' = FromRow(id, table[id].owner, new)
  BY <1>6, <1>7 DEF GetAny
<1>10. FromRow(id, table[id].owner, new) = [FromRow(id, table[id].owner, doc) EXCEPT !.state = s]
  BY <1>1, <1>5 DEF FromRow
<1>. QED  BY <1>2, <1>7, <1>8, <1>9, <1>10 DEF GetAny

LEMMA SetWorkerOK ==
  ASSUME TableOK, NEW id, NEW w \in WorkerUser, SetWorker(id, w)
  PROVE  /\ TableOK'
         /\ id \in Ids /\ Ids' = Ids
         /\ GetAny(id)' = [GetAny(id) EXCEPT !.worker = {w}]
         /\ \A x \in Ids \ {id} : table'[x] = table[x]
<1>. DEFINE doc == table[id].data_json
            new == [doc EXCEPT !.worker = {w}]
            row == [owner |-> table[id].owner, data_json |-> new]
<1>2. id \in Ids /\ id \in Clusters /\ doc \in ClusterDoc /\ table[id].owner \in Owners
      /\ table[id] = [owner |-> table[id].owner, data_json |-> doc]
  BY DEF SetWorker, TableOK
<1>3. table' = [table EXCEPT ![id] = row]
  <2>1. table' = [table EXCEPT ![id] = [table[id] EXCEPT !.data_json = new]]
    BY DEF SetWorker
  <2>2. [table[id] EXCEPT !.data_json = new] = row
    BY <1>2
  <2>. QED  BY <2>1, <2>2
<1>4. new \in ClusterDoc
  <2>1. {w} \in {{}} \cup {{v} : v \in WorkerUser}
    OBVIOUS
  <2>. QED  BY <1>2, <2>1 DEF ClusterDoc
<1>5. /\ new.service = doc.service /\ new.requested_ttl_secs = doc.requested_ttl_secs
      /\ new.requested_at = doc.requested_at /\ new.state = doc.state
      /\ new.worker = {w} /\ new.slot = doc.slot
  BY <1>2 DEF ClusterDoc
<1>. HIDE DEF new
<1>6. row \in [owner : Owners, data_json : ClusterDoc]
      /\ row.owner = table[id].owner /\ row.data_json = new
  BY <1>2, <1>4
<1>. HIDE DEF row
<1>7. Ids' = Ids /\ table'[id] = row /\ \A x \in Ids \ {id} : table'[x] = table[x]
  BY <1>2, <1>3 DEF TableOK, Ids
<1>8. TableOK'
  BY <1>3, <1>6, <1>7 DEF TableOK, Ids
<1>9. GetAny(id)' = FromRow(id, table[id].owner, new)
  BY <1>6, <1>7 DEF GetAny
<1>10. FromRow(id, table[id].owner, new) = [FromRow(id, table[id].owner, doc) EXCEPT !.worker = {w}]
  BY <1>5 DEF FromRow
<1>. QED  BY <1>2, <1>7, <1>8, <1>9, <1>10 DEF GetAny

LEMMA DeleteOK ==
  ASSUME TableOK, NEW id, Delete(id)
  PROVE  /\ TableOK'
         /\ Ids' = Ids \ {id}
         /\ \A x \in Ids \ {id} : table'[x] = table[x]
BY DEF TableOK, Delete, Ids

LEMMA TableCorrect == Spec => []TableOK
<1>1. Init => TableOK
  BY DEF Init, TableOK, Ids
<1>2. TableOK /\ [Next]_table => TableOK'
  <2>. SUFFICES ASSUME TableOK, [Next]_table PROVE TableOK'
    OBVIOUS
  <2>1. CASE UNCHANGED table
    BY <2>1 DEF TableOK, Ids
  <2>2. ASSUME NEW c \in NewClusters, Insert(c) PROVE TableOK'
    BY <2>2, InsertOK
  <2>3. ASSUME NEW id \in Clusters, NEW s \in ClusterState, UpdateState(id, s) PROVE TableOK'
    BY <2>3, UpdateStateOK
  <2>4. ASSUME NEW id \in Clusters, NEW w \in WorkerUser, SetWorker(id, w) PROVE TableOK'
    BY <2>4, SetWorkerOK
  <2>5. ASSUME NEW id \in Clusters, Delete(id) PROVE TableOK'
    BY <2>5, DeleteOK
  <2>. QED  BY <2>1, <2>2, <2>3, <2>4, <2>5 DEF Next
<1>. QED  BY <1>1, <1>2, PTL DEF Spec
-----------------------------------------------------------------------------
(* No row that the program wrote ever fails to be read, alone or in a      *)
(* list, so neither the reaper's sweep nor the pass over all rows at a     *)
(* start stops at one (ttl_reaper.rs:71-77, reconciliation.rs:42).         *)
THEOREM EveryRowAlwaysReads == Spec => []EveryRowReads
<1>1. ASSUME TableOK PROVE EveryRowReads
  <2>1. \A id \in Ids : /\ table[id].data_json \in ClusterDoc
                        /\ table[id].owner \in Owners /\ id \in Clusters
    BY <1>1 DEF TableOK
  <2>2. ~ListAllFails
    BY <2>1 DEF ListAllFails, Readable
  <2>3. \A id \in Ids : GetAny(id) \in Cluster /\ GetAny(id).owner = table[id].owner
    BY <2>1, ClusterReads DEF GetAny, FromRow
  <2>4. ASSUME NEW o \in Owners PROVE ListByOwner(o) = {c \in ListAll : c.owner = o}
    <3>1. \A id \in RowsOf(o) : id \in Ids /\ FromRow(id, o, table[id].data_json) = GetAny(id)
      BY DEF RowsOf, GetAny
    <3>2. ListByOwner(o) \subseteq {c \in ListAll : c.owner = o}
      BY <2>3, <3>1 DEF ListByOwner, ListAll, RowsOf
    <3>3. {c \in ListAll : c.owner = o} \subseteq ListByOwner(o)
      BY <2>3, <3>1 DEF ListByOwner, ListAll, RowsOf
    <3>. QED  BY <3>2, <3>3
  <2>5. ASSUME NEW o \in Owners, NEW id \in Clusters
        PROVE  GetOwned(id, o) = {c \in ListByOwner(o) : c.id = id}
    <3>1. \A x : FromRow(x, o, table[x].data_json).id = x
      BY DEF FromRow
    <3>. QED  BY <3>1 DEF GetOwned, ListByOwner
  <2>6. ListAll \subseteq Cluster
    BY <2>3 DEF ListAll
  <2>. QED  BY <2>2, <2>4, <2>5, <2>6 DEF EveryRowReads
<1>. QED  BY <1>1, TableCorrect, PTL

(* What is read of a row the step has left alone.                          *)
LEMMA UntouchedRowReadsTheSame ==
  ASSUME NEW id, table'[id] = table[id]
  PROVE  GetAny(id)' = GetAny(id)
BY DEF GetAny

(* A row is inserted by create alone, and reads back as create made it,    *)
(* with the slot that was free (cluster_service.rs:133-154).               *)
THEOREM CreatedReadsBack == Spec => CreatedAsGiven
<1>. DEFINE Given == \A id \in Ids' \ Ids :
               \E c \in NewClusters : GetAny(id)' = [c EXCEPT !.slot = FirstFreeSlot(c.owner)]
<1>1. TableOK /\ [Next]_table => [Given]_table
  <2>. SUFFICES ASSUME TableOK, Next PROVE Given
    OBVIOUS
  <2>1. ASSUME NEW c \in NewClusters, Insert(c) PROVE Given
    BY <2>1, InsertOK
  <2>2. ASSUME NEW id \in Clusters, NEW s \in ClusterState, UpdateState(id, s) PROVE Given
    BY <2>2, UpdateStateOK
  <2>3. ASSUME NEW id \in Clusters, NEW w \in WorkerUser, SetWorker(id, w) PROVE Given
    BY <2>3, SetWorkerOK
  <2>4. ASSUME NEW id \in Clusters, Delete(id) PROVE Given
    BY <2>4, DeleteOK
  <2>. QED  BY <2>1, <2>2, <2>3, <2>4 DEF Next
<1>. QED  BY <1>1, TableCorrect, PTL DEF Spec, CreatedAsGiven

(* A step that is not an insert or a delete changes the state, or the      *)
(* worker, of one row and nothing else, although it writes the whole       *)
(* document (sqlite_repository.rs:847-874 and 889-912).                    *)
THEOREM UpdatesTouchOneField == Spec => OneFieldAtATime
<1>. DEFINE Step == \A id \in Ids \cap Ids' :
               GetAny(id)' = GetAny(id) \/ (OnlyRow(id) /\ OneField(id))
<1>1. TableOK /\ [Next]_table => [Step]_table
  <2>. SUFFICES ASSUME TableOK, Next PROVE Step
    OBVIOUS
  <2>1. ASSUME NEW c \in NewClusters, Insert(c) PROVE Step
    BY <2>1, InsertOK, UntouchedRowReadsTheSame
  <2>2. ASSUME NEW id \in Clusters, NEW s \in ClusterState, UpdateState(id, s) PROVE Step
    <3>1. \A x \in Ids \ {id} : GetAny(x)' = GetAny(x)
      BY <2>2, UpdateStateOK, UntouchedRowReadsTheSame
    <3>2. Ids' = Ids /\ OneField(id)
      BY <2>2, UpdateStateOK DEF OneField
    <3>3. OnlyRow(id)
      BY <3>1, <3>2 DEF OnlyRow
    <3>. QED  BY <3>1, <3>2, <3>3
  <2>3. ASSUME NEW id \in Clusters, NEW w \in WorkerUser, SetWorker(id, w) PROVE Step
    <3>1. \A x \in Ids \ {id} : GetAny(x)' = GetAny(x)
      BY <2>3, SetWorkerOK, UntouchedRowReadsTheSame
    <3>2. Ids' = Ids /\ OneField(id)
      BY <2>3, SetWorkerOK DEF OneField
    <3>3. OnlyRow(id)
      BY <3>1, <3>2 DEF OnlyRow
    <3>. QED  BY <3>1, <3>2, <3>3
  <2>4. ASSUME NEW id \in Clusters, Delete(id) PROVE Step
    BY <2>4, DeleteOK, UntouchedRowReadsTheSame
  <2>. QED  BY <2>1, <2>2, <2>3, <2>4 DEF Next
<1>. QED  BY <1>1, TableCorrect, PTL DEF Spec, OneFieldAtATime
-----------------------------------------------------------------------------
(* The rows of ClusterRepository, seen from the table.                     *)
LEMMA RowsMirrorTable ==
  ASSUME TableOK
  PROVE  /\ Repository!Live = Ids
         /\ \A o : Repository!RowsOf(o) = RowsOf(o)
         /\ \A o : Repository!FreeSlots(o) = FreeSlots(o)
         /\ \A o : Repository!LowestFreeSlot(o) = FirstFreeSlot(o)
<1>1. Repository!Live = Ids
  BY DEF Repository!Live, Rows
<1>2. \A id \in Ids : /\ Rows[id].owner = table[id].owner
                      /\ Rows[id].slot = table[id].data_json.slot
                      /\ Readable(table[id].data_json)
  BY DEF Rows, Abstract, GetAny, FromRow, TableOK, Readable
<1>3. \A o : Repository!RowsOf(o) = RowsOf(o)
  BY <1>1, <1>2 DEF Repository!RowsOf, RowsOf, Rows
<1>4. \A o : Repository!UsedSlots(o) = UsedSlots(o)
  <2>. SUFFICES ASSUME NEW o PROVE Repository!UsedSlots(o) = UsedSlots(o)
    OBVIOUS
  <2>1. \A id \in RowsOf(o) : id \in Ids
    BY DEF RowsOf
  <2>2. Repository!UsedSlots(o) = {Rows[id].slot : id \in RowsOf(o)}
    BY <1>3 DEF Repository!UsedSlots, Rows
  <2>3. UsedSlots(o) = {table[id].data_json.slot : id \in RowsOf(o)}
    BY <1>2, <2>1 DEF UsedSlots
  <2>. QED  BY <1>2, <2>1, <2>2, <2>3
<1>5. \A o : Repository!FreeSlots(o) = FreeSlots(o)
  BY <1>4 DEF Repository!FreeSlots, FreeSlots, Repository!Slots, Slots
<1>6. \A o : Repository!LowestFreeSlot(o) = FirstFreeSlot(o)
  BY <1>5 DEF Repository!LowestFreeSlot, FirstFreeSlot
<1>. QED  BY <1>1, <1>3, <1>5, <1>6

(* (The provers take the Boolean field as a value of its own.)             *)
LEMMA AbstractRecord ==
  ASSUME NEW i, NEW o, NEW l, NEW s, NEW w, NEW x
  PROVE  LET r == [id |-> i, owner |-> o, slot |-> l, state |-> s, worker |-> w] IN
         /\ [r EXCEPT !.state = x] = [id |-> i, owner |-> o, slot |-> l, state |-> x, worker |-> w]
         /\ [r EXCEPT !.worker = x] = [id |-> i, owner |-> o, slot |-> l, state |-> s, worker |-> x]
OBVIOUS

LEMMA AbstractState ==
  ASSUME NEW id, NEW s
  PROVE  Abstract([GetAny(id) EXCEPT !.state = s]) =
           [Abstract(GetAny(id)) EXCEPT !.state = s.variant]
<1>. DEFINE c == GetAny(id)
            e == [c EXCEPT !.state = s]
            w == c.worker # {}
<1>1. e.id = c.id /\ e.owner = c.owner /\ e.slot = c.slot /\ e.state = s /\ e.worker = c.worker
  BY DEF GetAny, FromRow
<1>. HIDE DEF c, e
<1>2. /\ Abstract(c) = [id |-> c.id, owner |-> c.owner, slot |-> c.slot,
                        state |-> c.state.variant, worker |-> w]
      /\ Abstract(e) = [id |-> c.id, owner |-> c.owner, slot |-> c.slot,
                        state |-> s.variant, worker |-> w]
  BY <1>1, Zenon DEF Abstract
<1>. HIDE DEF w
<1>3. Abstract(e) = [Abstract(c) EXCEPT !.state = s.variant]
  BY <1>2, AbstractRecord
<1>. QED  BY <1>3 DEF c, e

LEMMA AbstractWorker ==
  ASSUME NEW id, NEW u
  PROVE  Abstract([GetAny(id) EXCEPT !.worker = {u}]) =
           [Abstract(GetAny(id)) EXCEPT !.worker = TRUE]
<1>. DEFINE c == GetAny(id)
            e == [c EXCEPT !.worker = {u}]
            w == c.worker # {}
            v == e.worker # {}
<1>1. e.id = c.id /\ e.owner = c.owner /\ e.slot = c.slot /\ e.state = c.state /\ e.worker = {u}
  BY DEF GetAny, FromRow
<1>. HIDE DEF c, e
<1>2. v = TRUE
  BY <1>1
<1>3. /\ Abstract(c) = [id |-> c.id, owner |-> c.owner, slot |-> c.slot,
                        state |-> c.state.variant, worker |-> w]
      /\ Abstract(e) = [id |-> c.id, owner |-> c.owner, slot |-> c.slot,
                        state |-> c.state.variant, worker |-> v]
  BY <1>1, Zenon DEF Abstract
<1>. HIDE DEF w, v
<1>4. Abstract(e) = [Abstract(c) EXCEPT !.worker = v]
  BY <1>3, AbstractRecord
<1>5. Abstract(e) = [Abstract(c) EXCEPT !.worker = TRUE]
  BY <1>2, <1>4, Zenon
<1>. QED  BY <1>5 DEF c, e

(* Every statement is the operation of ClusterRepository it stands for, so *)
(* what is shown of the service over that table holds over this one        *)
(* (ports/repository.rs, trait ClusterRepository).                         *)
THEOREM TableImplementsRepository == Spec => ImplementsRepository
<1>1. TableOK /\ [Next]_table => [RepositoryStep]_Rows
  <2>. SUFFICES ASSUME TableOK, Next PROVE RepositoryStep
    BY DEF Rows, Ids, GetAny
  <2>1. ASSUME NEW c \in NewClusters, Insert(c) PROVE RepositoryStep
    <3>. DEFINE new == [c EXCEPT !.slot = FirstFreeSlot(c.owner)]
    <3>1. /\ c.id \in Clusters \ Ids /\ Ids' = Ids \cup {c.id}
          /\ FirstFreeSlot(c.owner) \in Slots
          /\ GetAny(c.id)' = new
          /\ \A x \in Ids : GetAny(x)' = GetAny(x)
      BY <2>1, InsertOK, UntouchedRowReadsTheSame DEF FreeSlots
    <3>2. /\ new.id = c.id /\ new.owner = c.owner /\ c.owner \in Owners
          /\ new.slot = FirstFreeSlot(c.owner)
          /\ new.state.variant = "Spawning" /\ new.worker = {}
      BY <3>1, NewClusterGetsSlot
    <3>. HIDE DEF new
    <3>3. Abstract(new) = Repository!NewCluster(c.id, c.owner)
      BY <3>2, RowsMirrorTable DEF Abstract, Repository!NewCluster
    <3>4. Repository!UnderQuota(c.owner) /\ Repository!FreeSlots(c.owner) # {}
      <4>1. Cardinality(RowsOf(c.owner)) < MaxPerUser /\ FreeSlots(c.owner) # {}
        BY <2>1 DEF Insert
      <4>2. /\ Repository!RowsOf(c.owner) = RowsOf(c.owner)
            /\ Repository!FreeSlots(c.owner) = FreeSlots(c.owner)
        BY RowsMirrorTable
      <4>3. Repository!Cardinality(RowsOf(c.owner)) = Cardinality(RowsOf(c.owner))
        BY DEF Repository!Cardinality, Cardinality
      <4>. QED  BY <4>1, <4>2, <4>3 DEF Repository!UnderQuota
    <3>5. Rows' = [x \in Ids \cup {c.id} |->
                     IF x = c.id THEN Repository!NewCluster(c.id, c.owner) ELSE Rows[x]]
      BY <3>1, <3>3 DEF Rows
    <3>6. Repository!TryInsert(c.id, c.owner)
      BY <3>4, <3>5, RowsMirrorTable DEF Repository!TryInsert, Rows
    <3>. QED  BY <3>1, <3>2, <3>6 DEF RepositoryStep
  <2>2. ASSUME NEW id \in Clusters, NEW s \in ClusterState, UpdateState(id, s)
        PROVE  RepositoryStep
    <3>1. /\ id \in Ids /\ Ids' = Ids
          /\ GetAny(id)' = [GetAny(id) EXCEPT !.state = s]
          /\ \A x \in Ids \ {id} : GetAny(x)' = GetAny(x)
      BY <2>2, UpdateStateOK, UntouchedRowReadsTheSame
    <3>2. Abstract(GetAny(id)') = [Abstract(GetAny(id)) EXCEPT !.state = s.variant]
      BY <3>1, AbstractState
    <3>3. Rows' = [Rows EXCEPT ![id].state = s.variant]
      BY <3>1, <3>2 DEF Rows
    <3>4. s.variant \in Repository!ClusterStates
      BY DEF ClusterState, Repository!ClusterStates
    <3>5. Repository!UpdateState(id, s.variant)
      BY <3>1, <3>3, RowsMirrorTable DEF Repository!UpdateState, Rows
    <3>. QED  BY <3>4, <3>5 DEF RepositoryStep
  <2>3. ASSUME NEW id \in Clusters, NEW w \in WorkerUser, SetWorker(id, w)
        PROVE  RepositoryStep
    <3>1. /\ id \in Ids /\ Ids' = Ids
          /\ GetAny(id)' = [GetAny(id) EXCEPT !.worker = {w}]
          /\ \A x \in Ids \ {id} : GetAny(x)' = GetAny(x)
      BY <2>3, SetWorkerOK, UntouchedRowReadsTheSame
    <3>2. Abstract(GetAny(id)') = [Abstract(GetAny(id)) EXCEPT !.worker = TRUE]
      <4>1. Abstract(GetAny(id)') = Abstract([GetAny(id) EXCEPT !.worker = {w}])
        BY <3>1
      <4>2. Abstract([GetAny(id) EXCEPT !.worker = {w}]) =
              [Abstract(GetAny(id)) EXCEPT !.worker = TRUE]
        BY AbstractWorker
      <4>. QED  BY <4>1, <4>2, Zenon
    <3>3. Rows' = [Rows EXCEPT ![id].worker = TRUE]
      BY <3>1, <3>2 DEF Rows
    <3>4. Repository!SetWorker(id)
      BY <3>1, <3>3, RowsMirrorTable DEF Repository!SetWorker, Rows
    <3>. QED  BY <3>4 DEF RepositoryStep
  <2>4. ASSUME NEW id \in Clusters, Delete(id) PROVE RepositoryStep
    <3>1. /\ Ids' = Ids \ {id}
          /\ \A x \in Ids \ {id} : GetAny(x)' = GetAny(x)
      BY <2>4, DeleteOK, UntouchedRowReadsTheSame
    <3>2. Rows' = [x \in Ids \ {id} |-> Rows[x]]
      BY <3>1 DEF Rows
    <3>3. Repository!DeleteRow(id)
      BY <3>2, RowsMirrorTable DEF Repository!DeleteRow, Rows
    <3>. QED  BY <3>3 DEF RepositoryStep
  <2>. QED  BY <2>1, <2>2, <2>3, <2>4 DEF Next
<1>2. Init => Rows = << >>
  BY DEF Init, Rows, Ids
<1>. QED  BY <1>1, <1>2, TableCorrect, PTL DEF Spec, ImplementsRepository
=============================================================================
