------------------------ MODULE ClusterServiceProofs ------------------------
(***************************************************************************)
(* Theorems about ClusterService for any clusters, owners, quota, requests *)
(* and faults: the type invariant, that two clusters of one owner never    *)
(* share a slot, and, from that by counting, that no owner exceeds the     *)
(* quota.  First come the lemmas about the table's own operations.         *)
(***************************************************************************)
EXTENDS ClusterService, FiniteSetTheorems, WellFoundedInduction, TLAPS

(* The slot the allocator picks is free whenever one is.                   *)
LEMMA LowestFreeSlotIsFree ==
  ASSUME NEW o, FreeSlots(o) # {}
  PROVE  LowestFreeSlot(o) \in FreeSlots(o)
<1>. DEFINE lt == {p \in Nat \X Nat : p[1] < p[2]}
<1>1. FreeSlots(o) \subseteq Nat
  BY RepositoryAssumption DEF FreeSlots, Slots
<1>2. IsWellFoundedOn(lt, Nat)
  BY NatLessThanWellFounded DEF OpToRel
<1>3. PICK s \in FreeSlots(o) : \A t \in FreeSlots(o) : ~(<<t, s>> \in lt)
  <2>. HIDE DEF lt
  <2>. QED  BY <1>1, <1>2, WFMin
<1>4. ASSUME NEW t \in FreeSlots(o) PROVE s <= t
  <2>1. s \in Nat /\ t \in Nat
    BY <1>1
  <2>2. <<t, s>> \in Nat \X Nat /\ <<t, s>>[1] = t /\ <<t, s>>[2] = s
    BY <2>1
  <2>3. ~(t < s)
    BY <1>3, <2>2
  <2>. QED  BY <2>1, <2>3
<1>. QED  BY <1>4 DEF LowestFreeSlot

(* Inserting a fresh id keeps the table well formed.                       *)
LEMMA TryInsertOK ==
  ASSUME RowsOK, NEW c \in Clusters, NEW o \in Owners, c \notin Live, TryInsert(c, o)
  PROVE  /\ RowsOK'
         /\ Live' = Live \cup {c}
         /\ NewCluster(c, o) \in Cluster
         /\ rows'[c] = NewCluster(c, o)
         /\ \A x \in Live : rows'[x] = rows[x]
<1>1. LowestFreeSlot(o) \in Slots
  BY LowestFreeSlotIsFree DEF TryInsert, FreeSlots
<1>2. NewCluster(c, o) \in Cluster /\ NewCluster(c, o).id = c
  BY <1>1 DEF NewCluster, Cluster, ClusterStates
<1>. QED  BY <1>2 DEF TryInsert, RowsOK, Live

(* Replacing a state or recording an account keeps the table well formed   *)
(* and touches nothing else.                                               *)
LEMMA UpdateStateOK ==
  ASSUME RowsOK, NEW c, NEW s \in ClusterStates, UpdateState(c, s)
  PROVE  /\ RowsOK'
         /\ Live' = Live /\ c \in Live
         /\ rows'[c] = [rows[c] EXCEPT !.state = s]
         /\ \A x \in Live \ {c} : rows'[x] = rows[x]
<1>. DEFINE new == [rows[c] EXCEPT !.state = s]
<1>1. c \in Live /\ rows' = [rows EXCEPT ![c] = new]
  BY DEF UpdateState
<1>2. new \in Cluster /\ new.id = c
  BY <1>1 DEF RowsOK, Cluster
<1>3. Live' = Live /\ rows'[c] = new /\ \A x \in Live \ {c} : rows'[x] = rows[x]
  BY <1>1 DEF RowsOK, Live
<1>. HIDE DEF new
<1>4. RowsOK'
  BY <1>1, <1>2, <1>3 DEF RowsOK, Live
<1>. QED  BY <1>1, <1>3, <1>4 DEF new

LEMMA SetWorkerOK ==
  ASSUME RowsOK, NEW c, SetWorker(c)
  PROVE  /\ RowsOK'
         /\ Live' = Live /\ c \in Live
         /\ rows'[c] = [rows[c] EXCEPT !.worker = TRUE]
         /\ \A x \in Live \ {c} : rows'[x] = rows[x]
<1>. DEFINE new == [rows[c] EXCEPT !.worker = TRUE]
<1>1. c \in Live /\ rows' = [rows EXCEPT ![c] = new]
  BY DEF SetWorker
<1>2. new \in Cluster /\ new.id = c
  BY <1>1 DEF RowsOK, Cluster
<1>3. Live' = Live /\ rows'[c] = new /\ \A x \in Live \ {c} : rows'[x] = rows[x]
  BY <1>1 DEF RowsOK, Live
<1>. HIDE DEF new
<1>4. RowsOK'
  BY <1>1, <1>2, <1>3 DEF RowsOK, Live
<1>. QED  BY <1>1, <1>3, <1>4 DEF new

LEMMA DeleteRowOK ==
  ASSUME RowsOK, NEW c, DeleteRow(c)
  PROVE  /\ RowsOK'
         /\ Live' = Live \ {c}
         /\ \A x \in Live' : rows'[x] = rows[x]
BY DEF DeleteRow, RowsOK, Live
-----------------------------------------------------------------------------
(* An insert takes a slot that none of the owner's rows holds.             *)
LEMMA TryInsertKeepsSlots ==
  ASSUME RowsOK, SlotsExclusive, NEW c \in Clusters, NEW o \in Owners,
         c \notin Live, TryInsert(c, o)
  PROVE  SlotsExclusive'
<1>1. \A x \in Live : rows[x].owner = o => rows[x].slot # LowestFreeSlot(o)
  BY LowestFreeSlotIsFree DEF TryInsert, FreeSlots, UsedSlots, RowsOf
<1>2. /\ Live' = Live \cup {c}
      /\ rows'[c].owner = o /\ rows'[c].slot = LowestFreeSlot(o)
      /\ \A x \in Live : rows'[x] = rows[x]
  <2>1. /\ Live' = Live \cup {c} /\ rows'[c] = NewCluster(c, o)
        /\ \A x \in Live : rows'[x] = rows[x]
    BY TryInsertOK
  <2>. QED  BY <2>1 DEF NewCluster
<1>. QED  BY <1>1, <1>2 DEF SlotsExclusive

(* A step that inserts nothing and moves no cluster keeps slots exclusive. *)
LEMMA NoInsertKeepsSlots ==
  ASSUME SlotsExclusive, Live' \subseteq Live,
         \A x \in Live' : rows'[x].owner = rows[x].owner /\ rows'[x].slot = rows[x].slot
  PROVE  SlotsExclusive'
BY DEF SlotsExclusive
-----------------------------------------------------------------------------
LEMMA SlotsAreFinite == IsFiniteSet(Slots) /\ Cardinality(Slots) = MaxPerUser
<1>1. 0 \in Int /\ MaxPerUser - 1 \in Int /\ ~(0 > MaxPerUser - 1)
  BY RepositoryAssumption
<1>2. (MaxPerUser - 1) - 0 + 1 = MaxPerUser
  BY RepositoryAssumption
<1>. QED  BY <1>1, <1>2, FS_Interval DEF Slots

(* The slot of a row is an injection from an owner's rows to the slots.    *)
LEMMA RowsOfIsFinite ==
  ASSUME RowsOK, SlotsExclusive, NEW o
  PROVE  IsFiniteSet(RowsOf(o)) /\ Cardinality(RowsOf(o)) <= MaxPerUser
<1>. DEFINE slotOf == [c \in RowsOf(o) |-> rows[c].slot]
<1>1. slotOf \in Injection(RowsOf(o), Slots)
  BY DEF RowsOK, SlotsExclusive, RowsOf, Cluster, Injection, IsInjective
<1>. QED  BY <1>1, SlotsAreFinite, FS_Injection

(* Exclusive slots bound every owner's rows by the quota.                  *)
LEMMA SlotsImplyQuota ==
  ASSUME RowsOK, SlotsExclusive
  PROVE  QuotaRespected
BY RowsOfIsFinite DEF QuotaRespected, RowsOf
-----------------------------------------------------------------------------
(* The ways a step can change the table: the table operations, each with   *)
(* what happens to the ids in use and to the deadlines.                    *)
TableStep ==
  \/ UNCHANGED <<rows, due, used>>
  \/ \E c \in Clusters \ used, o \in Owners :
        TryInsert(c, o) /\ used' = used \cup {c} /\ UNCHANGED due
  \/ \E c : SetWorker(c) /\ UNCHANGED <<due, used>>
  \/ \E s \in ClusterStates : \E c : WriteState(c, s) /\ UNCHANGED used
  \/ \E c : DeleteRow(c) /\ due' = due \ {c} /\ UNCHANGED used
  \/ \E c \in Live : /\ rows[c].state \in {"Ready", "Failed"}
                     /\ due' = due \cup {c}
                     /\ UNCHANGED <<rows, used>>

LEMMA TransitionsAreStates ==
  /\ \A e \in ClusterEvents : Transition(e) \in ClusterStates
  /\ "DeleteRequested" \in ClusterEvents
  /\ \A s : SpawnEvent(s) \in ClusterEvents
BY DEF Transition, ClusterEvents, ClusterStates, SpawnEvent

(* Every step changes the table by one of its operations or not at all.    *)
LEMMA StepIsTableStep == [Next]_vars => TableStep
<1>. SUFFICES ASSUME [Next]_vars PROVE TableStep
  OBVIOUS
<1>. USE DEF table, tasks, process, external
<1>1. CASE UNCHANGED vars
  BY <1>1 DEF vars, TableStep
<1>2. ASSUME NEW c \in Clusters, NEW o \in Owners, Create(c, o) PROVE TableStep
  BY <1>2 DEF Create, TableStep
<1>3. ASSUME NEW x \in launching, LaunchSpawn(x) \/ CreateDropped(x) PROVE TableStep
  BY <1>3 DEF LaunchSpawn, CreateDropped, TableStep
<1>4. ASSUME NEW s \in spawns, SpawnStep(s) PROVE TableStep
  <2>1. CASE SpawnSetWorker(s)
    BY <2>1 DEF SpawnSetWorker, TableStep
  <2>2. CASE SpawnWrite(s)
    BY <2>2, TransitionsAreStates DEF SpawnWrite, TableStep
  <2>3. CASE SpawnPrepare(s) \/ SpawnCreate(s) \/ SpawnStart(s) \/ SpawnHealthy(s) \/ SpawnFails(s)
    BY <2>3 DEF SpawnPrepare, SpawnCreate, SpawnStart, SpawnHealthy, SpawnFails, TableStep
  <2>4. CASE SpawnCancelled(s) \/ SpawnRecheck(s) \/ SpawnFinish(s)
    BY <2>4 DEF SpawnCancelled, SpawnRecheck, SpawnFinish, TableStep
  <2>. QED  BY <1>4, <2>1, <2>2, <2>3, <2>4 DEF SpawnStep
<1>5. ASSUME NEW t \in teardowns, TeardownStep(t) PROVE TableStep
  <2>1. CASE TeardownDelete(t)
    BY <2>1 DEF TeardownDelete, TableStep
  <2>2. CASE TeardownBackend(t) \/ TeardownWipe(t)
    BY <2>2 DEF TeardownBackend, TeardownWipe, TableStep
  <2>. QED  BY <1>5, <2>1, <2>2 DEF TeardownStep
<1>6. ASSUME NEW r \in Requests, NEW c \in Clusters, DeleteRead(r, c) PROVE TableStep
  BY <1>6 DEF DeleteRead, TableStep
<1>7. ASSUME NEW d \in deletes, DeleteWrite(d) \/ DeleteDispatch(d) \/ DeleteDropped(d)
      PROVE  TableStep
  <2>1. CASE DeleteWrite(d)
    BY <2>1, TransitionsAreStates DEF DeleteWrite, TableStep
  <2>2. CASE DeleteDispatch(d) \/ DeleteDropped(d)
    BY <2>2 DEF DeleteDispatch, DeleteDropped, TableStep
  <2>. QED  BY <1>7, <2>1, <2>2
<1>8. ASSUME NEW c \in Clusters, BecomesDue(c) \/ ContainerExits(c) PROVE TableStep
  BY <1>8 DEF BecomesDue, ContainerExits, TableStep
<1>9. CASE ReaperStep
  BY <1>9 DEF ReaperStep, ReaperList, ReaperRead, ReaperDispatch, TableStep
<1>10. CASE Crash \/ Start
  BY <1>10 DEF Crash, Start, TableStep
<1>11. CASE ReconcileStep
  <2>1. ASSUME NEW x \in restart, ReconcileSpawning(x) PROVE TableStep
    BY <2>1 DEF ReconcileSpawning, ClusterStates, TableStep
  <2>2. ASSUME NEW x \in restart, ReconcileReady(x) PROVE TableStep
    BY <2>2 DEF ReconcileReady, ClusterStates, TableStep
  <2>3. ASSUME NEW x \in restart, ReconcileDeleting(x) \/ ReconcileFailed(x) PROVE TableStep
    BY <2>3 DEF ReconcileDeleting, ReconcileFailed, TableStep
  <2>4. CASE StartServing
    BY <2>4 DEF StartServing, TableStep
  <2>. QED  BY <1>11, <2>1, <2>2, <2>3, <2>4 DEF ReconcileStep
<1>12. ASSUME NEW q \in late, LateStep(q) PROVE TableStep
  BY <1>12 DEF LateStep, TableStep
<1>. QED
  BY <1>1, <1>2, <1>3, <1>4, <1>5, <1>6, <1>7, <1>8, <1>9, <1>10, <1>11, <1>12
     DEF Next, Background

(* The table stays well formed.                                            *)
LEMMA TableStepOK == ASSUME TableOK, TableStep PROVE TableOK'
<1>1. CASE UNCHANGED <<rows, due, used>>
  BY <1>1 DEF TableOK, RowsOK, Live
<1>2. ASSUME NEW c \in Clusters \ used, NEW o \in Owners,
             TryInsert(c, o), used' = used \cup {c}, UNCHANGED due
      PROVE  TableOK'
  <2>1. RowsOK /\ c \notin Live
    BY <1>2 DEF TableOK
  <2>2. /\ RowsOK' /\ Live' = Live \cup {c}
        /\ \A x \in Live : rows'[x] = rows[x]
    BY <1>2, <2>1, TryInsertOK
  <2>. QED  BY <1>2, <2>2 DEF TableOK
<1>3. ASSUME NEW c, SetWorker(c), UNCHANGED <<due, used>> PROVE TableOK'
  <2>1. /\ RowsOK /\ RowsOK' /\ Live' = Live /\ c \in Live
        /\ rows'[c] = [rows[c] EXCEPT !.worker = TRUE]
        /\ \A x \in Live \ {c} : rows'[x] = rows[x]
    BY <1>3, SetWorkerOK DEF TableOK
  <2>2. rows'[c].state = rows[c].state
    BY <2>1 DEF RowsOK, Cluster
  <2>. QED  BY <1>3, <2>1, <2>2 DEF TableOK
<1>4. ASSUME NEW c, NEW s \in ClusterStates, WriteState(c, s), UNCHANGED used PROVE TableOK'
  <2>1. RowsOK' /\ Live' = Live /\ \A x \in Live \ {c} : rows'[x] = rows[x]
    BY <1>4, UpdateStateOK DEF TableOK, WriteState
  <2>. QED  BY <1>4, <2>1 DEF TableOK, WriteState
<1>5. ASSUME NEW c, DeleteRow(c), due' = due \ {c}, UNCHANGED used PROVE TableOK'
  <2>1. RowsOK' /\ Live' = Live \ {c} /\ \A x \in Live' : rows'[x] = rows[x]
    BY <1>5, DeleteRowOK DEF TableOK
  <2>. QED  BY <1>5, <2>1 DEF TableOK
<1>6. ASSUME NEW c \in Live, rows[c].state \in {"Ready", "Failed"},
             due' = due \cup {c}, UNCHANGED <<rows, used>>
      PROVE  TableOK'
  BY <1>6 DEF TableOK, RowsOK, Live
<1>. QED  BY <1>1, <1>2, <1>3, <1>4, <1>5, <1>6 DEF TableStep
-----------------------------------------------------------------------------
(* The tasks: what the handlers build are tasks of the right shape.        *)

LEMMA ReplaceOK ==
  ASSUME NEW T, NEW S \in SUBSET T, NEW x, NEW y \in T
  PROVE  Replace(S, x, y) \subseteq T
BY DEF Replace

LEMMA SpawnTaskOK ==
  ASSUME NEW s \in SpawnTask
  PROVE  /\ s.cluster \in Cluster /\ s.cluster.id \in Clusters
         /\ WithWorker(s) \in SpawnTask /\ Failing(s) \in SpawnTask
         /\ \A p \in SpawnPcs : [s EXCEPT !.pc = p] \in SpawnTask
         /\ \A st \in ClusterStates : [s EXCEPT !.pc = "write", !.seen = st] \in SpawnTask
<1>1. s.cluster \in Cluster /\ s.cluster.id \in Clusters
  BY DEF SpawnTask, Cluster
<1>2. Failing(s) \in SpawnTask
  BY DEF SpawnTask, Failing, SpawnPcs
<1>3. \A p \in SpawnPcs : [s EXCEPT !.pc = p] \in SpawnTask
  BY DEF SpawnTask
<1>4. \A st \in ClusterStates : [s EXCEPT !.pc = "write", !.seen = st] \in SpawnTask
  BY DEF SpawnTask, SpawnPcs
<1>5. WithWorker(s) \in SpawnTask
  <2>. DEFINE x == [s.cluster EXCEPT !.worker = TRUE]
  <2>1. x \in Cluster
    BY <1>1 DEF Cluster
  <2>2. WithWorker(s) = [s EXCEPT !.cluster = x]
    BY DEF WithWorker, SpawnTask
  <2>. HIDE DEF x
  <2>. QED  BY <2>1, <2>2 DEF SpawnTask
<1>. QED  BY <1>1, <1>2, <1>3, <1>4, <1>5

LEMMA StartTeardownOK ==
  ASSUME NEW x \in Cluster, NEW by \in Requests \cup System
  PROVE  StartTeardown(by, x) \in Teardown
<1>1. [x EXCEPT !.state = "Deleting"] \in Cluster
  BY DEF Cluster, ClusterStates
<1>. QED  BY <1>1 DEF StartTeardown, Teardown

LEMMA TeardownTaskOK ==
  ASSUME NEW t \in Teardown
  PROVE  /\ t.cluster \in Cluster /\ t.cluster.id \in Clusters
         /\ \A p \in {"backend", "wipe", "delete"} : [t EXCEPT !.pc = p] \in Teardown
BY DEF Teardown, Cluster

LEMMA DeleteCallOK ==
  ASSUME NEW d \in DeleteCall
  PROVE  /\ d.cluster \in Cluster /\ d.cluster.id \in Clusters
         /\ d.by \in Requests \cup {"reaper"}
         /\ \A p \in {"write", "dispatch"} : [d EXCEPT !.pc = p] \in DeleteCall
BY DEF DeleteCall, Cluster

LEMMA CallOK ==
  ASSUME RowsOK, NEW c \in Live, NEW by \in Requests \cup {"reaper"}
  PROVE  Call(by, c) \in DeleteCall
BY DEF RowsOK, Call, DeleteCall

LEMMA SpawnStepTasksOK ==
  ASSUME TableOK, TasksOK, NEW s \in spawns, SpawnStep(s)
  PROVE  TasksOK'
<1>. USE DEF TasksOK
<1>0. /\ s \in SpawnTask /\ s.cluster.id \in Clusters /\ s.cluster.state \in ClusterStates
      /\ s.cluster \in Cluster
      /\ "prepare" \in SpawnPcs /\ "create" \in SpawnPcs
      /\ "run" \in SpawnPcs /\ "wait" \in SpawnPcs
      /\ "recheck" \in SpawnPcs /\ "teardown" \in SpawnPcs /\ "finish" \in SpawnPcs
  BY SpawnTaskOK DEF Cluster, SpawnPcs
<1>1. CASE SpawnSetWorker(s)
  <2>1. WithWorker(s) \in SpawnTask
    BY <1>0, SpawnTaskOK
  <2>2. Failing(WithWorker(s)) \in SpawnTask /\ [WithWorker(s) EXCEPT !.pc = "prepare"] \in SpawnTask
    BY <1>0, <2>1, SpawnTaskOK
  <2>. QED  BY <1>1, <2>2, ReplaceOK DEF SpawnSetWorker
<1>2. CASE SpawnPrepare(s) \/ SpawnHealthy(s)
  BY <1>0, <1>2, SpawnTaskOK, ReplaceOK DEF SpawnPrepare, SpawnHealthy, Advance
<1>3. CASE SpawnCreate(s) \/ SpawnStart(s)
  BY <1>0, <1>3, SpawnTaskOK, ReplaceOK DEF SpawnCreate, SpawnStart, Advance
<1>4. CASE SpawnFails(s)
  BY <1>0, <1>4, SpawnTaskOK, ReplaceOK DEF SpawnFails
<1>5. ASSUME TeardownInline(s), UNCHANGED <<launching, tokens, deletes, sweep>> PROVE TasksOK'
  <2>1. StartTeardown("spawn", s.cluster) \in Teardown
    BY <1>0, StartTeardownOK DEF System
  <2>. QED  BY <1>0, <1>5, <2>1, SpawnTaskOK, ReplaceOK DEF TeardownInline, Advance
<1>6. CASE SpawnCancelled(s)
  BY <1>5, <1>6 DEF SpawnCancelled
<1>7. CASE SpawnRecheck(s)
  <2>1. \A c \in Live : rows[c].state \in ClusterStates
    BY DEF TableOK, RowsOK, Cluster
  <2>2. ASSUME NEW st \in ClusterStates,
               spawns' = Replace(spawns, s, [s EXCEPT !.pc = "write", !.seen = st]),
               UNCHANGED <<launching, tokens, deletes, sweep, teardowns>>
        PROVE  TasksOK'
    BY <1>0, <2>2, SpawnTaskOK, ReplaceOK
  <2>. QED  BY <1>0, <1>5, <1>7, <2>1, <2>2 DEF SpawnRecheck
<1>8. CASE SpawnWrite(s)
  BY <1>0, <1>8, SpawnTaskOK, ReplaceOK DEF SpawnWrite, Advance
<1>9. CASE SpawnFinish(s)
  BY <1>9 DEF SpawnFinish, Remove
<1>. QED
  BY <1>1, <1>2, <1>3, <1>4, <1>6, <1>7, <1>8, <1>9 DEF SpawnStep

LEMMA DeleteStepTasksOK ==
  ASSUME TableOK, TasksOK, NEW d \in deletes,
         DeleteWrite(d) \/ DeleteDispatch(d) \/ DeleteDropped(d)
  PROVE  TasksOK'
<1>. USE DEF TasksOK
<1>0. d \in DeleteCall /\ d.cluster \in Cluster /\ d.cluster.id \in Clusters
  BY DeleteCallOK
<1>1. CASE DeleteWrite(d)
  BY <1>0, <1>1, DeleteCallOK, ReplaceOK DEF DeleteWrite, Advance, Remove
<1>2. CASE DeleteDispatch(d)
  <2>1. d.by \in Requests => StartTeardown(d.by, d.cluster) \in Teardown
    BY <1>0, StartTeardownOK
  <2>2. Cancel(d.cluster.id) =>
          DOMAIN tokens' = DOMAIN tokens /\ tokens' \in [DOMAIN tokens -> BOOLEAN]
    BY DEF Cancel
  <2>. QED  BY <1>2, <2>1, <2>2 DEF DeleteDispatch, Remove
<1>3. CASE DeleteDropped(d)
  BY <1>3 DEF DeleteDropped, Remove
<1>. QED  BY <1>1, <1>2, <1>3

LEMMA TeardownStepTasksOK ==
  ASSUME TasksOK, NEW t \in teardowns, TeardownStep(t)
  PROVE  TasksOK'
<1>. USE DEF TasksOK
<1>0. t \in Teardown
  OBVIOUS
<1>1. CASE TeardownBackend(t)
  BY <1>0, <1>1, TeardownTaskOK, ReplaceOK DEF TeardownBackend, Advance
<1>2. CASE TeardownWipe(t)
  BY <1>0, <1>2, TeardownTaskOK, ReplaceOK DEF TeardownWipe, Advance
<1>3. CASE TeardownDelete(t)
  BY <1>3 DEF TeardownDelete, Remove
<1>. QED  BY <1>1, <1>2, <1>3 DEF TeardownStep

LEMMA ReaperStepTasksOK ==
  ASSUME TableOK, TasksOK, ReaperStep
  PROVE  TasksOK'
<1>. USE DEF TasksOK
<1>0. RowsOK /\ due \subseteq Clusters
  BY DEF TableOK, RowsOK
<1>1. CASE ReaperList
  BY <1>0, <1>1 DEF ReaperList
<1>2. ASSUME NEW c \in sweep, ReaperRead(c) PROVE TasksOK'
  BY <1>0, <1>2, CallOK DEF ReaperRead, Remove
<1>3. CASE ReaperDispatch
  <2>1. \A d \in deletes : StartTeardown("reaper", d.cluster) \in Teardown
    BY DeleteCallOK, StartTeardownOK DEF System
  <2>. QED  BY <1>3, <2>1 DEF ReaperDispatch, Mine
<1>. QED  BY <1>1, <1>2, <1>3 DEF ReaperStep

LEMMA ReconcileStepTasksOK ==
  ASSUME TasksOK, ProcessOK, ReconcileStep
  PROVE  TasksOK' /\ ProcessOK'
<1>. USE DEF TasksOK, ProcessOK, tasks, Reconciling, Remove
<1>0. \A x \in restart : StartTeardown("reconcile", x) \in Teardown
  BY StartTeardownOK DEF System
<1>1. ASSUME NEW x \in restart, ReconcileSpawning(x) \/ ReconcileDeleting(x)
      PROVE  TasksOK' /\ ProcessOK'
  BY <1>0, <1>1 DEF ReconcileSpawning, ReconcileDeleting
<1>2. ASSUME NEW x \in restart, ReconcileReady(x) \/ ReconcileFailed(x)
      PROVE  TasksOK' /\ ProcessOK'
  BY <1>2 DEF ReconcileReady, ReconcileFailed
<1>3. CASE StartServing
  BY <1>3 DEF StartServing
<1>. QED  BY <1>1, <1>2, <1>3 DEF ReconcileStep
LEMMA StepTasksOK ==
  ASSUME TypeOK, [Next]_vars
  PROVE  TasksOK' /\ ProcessOK'
<1>. USE DEF TasksOK, ProcessOK, tasks, process
<1>0. TableOK /\ TasksOK /\ ProcessOK
  BY DEF TypeOK
<1>1. CASE UNCHANGED vars
  BY <1>0, <1>1 DEF vars
<1>2. ASSUME NEW c \in Clusters, NEW o \in Owners, Create(c, o) PROVE TasksOK' /\ ProcessOK'
  <2>1. c \notin Live /\ RowsOK
    BY <1>0, <1>2 DEF Create, TableOK
  <2>2. NewCluster(c, o) \in Cluster
    BY <1>2, <2>1, TryInsertOK DEF Create
  <2>. QED  BY <1>0, <1>2, <2>2 DEF Create
<1>3. ASSUME NEW x \in launching, LaunchSpawn(x) PROVE TasksOK' /\ ProcessOK'
  <2>1. x \in Cluster /\ x.id \in Clusters
    BY <1>0 DEF Cluster
  <2>2. NewSpawn(x) \in SpawnTask
    BY <2>1 DEF NewSpawn, SpawnTask, SpawnPcs, ClusterStates
  <2>. QED  BY <1>0, <1>3, <2>1, <2>2 DEF LaunchSpawn, Remove
<1>4. ASSUME NEW x \in launching, CreateDropped(x) PROVE TasksOK' /\ ProcessOK'
  BY <1>0, <1>4 DEF CreateDropped, Remove
<1>5. ASSUME NEW s \in spawns, SpawnStep(s) PROVE TasksOK' /\ ProcessOK'
  <2>1. UNCHANGED process
    BY <1>5 DEF SpawnStep, SpawnSetWorker, SpawnPrepare, SpawnCreate, SpawnStart, SpawnHealthy,
                SpawnFails, SpawnCancelled, SpawnRecheck, SpawnWrite, SpawnFinish
  <2>. QED  BY <1>0, <1>5, <2>1, SpawnStepTasksOK
<1>6. ASSUME NEW t \in teardowns, TeardownStep(t) PROVE TasksOK' /\ ProcessOK'
  <2>1. UNCHANGED process
    BY <1>6 DEF TeardownStep, TeardownBackend, TeardownWipe, TeardownDelete
  <2>. QED  BY <1>0, <1>6, <2>1, TeardownStepTasksOK
<1>7. ASSUME NEW r \in Requests, NEW c \in Clusters, DeleteRead(r, c)
      PROVE  TasksOK' /\ ProcessOK'
  BY <1>0, <1>7, CallOK DEF DeleteRead, TableOK
<1>8. ASSUME NEW d \in deletes, DeleteWrite(d) \/ DeleteDispatch(d) \/ DeleteDropped(d)
      PROVE  TasksOK' /\ ProcessOK'
  <2>1. UNCHANGED process
    BY <1>8 DEF DeleteWrite, DeleteDispatch, DeleteDropped
  <2>. QED  BY <1>0, <1>8, <2>1, DeleteStepTasksOK
<1>9. ASSUME NEW c \in Clusters, BecomesDue(c) \/ ContainerExits(c)
      PROVE  TasksOK' /\ ProcessOK'
  BY <1>0, <1>9 DEF BecomesDue, ContainerExits
<1>10. CASE ReaperStep
  <2>1. UNCHANGED process
    BY <1>10 DEF ReaperStep, ReaperList, ReaperRead, ReaperDispatch
  <2>. QED  BY <1>0, <1>10, <2>1, ReaperStepTasksOK
<1>11. CASE Crash
  BY <1>0, <1>11 DEF Crash
<1>12. CASE Start
  BY <1>0, <1>12 DEF Start, ListAll, TableOK, RowsOK
<1>13. CASE ReconcileStep
  BY <1>0, <1>13, ReconcileStepTasksOK
<1>14. ASSUME NEW q \in late, LateStep(q) PROVE TasksOK' /\ ProcessOK'
  BY <1>0, <1>14 DEF LateStep
<1>. QED
  BY <1>1, <1>2, <1>3, <1>4, <1>5, <1>6, <1>7, <1>8, <1>9, <1>10, <1>11, <1>12, <1>13, <1>14
     DEF Next, Background

(* What a task leaves behind is an order.                                  *)
LEMMA AwaitedOK ==
  /\ \A s \in SpawnTask : Awaited(s) \subseteq Order
  /\ \A t \in Teardown : Awaited(t) \subseteq Order
BY DEF Awaited, Order, Outside, SpawnTask, Teardown

(* Containers, files, orders and the fault count.                          *)
LEMMA StepExternalOK ==
  ASSUME TypeOK, [Next]_vars
  PROVE  ExternalOK'
<1>. USE DEF ExternalOK, external, NoFault
<1>0. ExternalOK /\ TasksOK
  BY DEF TypeOK
<1>1. \A kind : Fault(kind) => faults' \in 0 .. MaxFaults
  BY <1>0, ServiceAssumption DEF Fault
<1>2. CASE UNCHANGED vars
  BY <1>0, <1>2 DEF vars
<1>3. ASSUME NEW c \in Clusters, NEW o \in Owners, Create(c, o) PROVE ExternalOK'
  BY <1>0, <1>3 DEF Create
<1>4. ASSUME NEW x \in launching, LaunchSpawn(x) \/ CreateDropped(x) PROVE ExternalOK'
  BY <1>0, <1>1, <1>4 DEF LaunchSpawn, CreateDropped
<1>5. ASSUME NEW s \in spawns, SpawnStep(s) PROVE ExternalOK'
  <2>1. s.cluster \in Cluster /\ s.cluster.id \in Clusters
    BY <1>0, SpawnTaskOK DEF TasksOK
  <2>2. CASE SpawnPrepare(s)
    <3>1. FileOf(s.cluster) \in File
      BY <2>1 DEF FileOf, File, Cluster
    <3>. QED  BY <1>0, <2>2, <3>1 DEF SpawnPrepare
  <2>3. CASE SpawnCreate(s) \/ SpawnStart(s)
    BY <1>0, <2>1, <2>3 DEF SpawnCreate, SpawnStart
  <2>4. CASE SpawnSetWorker(s) \/ SpawnHealthy(s)
    BY <1>0, <1>1, <2>4 DEF SpawnSetWorker, SpawnHealthy
  <2>6. CASE SpawnFails(s) \/ SpawnCancelled(s)
    <3>1. Awaited(s) \subseteq Order
      BY <1>0, AwaitedOK DEF TasksOK
    <3>. QED  BY <1>0, <1>1, <2>6, <3>1 DEF SpawnFails, SpawnCancelled
  <2>5. CASE SpawnRecheck(s) \/ SpawnWrite(s) \/ SpawnFinish(s)
    BY <1>0, <1>1, <2>5 DEF SpawnRecheck, SpawnWrite, SpawnFinish
  <2>. QED  BY <1>5, <2>2, <2>3, <2>4, <2>5, <2>6 DEF SpawnStep
<1>6. ASSUME NEW t \in teardowns, TeardownStep(t) PROVE ExternalOK'
  <2>1. t.cluster.id \in Clusters /\ Awaited(t) \subseteq Order
    BY <1>0, TeardownTaskOK, AwaitedOK DEF TasksOK
  <2>. QED
    BY <1>0, <1>1, <1>6, <2>1 DEF TeardownStep, TeardownBackend, TeardownWipe, TeardownDelete
<1>7. ASSUME NEW r \in Requests, NEW c \in Clusters, DeleteRead(r, c) PROVE ExternalOK'
  BY <1>0, <1>7 DEF DeleteRead
<1>8. ASSUME NEW d \in deletes, DeleteWrite(d) \/ DeleteDispatch(d) \/ DeleteDropped(d)
      PROVE  ExternalOK'
  BY <1>0, <1>1, <1>8 DEF DeleteWrite, DeleteDispatch, DeleteDropped
<1>9. ASSUME NEW c \in Clusters, BecomesDue(c) \/ ContainerExits(c) PROVE ExternalOK'
  BY <1>0, <1>1, <1>9 DEF BecomesDue, ContainerExits
<1>10. CASE ReaperStep
  BY <1>0, <1>1, <1>10 DEF ReaperStep, ReaperList, ReaperRead, ReaperDispatch
<1>11. CASE Crash \/ Start
  <2>1. UNION {Awaited(task) : task \in spawns \cup teardowns} \subseteq Order
    BY <1>0, AwaitedOK DEF TasksOK
  <2>. QED  BY <1>0, <1>1, <1>11, <2>1 DEF Crash, Start
<1>12. CASE ReconcileStep
  BY <1>0, <1>1, <1>12
     DEF ReconcileStep, ReconcileSpawning, ReconcileReady, ReconcileDeleting, ReconcileFailed,
         StartServing
<1>13. ASSUME NEW q \in late, LateStep(q) PROVE ExternalOK'
  <2>1. q.cluster \in Cluster /\ q.cluster.id \in Clusters
    BY <1>0 DEF Order, Cluster
  <2>2. FileOf(q.cluster) \in File
    BY <2>1 DEF FileOf, File, Cluster
  <2>3. UNCHANGED faults
    BY <1>13 DEF LateStep
  <2>4. CASE LateCreate(q) \/ LateRun(q) \/ LateRemove(q)
    BY <1>0, <2>1, <2>3, <2>4 DEF LateCreate, LateRun, LateRemove, Remove
  <2>5. CASE LatePrepare(q) \/ LateWipe(q)
    BY <1>0, <2>2, <2>3, <2>5 DEF LatePrepare, LateWipe, Remove
  <2>. QED  BY <1>13, <2>4, <2>5 DEF LateStep
<1>. QED
  BY <1>2, <1>3, <1>4, <1>5, <1>6, <1>7, <1>8, <1>9, <1>10, <1>11, <1>12, <1>13
     DEF Next, Background
-----------------------------------------------------------------------------
LEMMA InitTypeOK == Init => TypeOK
<1>. SUFFICES ASSUME Init PROVE TypeOK
  OBVIOUS
<1>. USE DEF Init
<1>1. Live = {}
  BY DEF Live
<1>2. TableOK
  BY <1>1 DEF TableOK, RowsOK
<1>3. TasksOK
  <2>1. DOMAIN tokens = {}
    OBVIOUS
  <2>2. tokens \in [DOMAIN tokens -> BOOLEAN]
    BY <2>1
  <2>. QED  BY <2>1, <2>2 DEF TasksOK
<1>4. ProcessOK /\ ExternalOK
  BY ServiceAssumption DEF ProcessOK, ExternalOK
<1>. QED  BY <1>2, <1>3, <1>4 DEF TypeOK

LEMMA StepTypeOK == TypeOK /\ [Next]_vars => TypeOK'
BY StepIsTableStep, TableStepOK, StepTasksOK, StepExternalOK DEF TypeOK

(* Every variable keeps its type in every behaviour.                       *)
THEOREM TypeCorrect == Spec => []TypeOK
BY InitTypeOK, StepTypeOK, PTL DEF Spec
-----------------------------------------------------------------------------
LEMMA InitSlots == Init => SlotsExclusive
BY DEF Init, SlotsExclusive, Live

LEMMA StepSlots == TypeOK /\ SlotsExclusive /\ [Next]_vars => SlotsExclusive'
<1>. SUFFICES ASSUME TypeOK, SlotsExclusive, TableStep PROVE SlotsExclusive'
  BY StepIsTableStep
<1>0. TableOK /\ RowsOK
  BY DEF TypeOK, TableOK
<1>1. CASE UNCHANGED <<rows, due, used>> \/ UNCHANGED rows
  BY <1>1 DEF SlotsExclusive, Live
<1>2. ASSUME NEW c \in Clusters \ used, NEW o \in Owners, TryInsert(c, o)
      PROVE  SlotsExclusive'
  BY <1>0, <1>2, TryInsertKeepsSlots DEF TableOK
<1>3. ASSUME NEW c, SetWorker(c) PROVE SlotsExclusive'
  <2>1. /\ Live' = Live /\ c \in Live
        /\ rows'[c] = [rows[c] EXCEPT !.worker = TRUE]
        /\ \A x \in Live \ {c} : rows'[x] = rows[x]
    BY <1>0, <1>3, SetWorkerOK
  <2>2. rows'[c].owner = rows[c].owner /\ rows'[c].slot = rows[c].slot
    BY <1>0, <2>1 DEF RowsOK, Cluster
  <2>. QED  BY <2>1, <2>2, NoInsertKeepsSlots
<1>4. ASSUME NEW c, NEW s \in ClusterStates, UpdateState(c, s) PROVE SlotsExclusive'
  <2>1. /\ Live' = Live /\ c \in Live
        /\ rows'[c] = [rows[c] EXCEPT !.state = s]
        /\ \A x \in Live \ {c} : rows'[x] = rows[x]
    BY <1>0, <1>4, UpdateStateOK
  <2>2. rows'[c].owner = rows[c].owner /\ rows'[c].slot = rows[c].slot
    BY <1>0, <2>1 DEF RowsOK, Cluster
  <2>. QED  BY <2>1, <2>2, NoInsertKeepsSlots
<1>5. ASSUME NEW c, DeleteRow(c) PROVE SlotsExclusive'
  BY <1>0, <1>5, DeleteRowOK, NoInsertKeepsSlots
<1>. QED  BY <1>1, <1>2, <1>3, <1>4, <1>5 DEF TableStep, WriteState

(* However creates, deletes, crashes, failed writes and racing tasks       *)
(* interleave, two live clusters of one owner never share a slot, and so   *)
(* never share a worker directory.                                         *)
THEOREM SlotsAlwaysExclusive == Spec => []SlotsExclusive
<1>1. Init => TypeOK /\ SlotsExclusive
  BY InitTypeOK, InitSlots
<1>2. (TypeOK /\ SlotsExclusive) /\ [Next]_vars => (TypeOK /\ SlotsExclusive)'
  BY StepTypeOK, StepSlots
<1>. QED  BY <1>1, <1>2, PTL DEF Spec

(* No owner ever has more rows than the quota, whatever state they are in. *)
THEOREM QuotaAlwaysRespected == Spec => []QuotaRespected
<1>1. TypeOK /\ SlotsExclusive => QuotaRespected
  BY SlotsImplyQuota DEF TypeOK, TableOK
<1>. QED  BY <1>1, TypeCorrect, SlotsAlwaysExclusive, PTL
=============================================================================
