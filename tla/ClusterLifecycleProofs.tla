----------------------- MODULE ClusterLifecycleProofs -----------------------
(***************************************************************************)
(* What the service promises of a cluster's life when some of the faults,  *)
(* or some of the deletes, do not happen; each theorem names the ones it   *)
(* excludes, and everything else may happen in any order.                  *)
(*   - RemovalsWork: nothing a cluster had outlives its row, but for what  *)
(*     an abandoned call of its spawn made after all.                      *)
(*   - OneStarter: no cluster is torn down twice at once, and no teardown  *)
(*     reaches what a Ready cluster has, but for a wipe of its slot that   *)
(*     was cut off and goes on.                                            *)
(*   - TableWorks: a restarted process serves a settled table.             *)
(*   - NoUserDeletes: the service implements the lifecycle it documents,   *)
(*     and (with TableWorks) no row is left Deleting by everybody.         *)
(*   - LooksAreCurrent: the same lifecycle, whatever users delete.         *)
(*   - CallsAreCurrent: OneStarter holds, and (with TableWorks and         *)
(*     ClientsStay) no row is left Deleting by everybody.                  *)
(***************************************************************************)
EXTENDS ClusterOwnershipProofs

(* Docker removes what it is told to, and wipes of directories succeed.    *)
RemovalsWork == "backend" \notin Faults /\ "exec" \notin Faults

(* Nothing is left of a cluster but what an abandoned call made after all. *)
NoContainer(c) == containers[c] \in {"absent", "orphan"}
HasFiles(c)    == (\E f \in files : f.id = c) /\ ~PrepareLeftRunning(c)

RowsCover ==
  /\ \A c \in Clusters : NoContainer(c) \/ c \in Live
  /\ \A c : HasFiles(c) => c \in Live

(* Whoever may have to wipe a cluster's files knows its account: teardown  *)
(* skips the wipe of a cluster without one.                                *)
RowsKnow == \A c \in Live : HasFiles(c) => rows[c].worker

SpawnsKnow ==
  /\ \A x \in launching : ~HasFiles(x.id)
  /\ \A s \in spawns :
       /\ s.pc \in {"prepare", "create", "run", "wait"} =>
            s.cluster.worker /\ (s.cluster.id \in Live => rows[s.cluster.id].worker)
       /\ s.pc \in UnwrittenPcs /\ HasFiles(s.cluster.id) => s.cluster.worker

DeletesKnow == \A d \in deletes : HasFiles(d.cluster.id) /\ Starts(d) => d.cluster.worker

TeardownsKnow ==
  \A t \in teardowns :
    /\ t.pc # "delete" /\ HasFiles(t.cluster.id) => t.cluster.worker
    /\ t.pc # "backend" => NoContainer(t.cluster.id)
    /\ t.pc = "delete" => ~HasFiles(t.cluster.id)

AccountsKnown == RowsKnow /\ SpawnsKnow /\ DeletesKnow /\ TeardownsKnow

Clean == RowsCover /\ AccountsKnown

LEMMA InitClean == Init => Clean
BY DEF Init, Clean, RowsCover, AccountsKnown, RowsKnow, SpawnsKnow, DeletesKnow,
       TeardownsKnow, HasFiles, NoContainer, Live

(* A cluster with an owner is in the table, and nobody else is about to    *)
(* remove what it has.                                                     *)
LEMMA OwnerHasItAlone ==
  ASSUME TasksOK, Ownership, NEW s \in spawns, s.pc \in UnwrittenPcs
  PROVE  /\ s.cluster.id \in Live /\ s.cluster.id \in Clusters
         /\ \A x \in launching : x.id # s.cluster.id
         /\ \A r \in spawns : r # s => r.cluster.id # s.cluster.id
         /\ \A d \in deletes : Starts(d) => d.cluster.id # s.cluster.id
         /\ \A t \in teardowns : t.cluster.id # s.cluster.id
<1>1. s.cluster.id \in Clusters /\ Owned(s.cluster.id)
  BY SpawnTaskOK DEF TasksOK, Owned
<1>2. \A d \in deletes : d.cluster.id = s.cluster.id => d.cluster.state \in {"Spawning", "Deleting"}
  BY <1>1 DEF Ownership, OwnerIsAlone
<1>3. \A d \in deletes : Starts(d) => d.cluster.id # s.cluster.id
  BY <1>2 DEF Starts, DeleteOutcome
<1>. QED  BY <1>1, <1>3 DEF Ownership, OwnerIsAlone, OneOwner

LEMMA SpawnStepClean ==
  ASSUME TableOK, TasksOK, ExternalOK, Ownership, Clean, NEW s \in spawns, SpawnStep(s)
  PROVE  Clean'
<1>. DEFINE c == s.cluster.id
<1>. USE DEF Clean, AccountsKnown
<1>1. UNCHANGED <<launching, deletes>>
  BY SpawnMoves
<1>2. CASE SpawnFinish(s)
  BY <1>1, <1>2 DEF SpawnFinish, Remove, table, external, RowsCover, RowsKnow, SpawnsKnow,
                    DeletesKnow, TeardownsKnow, HasFiles, PrepareLeftRunning, NoContainer, Live
<1>3. ASSUME NEW y, spawns' = (spawns \ {s}) \cup {y}, SameCopy(y.cluster, s.cluster),
             SpawnMove(s, y)
      PROVE  Clean'
  <2>0. /\ s.pc \in UnwrittenPcs /\ y.cluster.id = c
        /\ y.pc \in UnwrittenPcs \cup {"teardown", "finish"}
    BY <1>3 DEF SpawnMove, UnwrittenPcs, DoSpawn, SameCopy
  <2>1. /\ c \in Live /\ c \in Clusters
        /\ \A x \in launching : x.id # c
        /\ \A r \in spawns : r # s => r.cluster.id # c
        /\ \A d \in deletes : Starts(d) => d.cluster.id # c
        /\ \A t \in teardowns : t.cluster.id # c
    BY <2>0, OwnerHasItAlone
  <2>2. /\ Live' = Live
        /\ \A x \in Live : rows[x].worker => rows'[x].worker
        /\ y.pc = "prepare" => rows'[c].worker
    <3>1. CASE UNCHANGED rows /\ y.pc # "prepare"
      BY <3>1 DEF Live
    <3>2. CASE SetWorker(c)
      <4>1. [rows[c] EXCEPT !.worker = TRUE].worker = TRUE
        BY <3>2, SetWorkerOK DEF TableOK, RowsOK, Cluster
      <4>. QED  BY <3>2, <4>1, SetWorkerOK DEF TableOK
    <3>3. ASSUME NEW st \in {"Ready", "Failed"}, UpdateState(c, st), y.pc # "prepare"
          PROVE  Live' = Live /\ \A x \in Live : rows[x].worker => rows'[x].worker
      <4>1. st \in ClusterStates /\ RowsOK
        BY DEF ClusterStates, TableOK
      <4>2. [rows[c] EXCEPT !.state = st].worker = rows[c].worker
        BY <3>3, <4>1, UpdateStateOK DEF RowsOK, Cluster
      <4>. QED  BY <3>3, <4>1, <4>2, UpdateStateOK
    <3>. QED  BY <1>3, <3>1, <3>2, <3>3 DEF SpawnMove, WriteState
  <2>3. /\ \A x \in Clusters : x # c => (NoContainer(x)' <=> NoContainer(x))
        /\ \A x : x # c => (HasFiles(x)' => HasFiles(x))
        /\ HasFiles(c)' => HasFiles(c) \/ s.pc = "prepare"
    <3>1. late \subseteq late'
      BY <1>3 DEF SpawnMove, external
    <3>2. \A x : PrepareLeftRunning(x) => PrepareLeftRunning(x)'
      BY <3>1 DEF PrepareLeftRunning
    <3>3. /\ \A f \in files' : f \in files \/ (f.id = c /\ s.pc = "prepare")
          /\ \A x \in Clusters : x # c => containers'[x] = containers[x]
      BY <1>3 DEF SpawnMove, external, FileOf, ExternalOK
    <3>. QED  BY <3>2, <3>3 DEF HasFiles, NoContainer
  <2>4. \A t \in teardowns' \ teardowns : Begun(t, s.cluster)
    <3>1. s.cluster \in Cluster
      BY SpawnTaskOK DEF TasksOK
    <3>. QED  BY <1>3, <3>1, StartTeardownIs DEF SpawnMove
  <2>5. /\ s.pc \in {"prepare", "create", "run", "wait"} => s.cluster.worker /\ rows[c].worker
        /\ HasFiles(c) => s.cluster.worker
    BY <2>0, <2>1 DEF SpawnsKnow
  <2>6. /\ y.pc \in {"prepare", "create", "run", "wait"} => y.cluster.worker /\ rows'[c].worker
        /\ s.cluster.worker => y.cluster.worker
    BY <1>3, <2>1, <2>2, <2>5 DEF SpawnMove, DoSpawn
  <2>7. HasFiles(c)' => s.cluster.worker
    BY <2>3, <2>5
  <2>8. RowsCover'
    BY <2>1, <2>2, <2>3 DEF RowsCover
  <2>9. RowsKnow'
    BY <2>1, <2>2, <2>3, <2>5 DEF RowsKnow
  <2>10. SpawnsKnow'
    BY <1>1, <1>3, <2>0, <2>1, <2>2, <2>3, <2>6, <2>7 DEF SpawnsKnow
  <2>11. DeletesKnow'
    BY <1>1, <2>1, <2>3 DEF DeletesKnow, Starts
  <2>12. TeardownsKnow'
    <3>1. \A t \in teardowns : t.cluster.id \in Clusters
      BY TeardownTaskOK DEF TasksOK
    <3>. QED  BY <2>1, <2>3, <2>4, <2>7, <3>1 DEF TeardownsKnow, Begun, SameCopy
  <2>. QED  BY <2>8, <2>9, <2>10, <2>11, <2>12
<1>. QED  BY <1>2, <1>3, SpawnMoves

LEMMA TeardownStepClean ==
  ASSUME RemovalsWork, TableOK, TasksOK, ExternalOK, Ownership, CopiesAgree, Clean,
         NEW t \in teardowns, TeardownStep(t)
  PROVE  Clean'
<1>. DEFINE c == t.cluster.id
<1>. USE DEF Clean, AccountsKnown
<1>0. /\ UNCHANGED <<launching, spawns, deletes>>
      /\ \A kind \in {"backend", "exec"} : ~Fault(kind)
      /\ \A u \in teardowns : u.cluster.id \in Clusters
  BY TeardownMoves, TeardownTaskOK DEF RemovalsWork, Fault, TasksOK
<1>1. CASE /\ t.pc = "delete" /\ teardowns' = teardowns \ {t} /\ UNCHANGED external
           /\ DeleteRow(c) \/ UNCHANGED table
  <2>1. /\ Live' \subseteq Live /\ \A x \in Live : x = c \/ x \in Live'
        /\ \A x \in Live' : rows'[x] = rows[x]
    BY <1>1, DeleteRowOK DEF TableOK, table, Live
  <2>2. \A x : (HasFiles(x)' <=> HasFiles(x)) /\ (NoContainer(x)' <=> NoContainer(x))
    BY <1>1 DEF external, HasFiles, PrepareLeftRunning, NoContainer
  <2>3. RowsCover'
    BY <1>1, <2>1, <2>2 DEF RowsCover, TeardownsKnow
  <2>. QED  BY <1>0, <1>1, <2>1, <2>2, <2>3
            DEF RowsKnow, SpawnsKnow, DeletesKnow, TeardownsKnow, Starts
<1>2. ASSUME NEW y, teardowns' = (teardowns \ {t}) \cup {y}, y.cluster = t.cluster,
             UNCHANGED <<rows, late>>, files' \subseteq files,
             \/ UNCHANGED containers
             \/ containers' = [containers EXCEPT ![c] = "absent"],
             HasFiles(c)' => y.pc # "delete" /\ t.cluster.worker,
             NoContainer(c)'
      PROVE  Clean'
  <2>1. /\ \A x \in Clusters : NoContainer(x) => NoContainer(x)'
        /\ \A x : HasFiles(x)' => HasFiles(x)
    BY <1>2 DEF ExternalOK, HasFiles, PrepareLeftRunning, NoContainer
  <2>2. RowsCover'
    BY <1>2, <2>1 DEF RowsCover, Live
  <2>. QED  BY <1>0, <1>2, <2>1, <2>2 
            DEF RowsKnow, SpawnsKnow, DeletesKnow, TeardownsKnow, Starts, Live
<1>3. ASSUME NEW y, teardowns' = (teardowns \ {t}) \cup {y}, y.cluster = t.cluster,
             UNCHANGED table, t.pc = "backend",
             y.pc = IF t.cluster.worker THEN "wipe" ELSE "delete",
             UNCHANGED <<files, late>>, containers' = [containers EXCEPT ![c] = "absent"]
      PROVE  Clean'
  <2>1. HasFiles(c)' => y.pc # "delete" /\ t.cluster.worker
    BY <1>3 DEF TeardownsKnow, HasFiles, PrepareLeftRunning
  <2>2. NoContainer(c)'
    BY <1>0, <1>3 DEF ExternalOK, NoContainer
  <2>. QED  BY <1>2, <1>3, <2>1, <2>2 DEF table
<1>4. ASSUME NEW y, teardowns' = (teardowns \ {t}) \cup {y}, y.cluster = t.cluster,
             UNCHANGED table, t.pc = "wipe",
             UNCHANGED <<containers, late>>, files' = files \ FilesAt(t.cluster)
      PROVE  Clean'
  <2>1. c \in Live => \A f \in files : f.id = c => f \in FilesAt(t.cluster)
    BY DEF CopiesAgree, Copies, SamePlace, FilesAt
  <2>2. ~HasFiles(c)'
    BY <1>4, <2>1 DEF HasFiles, PrepareLeftRunning, RowsCover
  <2>3. NoContainer(c)'
    BY <1>4 DEF TeardownsKnow, NoContainer
  <2>. QED  BY <1>2, <1>4, <2>2, <2>3 DEF table
<1>. QED  BY <1>0, <1>1, <1>3, <1>4, TeardownMoves

(* Steps that build nothing and are not a teardown's.                      *)
LEMMA StaysClean ==
  ASSUME TypeOK, Clean,
         launching' \subseteq launching, spawns' \subseteq spawns, Live' = Live,
         \A c \in Live : rows[c].worker => rows'[c].worker,
         \A c \in Clusters : NoContainer(c) => NoContainer(c)',
         \A c : HasFiles(c)' => HasFiles(c),
         \A d \in deletes' :
           d \in deletes \/ (\E e \in deletes : d.cluster = e.cluster)
           \/ \E c \in Live : d.cluster = rows[c],
         \A t \in teardowns' :
           t \in teardowns \/ (\E d \in deletes : Starts(d) /\ Begun(t, d.cluster))
           \/ \E c \in Live : Begun(t, rows[c])
  PROVE  Clean'
<1>. USE DEF Clean, AccountsKnown
<1>0. /\ \A c \in Live : c \in Clusters /\ rows[c].id = c
      /\ \A t \in teardowns : t.cluster.id \in Clusters
  BY TeardownTaskOK DEF TypeOK, TableOK, RowsOK, TasksOK
<1>1. RowsCover' /\ RowsKnow' /\ SpawnsKnow'
  BY DEF RowsCover, RowsKnow, SpawnsKnow
<1>2. DeletesKnow'
  BY <1>0 DEF DeletesKnow, RowsKnow, Starts
<1>3. TeardownsKnow'
  BY <1>0 DEF DeletesKnow, RowsKnow, TeardownsKnow, Begun, SameCopy
<1>. QED  BY <1>1, <1>2, <1>3

LEMMA SameExternal ==
  ASSUME UNCHANGED external
  PROVE  \A c : (HasFiles(c)' <=> HasFiles(c)) /\ (NoContainer(c)' <=> NoContainer(c))
BY DEF external, HasFiles, PrepareLeftRunning, NoContainer

(* A call that is carried out late brings back nothing that has no owner   *)
(* but an orphan, or the files of an upload that was left running.         *)
LEMMA LateStepClean ==
  ASSUME TypeOK, Orphans, Clean, NEW q \in late, LateStep(q)
  PROVE  Clean'
<1>. DEFINE c == q.cluster.id
<1>0. ExternalOK /\ c \in Clusters /\ UNCHANGED <<rows, launching, spawns, deletes, teardowns>>
  BY DEF TypeOK, ExternalOK, Order, Cluster, LateStep, table, tasks
<1>1. /\ \A x \in Clusters : x # c => containers'[x] = containers[x]
      /\ NoContainer(c) => NoContainer(c)'
  BY <1>0 DEF LateStep, LateCreate, LateRun, LateRemove, LatePrepare, LateWipe, ExternalOK,
              NoContainer, Orphans
<1>2. \A x : PrepareLeftRunning(x) => PrepareLeftRunning(x)'
  BY DEF PrepareLeftRunning, LateStep, LateCreate, LateRun, LateRemove, LatePrepare, LateWipe,
         Remove
<1>3. \A f \in files' : f \in files \/ PrepareLeftRunning(f.id)
  BY DEF PrepareLeftRunning, LateStep, LateCreate, LateRun, LateRemove, LatePrepare, LateWipe,
         Remove, FileOf
<1>4. \A x \in Clusters : NoContainer(x) => NoContainer(x)'
  BY <1>1 DEF NoContainer
<1>5. \A x : HasFiles(x)' => HasFiles(x)
  BY <1>2, <1>3 DEF HasFiles
<1>. QED  BY <1>0, <1>4, <1>5, StaysClean DEF Live

LEMMA StepClean ==
  ASSUME RemovalsWork, TypeOK, Ownership, CopiesAgree, Orphans, Clean, [Next]_vars
  PROVE  Clean'
<1>0. /\ TableOK /\ TasksOK /\ ProcessOK /\ ExternalOK
      /\ \A c \in Live : c \in Clusters /\ rows[c].id = c
      /\ \A t \in teardowns : t.cluster.id \in Clusters
  BY TeardownTaskOK DEF TypeOK, TableOK, RowsOK, TasksOK
<1>2. ASSUME NEW c, NEW st \in ClusterStates, WriteState(c, st)
      PROVE  Live' = Live /\ \A x \in Live : rows[x].worker => rows'[x].worker
  <2>1. RowsOK /\ UpdateState(c, st)
    BY <1>0, <1>2 DEF TableOK, WriteState
  <2>2. [rows[c] EXCEPT !.state = st].worker = rows[c].worker
    BY <2>1, UpdateStateOK DEF RowsOK, Cluster
  <2>. QED  BY <2>1, <2>2, UpdateStateOK
<1>3. CASE UNCHANGED vars
  BY StaysClean, SameExternal, <1>3 DEF vars, table, tasks, Live
<1>4. ASSUME NEW c \in Clusters, NEW o \in Owners, Create(c, o) PROVE Clean'
  <2>. DEFINE n == NewCluster(c, o)
  <2>1. /\ c \notin used /\ c \notin Live /\ n.id = c /\ Live' = Live \cup {c}
        /\ launching' = launching \cup {n} /\ \A x \in Live : rows'[x] = rows[x]
        /\ UNCHANGED <<spawns, deletes, teardowns, external>>
    BY <1>0, <1>4 DEF Create, TryInsert, NewCluster, TableOK, Live
  <2>. HIDE DEF n
  <2>2. /\ \A x : (HasFiles(x)' <=> HasFiles(x)) /\ (NoContainer(x)' <=> NoContainer(x))
        /\ ~HasFiles(c)
    BY <2>1, SameExternal DEF RowsCover, Clean
  <2>3. \A s \in spawns : s.cluster.id # c
    BY <2>1 DEF Ownership, IdsInUse
  <2>4. RowsCover' /\ RowsKnow' /\ SpawnsKnow'
    BY <2>1, <2>2, <2>3 DEF Clean, AccountsKnown, RowsCover, RowsKnow, SpawnsKnow
  <2>5. DeletesKnow' /\ TeardownsKnow'
    BY <2>1, <2>2 DEF Clean, AccountsKnown, DeletesKnow, TeardownsKnow, Starts
  <2>. QED  BY <2>4, <2>5 DEF Clean, AccountsKnown
<1>5. ASSUME NEW x \in launching, LaunchSpawn(x) \/ CreateDropped(x) PROVE Clean'
  <2>1. /\ launching' \subseteq launching /\ spawns' \subseteq spawns \cup {NewSpawn(x)}
        /\ UNCHANGED <<rows, deletes, teardowns, external>>
    BY <1>5 DEF LaunchSpawn, CreateDropped, Remove, table
  <2>2. NewSpawn(x).cluster = x /\ NewSpawn(x).pc = "start"
    BY DEF NewSpawn
  <2>3. \A c : (HasFiles(c)' <=> HasFiles(c)) /\ (NoContainer(c)' <=> NoContainer(c))
    BY <2>1, SameExternal
  <2>4. SpawnsKnow'
    BY <2>1, <2>2, <2>3 DEF Clean, AccountsKnown, SpawnsKnow, Live
  <2>. QED  BY <2>1, <2>3, <2>4
            DEF Clean, AccountsKnown, RowsCover, RowsKnow, DeletesKnow, TeardownsKnow, Starts, Live
<1>6. ASSUME NEW s \in spawns, SpawnStep(s) PROVE Clean'
  BY <1>0, <1>6, SpawnStepClean
<1>7. ASSUME NEW t \in teardowns, TeardownStep(t) PROVE Clean'
  BY <1>0, <1>7, TeardownStepClean
<1>8. ASSUME NEW r \in Requests, NEW c \in Clusters, DeleteRead(r, c) PROVE Clean'
  <2>1. Call(r, c).cluster = rows[c]
    BY DEF Call
  <2>2. /\ c \in Live /\ deletes' = deletes \cup {Call(r, c)} /\ Live' = Live
        /\ UNCHANGED <<rows, launching, spawns, teardowns, external>>
    BY <1>8 DEF DeleteRead, table, Live
  <2>. QED  BY StaysClean, SameExternal, <2>1, <2>2
<1>9. ASSUME NEW d \in deletes, DeleteWrite(d) \/ DeleteDispatch(d) \/ DeleteDropped(d)
      PROVE  Clean'
  <2>1. Live' = Live /\ \A x \in Live : rows[x].worker => rows'[x].worker
    BY <1>0, <1>2, <1>9, DeleteMoves DEF table, Live, ClusterStates
  <2>2. /\ UNCHANGED <<launching, spawns, external>>
        /\ \A e \in deletes' : e \in deletes \/ e.cluster = d.cluster
        /\ \A t \in teardowns' : t \in teardowns \/ (Starts(d) /\ Begun(t, d.cluster))
    BY <1>0, <1>9, DeleteMoves
  <2>. QED  BY StaysClean, SameExternal, <2>1, <2>2
<1>10. ASSUME NEW c \in Clusters, BecomesDue(c) PROVE Clean'
  BY StaysClean, SameExternal, <1>10 DEF BecomesDue, tasks, Live
<1>11. ASSUME NEW c \in Clusters, ContainerExits(c) PROVE Clean'
  <2>1. \A x \in Clusters : NoContainer(x) => NoContainer(x)'
    BY <1>0, <1>11 DEF ContainerExits, ExternalOK, NoContainer
  <2>2. \A x : HasFiles(x)' <=> HasFiles(x)
    BY <1>11 DEF ContainerExits, HasFiles, PrepareLeftRunning
  <2>. QED  BY StaysClean, <1>11, <2>1, <2>2 DEF ContainerExits, table, tasks, Live
<1>12. CASE ReaperStep
  <2>1. \A d \in deletes' : d \in deletes \/ \E c \in Live : d.cluster = rows[c]
    BY <1>0, <1>12, ReaperMoves
  <2>2. \A t \in teardowns' : t \in teardowns \/ \E d \in deletes : Starts(d) /\ Begun(t, d.cluster)
    BY <1>0, <1>12, ReaperMoves DEF Mine
  <2>3. Live' = Live /\ UNCHANGED <<rows, launching, spawns, external>>
    BY <1>0, <1>12, ReaperMoves DEF table, Live
  <2>. QED  BY StaysClean, SameExternal, <2>1, <2>2, <2>3
<1>13. CASE Crash
  <2>1. \A c : (HasFiles(c)' => HasFiles(c)) /\ (NoContainer(c) => NoContainer(c)')
    BY <1>13 DEF Crash, HasFiles, PrepareLeftRunning, NoContainer
  <2>2. /\ launching' = {} /\ spawns' = {} /\ deletes' = {} /\ teardowns' = {}
        /\ UNCHANGED rows
    BY <1>13 DEF Crash, table
  <2>. QED  BY StaysClean, <2>1, <2>2 DEF Live
<1>14. CASE Start
  BY StaysClean, SameExternal, <1>14 DEF Start, table, tasks, Live
<1>15. CASE ReconcileStep
  <2>1. UNCHANGED <<launching, spawns, deletes, external>>
    BY <1>0, <1>15, ReconcileMoves DEF ReconcileMove
  <2>2. \A t \in teardowns' : t \in teardowns \/ \E c \in Live : Begun(t, rows[c])
    BY <1>0, <1>15, ReconcileMoves DEF ReconcileMove
  <2>3. Live' = Live /\ \A x \in Live : rows[x].worker => rows'[x].worker
    BY <1>0, <1>2, <1>15, ReconcileMoves DEF ReconcileMove, table, Live, ClusterStates
  <2>. QED  BY StaysClean, SameExternal, <2>1, <2>2, <2>3
<1>16. ASSUME NEW q \in late, LateStep(q) PROVE Clean'
  BY <1>16, LateStepClean
<1>. QED
  BY <1>3, <1>4, <1>5, <1>6, <1>7, <1>8, <1>9, <1>10, <1>11, <1>12, <1>13, <1>14, <1>15, <1>16
     DEF Next, Background

LEMMA InitCopies == Init => CopiesAgree
BY DEF Init, CopiesAgree, Copies

(* As long as Docker and the wipe do what teardowns ask, what outlives a   *)
(* cluster's row, whatever else fails and whoever deletes, is a container  *)
(* or files that an abandoned call of its spawn made after all, never one  *)
(* that a spawn made while it waited for it.                               *)
THEOREM NothingIsLeftBehind ==
  ASSUME RemovalsWork PROVE Spec => []NothingOutlivesItsRow
<1>1. Init => CopiesAgree /\ Clean
  BY InitCopies, InitClean
<1>2. TypeOK /\ Ownership /\ CopiesAgree /\ Orphans /\ Clean /\ [Next]_vars
        => CopiesAgree' /\ Clean'
  BY StepCopies, StepClean
<1>3. Clean => NothingOutlivesItsRow
  BY DEF Clean, RowsCover, NoContainer, HasFiles, NothingOutlivesItsRow
<1>. QED  BY <1>1, <1>2, <1>3, TypeCorrect, OwnershipHolds, LateHolds, PTL DEF Spec
-----------------------------------------------------------------------------
(* A call that is about to start a teardown is the only one that means to. *)
OneStarter ==
  \A d, e \in deletes :
    Starts(d) /\ Starts(e) /\ d.pc = "dispatch" /\ d.cluster.id = e.cluster.id => d = e

CallsComeFirst ==
  \A d \in deletes : Starts(d) =>
    d.cluster.id \in Live /\ \A t \in teardowns : t.cluster.id # d.cluster.id

TeardownsHaveRows == \A t \in teardowns : t.cluster.id \in Live

OneAtATime == CallsComeFirst /\ TeardownsHaveRows /\ AtMostOneTeardown

LEMMA InitOneAtATime == Init => OneAtATime
BY DEF Init, OneAtATime, CallsComeFirst, TeardownsHaveRows, AtMostOneTeardown

(* A cluster that nobody tears down or is about to may get a teardown.     *)
LEMMA OneMoreTeardown ==
  ASSUME OneAtATime, NEW t, t.cluster.id \in Live,
         \A u \in teardowns : u.cluster.id # t.cluster.id,
         \A d \in deletes' : Starts(d) => d.cluster.id # t.cluster.id,
         teardowns' = teardowns \cup {t}, deletes' \subseteq deletes, UNCHANGED rows
  PROVE  OneAtATime'
BY DEF OneAtATime, CallsComeFirst, TeardownsHaveRows, AtMostOneTeardown,
       Mine, Starts, Live

(* Steps that start no teardown and make no call.                          *)
LEMMA StaysOneAtATime ==
  ASSUME OneAtATime, UNCHANGED <<deletes, teardowns>>, Live \subseteq Live'
  PROVE  OneAtATime'
BY DEF OneAtATime, CallsComeFirst, TeardownsHaveRows, AtMostOneTeardown,
       Mine, Starts

LEMMA SpawnStepOneAtATime ==
  ASSUME TableOK, TasksOK, Ownership, OneAtATime, NEW s \in spawns, SpawnStep(s)
  PROVE  OneAtATime'
<1>1. UNCHANGED <<deletes, sweep>>
  BY SpawnMoves
<1>2. Live' = Live /\ due' \subseteq due
  <2>1. ASSUME SetWorker(s.cluster.id) PROVE Live' = Live
    BY <2>1, SetWorkerOK DEF TableOK
  <2>2. ASSUME NEW st \in {"Ready", "Failed"}, WriteState(s.cluster.id, st) PROVE Live' = Live
    BY <2>2, UpdateStateOK DEF WriteState, TableOK, ClusterStates
  <2>3. \/ UNCHANGED rows \/ SetWorker(s.cluster.id)
        \/ \E st \in {"Ready", "Failed"} : WriteState(s.cluster.id, st)
    BY SpawnMoves DEF SpawnMove
  <2>4. due' \subseteq due
    BY DEF SpawnStep, SpawnSetWorker, SpawnPrepare, SpawnCreate, SpawnStart, SpawnHealthy, SpawnFails,
         SpawnCancelled, SpawnRecheck, SpawnWrite, SpawnFinish, WriteState, table
  <2>. QED  BY <2>1, <2>2, <2>3, <2>4 DEF Live
<1>3. CASE UNCHANGED teardowns
  BY <1>1, <1>2, <1>3, StaysOneAtATime
<1>4. CASE /\ s.pc \in UnwrittenPcs /\ UNCHANGED rows
           /\ teardowns' = teardowns \cup {StartTeardown("spawn", s.cluster)}
  <2>1. StartTeardown("spawn", s.cluster).cluster.id = s.cluster.id
    BY SpawnTaskOK, StartTeardownIs DEF TasksOK, Begun, SameCopy
  <2>2. /\ s.cluster.id \in Live
        /\ \A d \in deletes : Starts(d) => d.cluster.id # s.cluster.id
        /\ \A t \in teardowns : t.cluster.id # s.cluster.id
    BY <1>4, OwnerHasItAlone
  <2>. QED  BY <1>1, <1>2, <1>4, <2>1, <2>2, OneMoreTeardown
<1>. QED  BY <1>3, <1>4, SpawnMoves DEF SpawnMove, UnwrittenPcs, DoSpawn

LEMMA TeardownStepOneAtATime ==
  ASSUME TableOK, TasksOK, OneAtATime, NEW t \in teardowns, TeardownStep(t)
  PROVE  OneAtATime'
<1>. DEFINE c == t.cluster.id
<1>1. UNCHANGED <<deletes, sweep>>
  BY TeardownMoves
<1>2. CASE /\ teardowns' = teardowns \ {t}
           /\ (DeleteRow(c) /\ due' = due \ {c}) \/ UNCHANGED table
  <2>1. due' \subseteq due /\ \A x \in Live : x = c \/ x \in Live'
    <3>1. CASE DeleteRow(c) /\ due' = due \ {c}
      BY <3>1, DeleteRowOK DEF TableOK
    <3>2. CASE UNCHANGED table
      BY <3>2 DEF table, Live
    <3>. QED  BY <1>2, <3>1, <3>2
  <2>2. \A u \in teardowns' : u \in teardowns /\ u.cluster.id # c
    BY <1>2 DEF OneAtATime, AtMostOneTeardown
  <2>3. \A d \in deletes : Starts(d) => d.cluster.id # c
    BY DEF OneAtATime, CallsComeFirst
  <2>. QED  BY <1>1, <2>1, <2>2, <2>3
            DEF OneAtATime, CallsComeFirst, TeardownsHaveRows,
                AtMostOneTeardown, Mine, Starts
<1>3. ASSUME NEW y, teardowns' = (teardowns \ {t}) \cup {y}, y.cluster = t.cluster, UNCHANGED table
      PROVE  OneAtATime'
  BY <1>1, <1>3 DEF OneAtATime, CallsComeFirst, TeardownsHaveRows,
                    AtMostOneTeardown, Mine, Starts, table, Live
<1>. QED  BY <1>2, <1>3, TeardownMoves

LEMMA DeleteStepOneAtATime ==
  ASSUME TableOK, TasksOK, OneStarter, OneAtATime, NEW d \in deletes,
         DeleteWrite(d) \/ DeleteDispatch(d) \/ DeleteDropped(d)
  PROVE  OneAtATime'
<1>1. UNCHANGED sweep
  BY DeleteMoves
<1>2. CASE deletes' = deletes \ {d} /\ UNCHANGED <<table, teardowns>>
  BY <1>1, <1>2 DEF OneAtATime, CallsComeFirst, TeardownsHaveRows,
                    AtMostOneTeardown, Mine, Starts, table, Live
<1>3. ASSUME Starts(d), d.pc = "dispatch", deletes' = deletes \ {d}, UNCHANGED table, NEW t,
             teardowns' = teardowns \cup {t}, Begun(t, d.cluster)
      PROVE  OneAtATime'
  <2>1. t.cluster.id = d.cluster.id
    BY <1>3 DEF Begun, SameCopy
  <2>2. \A e \in deletes' : e \in deletes /\ (Starts(e) => e.cluster.id # d.cluster.id)
    BY <1>3 DEF OneStarter
  <2>3. d.cluster.id \in Live /\ \A u \in teardowns : u.cluster.id # d.cluster.id
    BY <1>3 DEF OneAtATime, CallsComeFirst
  <2>. QED  BY <1>1, <1>3, <2>1, <2>2, <2>3, OneMoreTeardown DEF table
<1>4. ASSUME UNCHANGED teardowns, WriteState(d.cluster.id, "Deleting"), NEW e,
             deletes' = (deletes \ {d}) \cup {e}, e.cluster = d.cluster, e.by = d.by
      PROVE  OneAtATime'
  <2>1. Live' = Live /\ due' \subseteq due
    BY <1>4, UpdateStateOK DEF WriteState, TableOK, ClusterStates
  <2>. QED  BY <1>1, <1>4, <2>1
            DEF OneAtATime, CallsComeFirst, TeardownsHaveRows,
                AtMostOneTeardown, Mine, Starts
<1>. QED  BY <1>2, <1>3, <1>4, DeleteMoves

(* A call that begins finds the row Deleting if it is being torn down.     *)
LEMMA OneMoreCall ==
  ASSUME TableOK, Ownership, OneAtATime, NEW c \in Live, NEW d, d.cluster = rows[c],
         deletes' = deletes \cup {d}, UNCHANGED <<table, teardowns>>
  PROVE  OneAtATime'
<1>1. d.cluster.id = c
  BY DEF TableOK, RowsOK
<1>2. Starts(d) => \A t \in teardowns : t.cluster.id # c
  BY DEF Starts, DeleteOutcome, Ownership, TeardownOnlyWhenDeleting
<1>. QED  BY <1>1, <1>2 DEF OneAtATime, CallsComeFirst, TeardownsHaveRows,
                            AtMostOneTeardown, Starts, table, Live

LEMMA ReaperStepOneAtATime ==
  ASSUME TableOK, TasksOK, Ownership, OneStarter, OneAtATime, ReaperStep
  PROVE  OneAtATime'
<1>0. UNCHANGED table /\ Live' = Live
  BY ReaperMoves DEF table, Live
<1>1. CASE UNCHANGED <<deletes, teardowns>>
  BY <1>0, <1>1, StaysOneAtATime
<1>2. ASSUME NEW c \in Live, UNCHANGED teardowns, NEW d,
             deletes' = deletes \cup {d}, d.cluster = rows[c]
      PROVE  OneAtATime'
  BY <1>0, <1>2, OneMoreCall
<1>3. CASE /\ deletes' = deletes \ Mine("reaper")
           /\ \A d \in Mine("reaper") : d.pc = "dispatch"
           /\ teardowns \subseteq teardowns'
           /\ \A t \in teardowns' \ teardowns :
                \E d \in Mine("reaper") : Starts(d) /\ Begun(t, d.cluster)
           /\ \A t, u \in teardowns' \ teardowns :
                t.cluster.id = u.cluster.id =>
                  \/ t = u
                  \/ \E d, e \in Mine("reaper") : /\ d # e /\ Starts(d) /\ Starts(e)
                                                /\ d.cluster.id = e.cluster.id
  <2>1. \A t \in teardowns' \ teardowns :
          /\ t.cluster.id \in Live
          /\ \A u \in teardowns : u.cluster.id # t.cluster.id
          /\ \A d \in deletes' : Starts(d) => d.cluster.id # t.cluster.id
    <3>. SUFFICES ASSUME NEW t \in teardowns' \ teardowns
                  PROVE  /\ t.cluster.id \in Live
                         /\ \A u \in teardowns : u.cluster.id # t.cluster.id
                         /\ \A d \in deletes' : Starts(d) => d.cluster.id # t.cluster.id
      OBVIOUS
    <3>1. PICK d \in Mine("reaper") : Starts(d) /\ Begun(t, d.cluster)
      BY <1>3
    <3>2. d \in deletes /\ t.cluster.id = d.cluster.id
      BY <3>1 DEF Mine, Begun, SameCopy
    <3>. QED  BY <1>3, <3>1, <3>2 DEF OneStarter, OneAtATime, CallsComeFirst
  <2>2. Mine("reaper") \subseteq deletes
    BY DEF Mine
  <2>3. AtMostOneTeardown'
    BY <1>3, <2>1, <2>2 DEF OneStarter, OneAtATime, AtMostOneTeardown
  <2>4. CallsComeFirst' /\ TeardownsHaveRows'
    BY <1>0, <1>3, <2>1 DEF OneAtATime, CallsComeFirst, TeardownsHaveRows, Starts
  <2>. QED  BY <2>3, <2>4 DEF OneAtATime
<1>. QED  BY <1>1, <1>2, <1>3, ReaperMoves

LEMMA StepOneAtATime ==
  ASSUME TypeOK, Ownership, OneStarter, OneAtATime, [Next]_vars
  PROVE  OneAtATime'
<1>0. TableOK /\ TasksOK /\ ProcessOK
  BY DEF TypeOK
<1>1. CASE UNCHANGED vars
  BY <1>1, StaysOneAtATime DEF vars, table, tasks, Live
<1>2. ASSUME NEW c \in Clusters, NEW o \in Owners, Create(c, o) PROVE OneAtATime'
  <2>1. Live \subseteq Live'
    BY <1>2 DEF Create, TryInsert, Live
  <2>. QED  BY <1>2, <2>1, StaysOneAtATime DEF Create
<1>3. ASSUME NEW x \in launching, LaunchSpawn(x) \/ CreateDropped(x) PROVE OneAtATime'
  BY <1>3, StaysOneAtATime DEF LaunchSpawn, CreateDropped, table, Live
<1>4. ASSUME NEW s \in spawns, SpawnStep(s) PROVE OneAtATime'
  BY <1>0, <1>4, SpawnStepOneAtATime
<1>5. ASSUME NEW t \in teardowns, TeardownStep(t) PROVE OneAtATime'
  BY <1>0, <1>5, TeardownStepOneAtATime
<1>6. ASSUME NEW r \in Requests, NEW c \in Clusters, DeleteRead(r, c) PROVE OneAtATime'
  <2>1. Call(r, c).cluster = rows[c]
    BY DEF Call
  <2>2. c \in Live /\ deletes' = deletes \cup {Call(r, c)} /\ UNCHANGED <<table, teardowns>>
    BY <1>6 DEF DeleteRead
  <2>. QED  BY <1>0, <2>1, <2>2, OneMoreCall
<1>7. ASSUME NEW d \in deletes, DeleteWrite(d) \/ DeleteDispatch(d) \/ DeleteDropped(d)
      PROVE  OneAtATime'
  BY <1>0, <1>7, DeleteStepOneAtATime
<1>8. CASE \/ \E c \in Clusters : BecomesDue(c) \/ ContainerExits(c)
           \/ \E q \in late : LateStep(q)
  BY <1>8, StaysOneAtATime DEF BecomesDue, ContainerExits, LateStep, table, tasks, Live
<1>9. CASE ReaperStep
  BY <1>0, <1>9, ReaperStepOneAtATime
<1>10. CASE Crash
  BY <1>10 DEF Crash, OneAtATime, CallsComeFirst, TeardownsHaveRows,
               AtMostOneTeardown, Mine, table
<1>11. CASE Start
  BY <1>11, StaysOneAtATime DEF Start, table, tasks, Live
<1>12. CASE ReconcileStep
  <2>1. deletes = {} /\ sweep = {} /\ teardowns = {} /\ UNCHANGED <<deletes, sweep>>
    BY <1>0, <1>12, ReconcileMoves DEF ReconcileMove
  <2>2. Live' = Live /\ due' \subseteq due
    <3>1. ASSUME NEW c, NEW st \in {"Failed", "Deleting"}, WriteState(c, st)
          PROVE  Live' = Live /\ due' \subseteq due
      BY <1>0, <3>1, UpdateStateOK DEF WriteState, TableOK, ClusterStates
    <3>. QED  BY <1>0, <1>12, <3>1, ReconcileMoves DEF ReconcileMove, table, Live
  <2>3. \A t, u \in teardowns' : t = u /\ t.cluster.id \in Live
    BY <1>0, <1>12, <2>1, ReconcileMoves DEF ReconcileMove, Begun, SameCopy
  <2>. QED  BY <2>1, <2>2, <2>3 DEF OneAtATime, CallsComeFirst,
                TeardownsHaveRows, AtMostOneTeardown, Mine
<1>. QED
  BY <1>1, <1>2, <1>3, <1>4, <1>5, <1>6, <1>7, <1>8, <1>9, <1>10, <1>11, <1>12
     DEF Next, Background

(* As long as no two calls mean to start a teardown of one cluster         *)
(* (finding 3), whatever fails and however often the process restarts, no  *)
(* cluster is torn down twice at once: not by the reaper and a spawn, nor  *)
(* after a restart, however many clients delete.                           *)
THEOREM OneTeardownAtATime == Spec /\ []OneStarter => []AtMostOneTeardown
<1>1. TypeOK /\ Ownership /\ OneStarter /\ OneAtATime /\ [Next]_vars => OneAtATime'
  BY StepOneAtATime
<1>2. OneAtATime => AtMostOneTeardown
  BY DEF OneAtATime
<1>. QED  BY <1>1, <1>2, InitOneAtATime, TypeCorrect, OwnershipHolds, PTL DEF Spec
-----------------------------------------------------------------------------
(* The clusters whose container was started and has not been removed, and  *)
(* the files that are there, or may have gone only by a wipe left running. *)
Up     == {c \in Clusters : containers[c] \in {"running", "exited"}}
Spared == files \cup {f \in File : \E q \in late : /\ q.op = "wipe"
                                                   /\ q.cluster.owner = f.owner
                                                   /\ q.cluster.slot = f.slot}

(* A spawn that is about to conclude, or has concluded, that its cluster   *)
(* is up.                                                                  *)
Built(s) == s.pc = "wait" \/ (s.pc \in {"recheck", "write"} /\ s.ok)
Filed(s) == s.pc \in {"create", "run"} \/ Built(s)

SpawnsIntact ==
  \A s \in spawns : /\ Filed(s) => FileOf(s.cluster) \in Spared
                    /\ Built(s) => s.cluster.id \in Up

RowsIntact ==
  \A c \in Live : rows[c].state = "Ready" => c \in Up /\ FileOf(rows[c]) \in Spared

Intact == RowsIntact /\ SpawnsIntact

LEMMA InitIntact == Init => Intact
BY DEF Init, Intact, RowsIntact, SpawnsIntact, Live

LEMMA IntactMeansReady ==
  ASSUME TypeOK, Intact PROVE ReadyIntact
<1>. SUFFICES ASSUME NEW c \in Live, rows[c].state = "Ready"
              PROVE  /\ containers[c] \in {"running", "exited"}
                     /\ FileOf(rows[c]) \in files \/ WipeLeftRunning(rows[c])
  BY DEF ReadyIntact
<1>1. c \in Up /\ FileOf(rows[c]) \in Spared
  BY DEF Intact, RowsIntact
<1>2. FileOf(rows[c]).owner = rows[c].owner /\ FileOf(rows[c]).slot = rows[c].slot
  BY DEF FileOf
<1>. QED  BY <1>1, <1>2 DEF Up, Spared, WipeLeftRunning

(* Wipes that were left behind are not taken back.                         *)
LEMMA SparedStays ==
  ASSUME \A q \in late : q.op = "wipe" => q \in late', NEW S, files \ S \subseteq files'
  PROVE  Spared \ S \subseteq Spared'
BY DEF Spared

(* Steps that make nothing Ready and take nothing away.                    *)
LEMMA StaysIntact ==
  ASSUME Intact,
         \A c \in Live' : rows'[c].state = "Ready" =>
           /\ c \in Live /\ rows[c].state = "Ready"
           /\ FileOf(rows'[c]) = FileOf(rows[c]),
         \A s \in spawns' : s \in spawns \/ s.pc = "start",
         Spared \subseteq Spared', Up \subseteq Up'
  PROVE  Intact'
BY DEF Intact, RowsIntact, SpawnsIntact, Filed, Built

LEMMA SameThings ==
  ASSUME UNCHANGED external PROVE Spared' = Spared /\ Up' = Up
BY DEF external, Spared, Up

(* What is written over a row leaves its place as it was.                  *)
LEMMA WriteKeepsPlace ==
  ASSUME TableOK, NEW c, NEW st \in ClusterStates, WriteState(c, st)
  PROVE  /\ Live' = Live /\ c \in Live /\ rows'[c].state = st
         /\ FileOf(rows'[c]) = FileOf(rows[c]) /\ rows'[c].worker = rows[c].worker
         /\ \A x \in Live \ {c} : rows'[x] = rows[x]
<1>1. RowsOK /\ UpdateState(c, st)
  BY DEF TableOK, WriteState
<1>. DEFINE new == [rows[c] EXCEPT !.state = st]
<1>2. c \in Live => /\ new.state = st /\ new.id = rows[c].id /\ new.owner = rows[c].owner
                    /\ new.slot = rows[c].slot /\ new.worker = rows[c].worker
  BY <1>1 DEF RowsOK, Cluster
<1>3. /\ Live' = Live /\ c \in Live /\ rows'[c] = new
      /\ \A x \in Live \ {c} : rows'[x] = rows[x]
  BY <1>1, UpdateStateOK
<1>. HIDE DEF new
<1>. QED  BY <1>2, <1>3 DEF FileOf

LEMMA SetWorkerKeepsPlace ==
  ASSUME TableOK, NEW c, SetWorker(c)
  PROVE  /\ Live' = Live /\ c \in Live /\ rows'[c].state = rows[c].state
         /\ FileOf(rows'[c]) = FileOf(rows[c])
         /\ \A x \in Live \ {c} : rows'[x] = rows[x]
<1>1. RowsOK
  BY DEF TableOK
<1>. DEFINE new == [rows[c] EXCEPT !.worker = TRUE]
<1>2. c \in Live => /\ new.state = rows[c].state /\ new.id = rows[c].id /\ new.owner = rows[c].owner
                    /\ new.slot = rows[c].slot
  BY <1>1 DEF RowsOK, Cluster
<1>3. /\ Live' = Live /\ c \in Live /\ rows'[c] = new
      /\ \A x \in Live \ {c} : rows'[x] = rows[x]
  BY <1>1, SetWorkerOK
<1>. HIDE DEF new
<1>. QED  BY <1>2, <1>3 DEF FileOf

LEMMA SpawnStepIntact ==
  ASSUME TableOK, TasksOK, ExternalOK, Ownership, CopiesAgree, Intact,
         NEW s \in spawns, SpawnStep(s)
  PROVE  Intact'
<1>. DEFINE c == s.cluster.id
<1>1. CASE SpawnFinish(s) /\ spawns' = spawns \ {s} /\ UNCHANGED <<rows, external>>
  BY <1>1, StaysIntact, SameThings DEF Live
<1>2. ASSUME NEW y, spawns' = (spawns \ {s}) \cup {y}, SameCopy(y.cluster, s.cluster),
             SpawnMove(s, y)
      PROVE  Intact'
  <2>0. /\ s.pc \in UnwrittenPcs /\ y.cluster.id = c
        /\ FileOf(y.cluster) = FileOf(s.cluster)
    BY <1>2 DEF SpawnMove, UnwrittenPcs, DoSpawn, SameCopy, FileOf
  <2>1. /\ c \in Live /\ c \in Clusters /\ rows[c].id = c
        /\ \A r \in spawns : r # s => r.cluster.id # c
        /\ \A r \in spawns : r.cluster.id \in Clusters
    BY <2>0, OwnerHasItAlone, SpawnTaskOK DEF TableOK, RowsOK, TasksOK
  <2>2. FileOf(s.cluster) = FileOf(rows[c])
    BY <2>1 DEF FileOf, CopiesAgree, Copies, SamePlace
  <2>3. /\ Live' = Live
        /\ \A x \in Live : FileOf(rows'[x]) = FileOf(rows[x])
        /\ \A x \in Live : rows'[x].state = "Ready" =>
              rows[x].state = "Ready" \/ (x = c /\ s.pc = "write" /\ s.ok)
    <3>1. CASE UNCHANGED rows
      BY <3>1 DEF Live
    <3>2. CASE SetWorker(c)
      BY <3>2, SetWorkerKeepsPlace
    <3>3. ASSUME NEW st \in {"Ready", "Failed"}, WriteState(c, st),
                 st = "Failed" \/ (s.pc = "write" /\ s.ok)
          PROVE  <2>3!1 /\ <2>3!2 /\ <2>3!3
      BY <3>3, WriteKeepsPlace DEF ClusterStates
    <3>. QED  BY <1>2, <3>1, <3>2, <3>3 DEF SpawnMove
  <2>4. Spared \subseteq Spared' /\ Up \subseteq Up'
    <3>1. /\ files \subseteq files' /\ late \subseteq late'
          /\ \A x \in Clusters : x \in Up => containers'[x] \in {"running", "exited"}
      BY <1>2, <2>1 DEF SpawnMove, external, ExternalOK, Up
    <3>2. Up \subseteq Up'
      BY <3>1 DEF Up
    <3>. QED  BY <3>1, <3>2 DEF Spared
  <2>5. Filed(s) => FileOf(s.cluster) \in Spared
    BY DEF Intact, SpawnsIntact
  <2>6. Filed(y) => FileOf(y.cluster) \in Spared'
    <3>1. CASE y.pc = "create"
      <4>1. FileOf(s.cluster) \in files'
        BY <1>2, <3>1 DEF SpawnMove, DoSpawn
      <4>. QED  BY <2>0, <4>1 DEF Spared
    <3>2. CASE Filed(y) /\ y.pc # "create"
      <4>1. Filed(s)
        BY <1>2, <3>2 DEF SpawnMove, Filed, Built, DoSpawn
      <4>. QED  BY <2>0, <2>4, <2>5, <4>1
    <3>. QED  BY <3>1, <3>2
  <2>7. Built(y) => c \in Up'
    <3>1. y.pc = "wait" => c \in Up'
      <4>1. y.pc = "wait" => containers'[c] = "running"
        BY <1>2, <2>1 DEF SpawnMove, ExternalOK, DoSpawn
      <4>. QED  BY <2>1, <4>1 DEF Up
    <3>2. CASE Built(y) /\ y.pc # "wait"
      <4>1. Built(s)
        BY <1>2, <3>2 DEF SpawnMove, Built, DoSpawn
      <4>. QED  BY <2>1, <2>4, <4>1 DEF Intact, SpawnsIntact
    <3>. QED  BY <3>1, <3>2
  <2>8. SpawnsIntact'
    BY <1>2, <2>0, <2>1, <2>4, <2>6, <2>7 DEF Intact, SpawnsIntact, Built, Filed
  <2>9. s.pc = "write" /\ s.ok => c \in Up /\ FileOf(rows[c]) \in Spared
    BY <2>2, <2>5 DEF Intact, SpawnsIntact, Built, Filed
  <2>10. RowsIntact'
    BY <2>3, <2>4, <2>9 DEF Intact, RowsIntact
  <2>. QED  BY <2>8, <2>10 DEF Intact
<1>. QED  BY <1>1, <1>2, SpawnMoves

(* The teardown of a cluster that is in the table reaches nobody else's    *)
(* container and, slots being exclusive, nobody else's files.              *)
LEMMA TeardownStepIntact ==
  ASSUME TableOK, TasksOK, ExternalOK, Ownership, CopiesAgree, SlotsExclusive, TeardownsHaveRows,
         Intact, NEW t \in teardowns, TeardownStep(t)
  PROVE  Intact'
<1>. DEFINE c == t.cluster.id
<1>0. /\ UNCHANGED spawns
      /\ c \in Live /\ rows[c].state = "Deleting" /\ SamePlace(t.cluster)
      /\ \A s \in spawns : SamePlace(s.cluster)
  BY TeardownMoves
     DEF TeardownsHaveRows, Ownership, TeardownOnlyWhenDeleting, CopiesAgree, Copies
<1>1. CASE UNCHANGED external /\ (DeleteRow(c) \/ UNCHANGED table)
  <2>1. \A x \in Live' : x \in Live /\ rows'[x] = rows[x]
    <3>1. CASE DeleteRow(c)
      BY <3>1, DeleteRowOK DEF TableOK
    <3>2. CASE UNCHANGED table
      BY <3>2 DEF table, Live
    <3>. QED  BY <1>1, <3>1, <3>2
  <2>. QED  BY <1>0, <1>1, <2>1, StaysIntact, SameThings
<1>2. CASE /\ UNCHANGED rows /\ files \ FilesAt(t.cluster) \subseteq files'
           /\ late \subseteq late'
           /\ containers' = [containers EXCEPT ![c] = "absent"] \/ UNCHANGED containers
  <2>1. Spared \ FilesAt(t.cluster) \subseteq Spared'
    BY <1>2, SparedStays
  <2>2. Up \ {c} \subseteq Up'
    <3>1. \A x \in Clusters : x # c => containers'[x] = containers[x]
      BY <1>2 DEF ExternalOK
    <3>. QED  BY <3>1 DEF Up
  <2>3. \A x \in Live : x # c => FileOf(rows[x]) \notin FilesAt(t.cluster)
    BY <1>0 DEF SlotsExclusive, FilesAt, FileOf, SamePlace
  <2>4. RowsIntact'
    BY <1>0, <1>2, <2>1, <2>2, <2>3 DEF Intact, RowsIntact, Live
  <2>5. \A s \in spawns : Filed(s) =>
            /\ FileOf(s.cluster) = FileOf(rows[s.cluster.id])
            /\ s.cluster.id \in Live /\ s.cluster.id # c
    BY <1>0, OwnerHasItAlone, RowIds DEF Filed, Built, UnwrittenPcs, DoSpawn, SamePlace, FileOf
  <2>6. SpawnsIntact'
    BY <1>0, <2>1, <2>2, <2>3, <2>5 DEF Intact, SpawnsIntact, Filed, Built
  <2>. QED  BY <2>4, <2>6 DEF Intact
<1>. QED  BY <1>1, <1>2, TeardownMoves DEF table

(* What a teardown left behind is about a cluster that is Deleting or gone,*)
(* and a wipe that goes on is the exception that ReadyIntact makes.        *)
LEMMA LateStepIntact ==
  ASSUME TasksOK, ExternalOK, LateOrders, Intact, NEW q \in late, LateStep(q)
  PROVE  Intact'
<1>. DEFINE c == q.cluster.id
<1>0. c \in Clusters /\ UNCHANGED <<rows, spawns>>
  BY DEF ExternalOK, Order, Cluster, LateStep, table, tasks
<1>1. Spared \subseteq Spared'
  <2>1. CASE LateWipe(q)
    <3>1. PICK f \in FilesAt(q.cluster) : files' = files \ {f}
      BY <2>1 DEF LateWipe, Remove
    <3>2. f \in File /\ q.op = "wipe" /\ q.cluster.owner = f.owner /\ q.cluster.slot = f.slot
      BY <2>1 DEF LateWipe, FilesAt, ExternalOK
    <3>3. f \in Spared' /\ UNCHANGED late
      BY <2>1, <3>2 DEF Spared, LateWipe
    <3>4. Spared \ {f} \subseteq Spared'
      BY <3>1, <3>3, SparedStays
    <3>. QED  BY <3>3, <3>4
  <2>2. CASE LateCreate(q) \/ LateRun(q) \/ LateRemove(q) \/ LatePrepare(q)
    <3>1. files \ {} \subseteq files' /\ \A r \in late : r.op = "wipe" => r \in late'
      BY <2>2 DEF LateCreate, LateRun, LateRemove, LatePrepare, Remove
    <3>2. Spared \ {} \subseteq Spared'
      BY <3>1, SparedStays
    <3>. QED  BY <3>2
  <2>. QED  BY <2>1, <2>2 DEF LateStep
<1>2. CASE LateRemove(q)
  <2>1. Up \ {c} \subseteq Up'
    <3>1. \A x \in Clusters : x # c => containers'[x] = containers[x]
      BY <1>2 DEF LateRemove, ExternalOK
    <3>. QED  BY <3>1 DEF Up
  <2>2. ~Owned(c) /\ GoneOrDeleting(c)
    BY <1>2 DEF LateRemove, LateOrders, TeardownOrders, Done
  <2>3. \A s \in spawns : Built(s) => s.cluster.id # c
    BY <2>2 DEF Owned, Built, UnwrittenPcs, DoSpawn
  <2>. QED  BY <1>0, <1>1, <2>1, <2>2, <2>3
            DEF Intact, RowsIntact, SpawnsIntact, Filed, Built, GoneOrDeleting, Live
<1>3. CASE LateCreate(q) \/ LateRun(q) \/ LatePrepare(q) \/ LateWipe(q)
  <2>1. \A x \in Clusters : x \in Up => containers'[x] \in {"running", "exited"}
    BY <1>0, <1>3 DEF LateCreate, LateRun, LatePrepare, LateWipe, ExternalOK, Up
  <2>2. Up \subseteq Up'
    BY <2>1 DEF Up
  <2>. QED  BY <1>0, <1>1, <2>2, StaysIntact DEF Live
<1>. QED  BY <1>2, <1>3 DEF LateStep

LEMMA StepIntact ==
  ASSUME TypeOK, Ownership, CopiesAgree, SlotsExclusive, TeardownsHaveRows, LateOrders, Intact,
         [Next]_vars
  PROVE  Intact'
<1>0. TableOK /\ TasksOK /\ ProcessOK /\ ExternalOK
  BY DEF TypeOK
<1>1. ASSUME NEW c, NEW st \in {"Failed", "Deleting"}, WriteState(c, st)
      PROVE  \A x \in Live' : rows'[x].state = "Ready" =>
               /\ x \in Live /\ rows[x].state = "Ready"
               /\ FileOf(rows'[x]) = FileOf(rows[x])
  BY <1>0, <1>1, WriteKeepsPlace DEF ClusterStates
<1>2. ASSUME UNCHANGED <<rows, spawns, external>> PROVE Intact'
  BY <1>2, StaysIntact, SameThings DEF Live
<1>3. CASE UNCHANGED vars
  BY <1>2, <1>3 DEF vars, table, tasks
<1>4. ASSUME NEW c \in Clusters, NEW o \in Owners, Create(c, o) PROVE Intact'
  <2>1. /\ Live' = Live \cup {c} /\ rows'[c].state = "Spawning"
        /\ \A x \in Live : x # c => rows'[x] = rows[x]
    BY <1>4 DEF Create, TryInsert, NewCluster, Live
  <2>. QED  BY <1>4, <2>1, StaysIntact, SameThings DEF Create
<1>5. ASSUME NEW x \in launching, LaunchSpawn(x) \/ CreateDropped(x) PROVE Intact'
  <2>1. NewSpawn(x).pc = "start"
    BY DEF NewSpawn
  <2>. QED  BY <1>5, <2>1, StaysIntact, SameThings DEF LaunchSpawn, CreateDropped, table, Live
<1>6. ASSUME NEW s \in spawns, SpawnStep(s) PROVE Intact'
  BY <1>0, <1>6, SpawnStepIntact
<1>7. ASSUME NEW t \in teardowns, TeardownStep(t) PROVE Intact'
  BY <1>0, <1>7, TeardownStepIntact
<1>8. ASSUME NEW r \in Requests, NEW c \in Clusters, DeleteRead(r, c) PROVE Intact'
  BY <1>2, <1>8 DEF DeleteRead, table
<1>9. ASSUME NEW d \in deletes, DeleteWrite(d) \/ DeleteDispatch(d) \/ DeleteDropped(d)
      PROVE  Intact'
  <2>1. CASE WriteState(d.cluster.id, "Deleting") /\ UNCHANGED <<spawns, external>>
    BY <1>1, <2>1, StaysIntact, SameThings
  <2>. QED  BY <1>0, <1>2, <1>9, <2>1, DeleteMoves DEF table
<1>10. ASSUME NEW c \in Clusters, BecomesDue(c) PROVE Intact'
  BY <1>2, <1>10 DEF BecomesDue, tasks
<1>11. ASSUME NEW c \in Clusters, ContainerExits(c) PROVE Intact'
  <2>1. \A x \in Clusters : x \in Up => containers'[x] \in {"running", "exited"}
    BY <1>0, <1>11 DEF ContainerExits, ExternalOK, Up
  <2>2. Up \subseteq Up' /\ Spared' = Spared
    BY <1>11, <2>1 DEF ContainerExits, Up, Spared
  <2>. QED  BY <1>11, <2>2, StaysIntact DEF ContainerExits, table, tasks, Live
<1>12. CASE ReaperStep
  BY <1>0, <1>2, <1>12, ReaperMoves DEF table
<1>13. CASE Crash
  <2>1. Spared \subseteq Spared' /\ Up \subseteq Up'
    BY <1>13 DEF Crash, Spared, Up
  <2>. QED  BY <1>13, <2>1, StaysIntact DEF Crash, table, Live
<1>14. CASE Start
  BY <1>2, <1>14 DEF Start, table, tasks
<1>15. CASE ReconcileStep
  <2>1. CASE UNCHANGED <<table, spawns, external>>
    BY <1>2, <2>1 DEF table
  <2>2. ASSUME NEW c, NEW st \in {"Failed", "Deleting"}, WriteState(c, st),
               UNCHANGED <<spawns, external>>
        PROVE  Intact'
    BY <1>1, <2>2, StaysIntact, SameThings
  <2>. QED  BY <1>0, <1>15, <2>1, <2>2, ReconcileMoves DEF ReconcileMove
<1>16. ASSUME NEW q \in late, LateStep(q) PROVE Intact'
  BY <1>0, <1>16, LateStepIntact
<1>. QED
  BY <1>3, <1>4, <1>5, <1>6, <1>7, <1>8, <1>9, <1>10, <1>11, <1>12, <1>13, <1>14, <1>15, <1>16
     DEF Next, Background

(* As long as no two calls mean to start a teardown of one cluster,        *)
(* whatever fails and whatever is carried out late, no container of a      *)
(* Ready cluster is ever removed, and its files are, if at all, by a wipe  *)
(* of the slot that was cut off and goes on (WipeLeftRunning).             *)
THEOREM ReadyStaysIntact == Spec /\ []OneStarter => []ReadyIntact
<1>1. Init => CopiesAgree /\ OneAtATime /\ Intact
  BY InitCopies, InitOneAtATime, InitIntact
<1>2. TypeOK /\ Ownership /\ SlotsExclusive /\ OneStarter /\ CopiesAgree /\ OneAtATime
        /\ LateOrders /\ Intact /\ [Next]_vars => CopiesAgree' /\ OneAtATime' /\ Intact'
  BY StepCopies, StepOneAtATime, StepIntact DEF OneAtATime
<1>3. TypeOK /\ Intact => ReadyIntact
  BY IntactMeansReady
<1>. QED  BY <1>1, <1>2, <1>3, TypeCorrect, OwnershipHolds, SlotsAlwaysExclusive, LateHolds, PTL
          DEF Spec
-----------------------------------------------------------------------------
(* Where calls cannot meet: no user deletes, or one request at a time      *)
(* while no deadline passes.                                               *)
OneDeleter == Requests = {} \/ (~TtlsExpire /\ \E r : Requests = {r})

QuietReaper == ~TtlsExpire => due = {} /\ sweep = {} /\ Mine("reaper") = {}

CallsApart ==
  /\ \A d, e \in deletes : d.cluster.id = e.cluster.id => d = e
  /\ \A d \in deletes : d.cluster.id \notin sweep
  /\ QuietReaper

LEMMA InitCallsApart == Init => CallsApart
BY DEF Init, CallsApart, QuietReaper, Mine

(* Calls end, and go on.                                                   *)
LEMMA StayApart ==
  ASSUME CallsApart, deletes' \subseteq deletes, sweep' \subseteq sweep,
         TtlsExpire \/ due' \subseteq due
  PROVE  CallsApart'
BY DEF CallsApart, QuietReaper, Mine

LEMMA OneMoreApart ==
  ASSUME CallsApart, NEW d, \A e \in deletes : e.cluster.id # d.cluster.id,
         d.cluster.id \notin sweep', TtlsExpire \/ d.by # "reaper",
         deletes' = deletes \cup {d}, sweep' \subseteq sweep, due' = due
  PROVE  CallsApart'
BY DEF CallsApart, QuietReaper, Mine

LEMMA DueShrinks ==
  ASSUME TableOK, NEW c, NEW st \in ClusterStates, WriteState(c, st)
  PROVE  due' \subseteq due
BY DEF WriteState

LEMMA ReaperStepApart ==
  ASSUME OneDeleter, TableOK, TasksOK, CallsApart, ReaperStep
  PROVE  CallsApart'
<1>0. due' = due
  BY ReaperMoves DEF table
<1>1. CASE sweep = {} /\ Mine("reaper") = {} /\ sweep' = due /\ due # {} /\ UNCHANGED deletes
  <2>1. TtlsExpire /\ Requests = {}
    BY <1>1 DEF OneDeleter, CallsApart, QuietReaper
  <2>2. deletes = {}
    BY <1>1, <2>1, DeleteCallOK DEF TasksOK, Mine
  <2>. QED  BY <1>1, <2>1, <2>2 DEF CallsApart, QuietReaper
<1>2. CASE sweep' \subseteq sweep /\ deletes' \subseteq deletes
  BY <1>0, <1>2, StayApart
<1>3. ASSUME NEW c \in sweep, sweep' = sweep \ {c}, c \in Live, NEW d,
             deletes' = deletes \cup {d}, d.cluster = rows[c], d.by = "reaper"
      PROVE  CallsApart'
  <2>1. TtlsExpire /\ d.cluster.id = c /\ \A e \in deletes : e.cluster.id # c
    BY <1>3 DEF CallsApart, QuietReaper, TableOK, RowsOK
  <2>. QED  BY <1>0, <1>3, <2>1, OneMoreApart
<1>. QED  BY <1>1, <1>2, <1>3, ReaperMoves

LEMMA DeleteStepApart ==
  ASSUME TableOK, TasksOK, CallsApart, NEW d \in deletes,
         DeleteWrite(d) \/ DeleteDispatch(d) \/ DeleteDropped(d)
  PROVE  CallsApart'
<1>1. UNCHANGED sweep
  BY DeleteMoves
<1>2. CASE deletes' = deletes \ {d} /\ UNCHANGED table
  BY <1>1, <1>2, StayApart DEF table
<1>3. ASSUME WriteState(d.cluster.id, "Deleting"), NEW e,
             deletes' = (deletes \ {d}) \cup {e}, e.cluster = d.cluster, e.by = d.by
      PROVE  CallsApart'
  <2>1. due' \subseteq due
    BY <1>3, DueShrinks DEF ClusterStates
  <2>. QED  BY <1>1, <1>3, <2>1 DEF CallsApart, QuietReaper, Mine
<1>. QED  BY <1>2, <1>3, DeleteMoves

LEMMA StepApart ==
  ASSUME OneDeleter, TypeOK, Ownership, CallsApart, [Next]_vars
  PROVE  CallsApart'
<1>0. TableOK /\ TasksOK /\ ProcessOK
  BY DEF TypeOK
<1>1. CASE UNCHANGED vars
  BY <1>1, StayApart DEF vars, table, tasks
<1>2. ASSUME NEW c \in Clusters, NEW o \in Owners, Create(c, o) PROVE CallsApart'
  BY <1>2, StayApart DEF Create
<1>3. ASSUME NEW x \in launching, LaunchSpawn(x) \/ CreateDropped(x) PROVE CallsApart'
  BY <1>3, StayApart DEF LaunchSpawn, CreateDropped, table
<1>4. ASSUME NEW s \in spawns, SpawnStep(s) PROVE CallsApart'
  BY <1>4, StayApart
     DEF SpawnStep, SpawnSetWorker, SpawnPrepare, SpawnCreate, SpawnStart, SpawnHealthy, SpawnFails,
         SpawnCancelled, SpawnRecheck, SpawnWrite, SpawnFinish, WriteState, table
<1>5. ASSUME NEW t \in teardowns, TeardownStep(t) PROVE CallsApart'
  BY <1>5, StayApart DEF TeardownStep, TeardownBackend, TeardownWipe, TeardownDelete, table
<1>6. ASSUME NEW r \in Requests, NEW c \in Clusters, DeleteRead(r, c) PROVE CallsApart'
  <2>1. ~TtlsExpire /\ Requests = {r} /\ r # "reaper"
    BY ServiceAssumption DEF OneDeleter, System
  <2>2. sweep = {} /\ deletes = {}
    <3>1. Mine(r) = {} /\ Mine("reaper") = {} /\ sweep = {}
      BY <1>6, <2>1 DEF DeleteRead, CallsApart, QuietReaper
    <3>2. \A d \in deletes : d.by = r \/ d.by = "reaper"
      BY <1>0, <2>1, DeleteCallOK DEF TasksOK
    <3>. QED  BY <3>1, <3>2 DEF Mine
  <2>3. Call(r, c).by = r
    BY DEF Call
  <2>4. deletes' = deletes \cup {Call(r, c)} /\ sweep' = sweep /\ due' = due
    BY <1>6 DEF DeleteRead, table
  <2>. QED  BY <2>1, <2>2, <2>3, <2>4, OneMoreApart
<1>7. ASSUME NEW d \in deletes, DeleteWrite(d) \/ DeleteDispatch(d) \/ DeleteDropped(d)
      PROVE  CallsApart'
  BY <1>0, <1>7, DeleteStepApart
<1>8. CASE \/ \E c \in Clusters : BecomesDue(c) \/ ContainerExits(c)
           \/ \E q \in late : LateStep(q)
  BY <1>8, StayApart DEF BecomesDue, ContainerExits, LateStep, table, tasks
<1>9. CASE ReaperStep
  BY <1>0, <1>9, ReaperStepApart
<1>10. CASE Crash
  BY <1>10, StayApart DEF Crash, table
<1>11. CASE Start
  BY <1>11, StayApart DEF Start, table, tasks
<1>12. CASE ReconcileStep
  <2>1. UNCHANGED <<deletes, sweep>>
    BY <1>0, <1>12, ReconcileMoves
  <2>2. due' \subseteq due
    <3>1. ASSUME NEW c, NEW st \in {"Failed", "Deleting"}, WriteState(c, st)
          PROVE  due' \subseteq due
      BY <1>0, <3>1, DueShrinks DEF ClusterStates
    <3>. QED  BY <1>0, <1>12, <3>1, ReconcileMoves DEF ReconcileMove, table
  <2>. QED  BY <2>1, <2>2, StayApart
<1>. QED
  BY <1>1, <1>2, <1>3, <1>4, <1>5, <1>6, <1>7, <1>8, <1>9, <1>10, <1>11, <1>12
     DEF Next, Background

(* With one party deleting at a time no calls ever meet, so the two        *)
(* theorems above need no assumption on the calls, whatever fails and      *)
(* however often the process restarts; a wipe that was cut off remains the *)
(* one thing that may still take a Ready cluster's files.                  *)
THEOREM OneDeleterIsSafe ==
  ASSUME OneDeleter PROVE Spec => [](AtMostOneTeardown /\ ReadyIntact)
<1>1. TypeOK /\ Ownership /\ CallsApart /\ [Next]_vars => CallsApart'
  BY StepApart
<1>2. CallsApart => OneStarter
  BY DEF CallsApart, OneStarter
<1>3. Spec => []OneStarter
  BY <1>1, <1>2, InitCallsApart, TypeCorrect, OwnershipHolds, PTL DEF Spec
<1>. QED  BY <1>3, OneTeardownAtATime, ReadyStaysIntact, PTL
-----------------------------------------------------------------------------
TableWorks == "db" \notin Faults

(* While reconciliation runs, every row that is Spawning or Deleting is    *)
(* still on its list or being torn down.                                   *)
Settling ==
  proc = "reconciling" =>
    \A c \in Live : \/ rows[c].state \in {"Ready", "Failed"}
                    \/ rows[c] \in restart
                    \/ \E t \in teardowns : t.cluster.id = c

LEMMA InitSettling == Init => Settling
BY DEF Init, Settling

LEMMA StepSettling ==
  ASSUME TableWorks, TypeOK, Ownership, Settling, [Next]_vars
  PROVE  Settling'
<1>0. /\ TableOK /\ TasksOK /\ ProcessOK /\ ~Fault("db")
      /\ \A c \in Live : c \in Clusters /\ rows[c].id = c /\ rows[c].state \in ClusterStates
  BY DEF TypeOK, TableOK, RowsOK, Cluster, TableWorks, Fault
<1>1. ASSUME UNCHANGED <<rows, teardowns>>, restart' = restart,
             proc' = proc \/ proc' # "reconciling"
      PROVE  Settling'
  BY <1>1 DEF Settling, Live
<1>2. CASE UNCHANGED vars
  BY <1>1, <1>2 DEF vars, table, tasks, process
<1>3. CASE proc = "serving" /\ proc' = proc
  BY <1>3 DEF Settling
<1>4. ASSUME NEW t \in teardowns, TeardownStep(t) PROVE Settling'
  <2>1. \/ /\ teardowns' = teardowns \ {t} /\ DeleteRow(t.cluster.id) /\ UNCHANGED process
        \/ /\ \E y : teardowns' = (teardowns \ {t}) \cup {y} /\ y.cluster = t.cluster
           /\ UNCHANGED rows /\ UNCHANGED process
    BY <1>0, <1>4, TeardownMoves DEF table
  <2>2. CASE teardowns' = teardowns \ {t} /\ DeleteRow(t.cluster.id) /\ UNCHANGED process
    <3>1. Live' = Live \ {t.cluster.id} /\ \A x \in Live' : rows'[x] = rows[x]
      BY <1>0, <2>2, DeleteRowOK DEF TableOK
    <3>. QED  BY <2>2, <3>1 DEF Settling, process
  <2>3. ASSUME NEW y, teardowns' = (teardowns \ {t}) \cup {y}, y.cluster = t.cluster,
               UNCHANGED rows, UNCHANGED process
        PROVE  Settling'
    BY <2>3 DEF Settling, process, Live
  <2>. QED  BY <2>1, <2>2, <2>3
<1>5. CASE \/ \E c \in Clusters : BecomesDue(c) \/ ContainerExits(c)
           \/ \E q \in late : LateStep(q)
  BY <1>1, <1>5 DEF BecomesDue, ContainerExits, LateStep, table, tasks, process
<1>6. CASE Crash
  BY <1>6 DEF Crash, Settling
<1>7. CASE Start
  BY <1>0, <1>7 DEF Start, ListAll, Settling, table, Live
<1>8. CASE ReconcileStep
  <2>1. CASE proc' = "serving"
    BY <2>1 DEF Settling
  <2>2. ASSUME NEW x \in restart, x.id \in Live, rows[x.id] = x, proc = "reconciling",
               teardowns = {}, restart' = restart \ {x},
               Live' = Live, \A c \in Live : c # x.id => rows'[c] = rows[c],
               \/ rows'[x.id].state \in {"Ready", "Failed"} /\ UNCHANGED teardowns
               \/ \E t : teardowns' = {t} /\ t.cluster.id = x.id
        PROVE  Settling'
    BY <1>0, <2>2 DEF Settling
  <2>3. proc = "reconciling" /\ teardowns = {}
    BY <1>0, <1>8, ReconcileMoves
  <2>4. CASE proc' # "serving"
    <3>0. PICK x \in restart :
                   /\ x \in Cluster /\ x.id \in Live /\ rows[x.id] = x
                   /\ restart' = restart \ {x} /\ proc' = proc
                   /\ ReconcileMove(x)
      BY <1>0, <1>8, <2>4, ReconcileMoves
    <3>1. \/ /\ UNCHANGED table
             /\ \/ rows[x.id].state \in {"Ready", "Failed"} /\ UNCHANGED teardowns
                \/ \E t : teardowns' = {t} /\ Begun(t, x)
          \/ WriteState(x.id, "Failed") /\ UNCHANGED teardowns
          \/ WriteState(x.id, "Deleting") /\ \E t : teardowns' = {t} /\ Begun(t, x)
      BY <1>0, <3>0 DEF ReconcileMove
    <3>2. Live' = Live /\ \A c \in Live : c # x.id => rows'[c] = rows[c]
      BY <1>0, <3>1, WriteKeepsPlace DEF table, Live, ClusterStates
    <3>3. \/ rows'[x.id].state \in {"Ready", "Failed"} /\ UNCHANGED teardowns
          \/ \E t : teardowns' = {t} /\ t.cluster.id = x.id
      BY <1>0, <3>1, WriteKeepsPlace DEF table, ClusterStates, Begun, SameCopy
    <3>. QED  BY <2>2, <2>3, <3>0, <3>2, <3>3
  <2>. QED  BY <2>1, <2>4
<1>9. ASSUME launching # {} \/ spawns # {} \/ deletes # {} \/ sweep # {}
      PROVE  proc = "serving"
  BY <1>9, Serving
<1>10. ASSUME NEW c \in Clusters, NEW o \in Owners, Create(c, o) PROVE Settling'
  BY <1>3, <1>10 DEF Create, process
<1>11. ASSUME NEW x \in launching, LaunchSpawn(x) \/ CreateDropped(x) PROVE Settling'
  BY <1>3, <1>9, <1>11 DEF LaunchSpawn, CreateDropped, process
<1>12. ASSUME NEW s \in spawns, SpawnStep(s) PROVE Settling'
  BY <1>0, <1>3, <1>9, <1>12, SpawnMoves DEF process
<1>13. ASSUME NEW r \in Requests, NEW c \in Clusters, DeleteRead(r, c) PROVE Settling'
  BY <1>3, <1>13 DEF DeleteRead, process
<1>14. ASSUME NEW d \in deletes, DeleteWrite(d) \/ DeleteDispatch(d) \/ DeleteDropped(d)
       PROVE  Settling'
  BY <1>0, <1>3, <1>9, <1>14, DeleteMoves DEF process
<1>15. CASE ReaperStep
  <2>1. proc = "serving"
    BY <1>9, <1>15 DEF ReaperStep, ReaperList, ReaperRead, ReaperDispatch, Mine
  <2>. QED  BY <1>0, <1>3, <1>15, <2>1, ReaperMoves DEF process
<1>. QED
  BY <1>2, <1>4, <1>5, <1>6, <1>7, <1>8, <1>10, <1>11, <1>12, <1>13, <1>14, <1>15
     DEF Next, Background

(* The process begins to serve in one step only, which is taken when       *)
(* reconciliation has nothing left to do.                                  *)
LEMMA ServesWhenSettled ==
  ASSUME TypeOK, Ownership, Settling, [Next]_vars, proc = "reconciling", proc' = "serving"
  PROVE  \A c \in Live : rows[c].state \in {"Ready", "Failed"}
<1>0. TableOK /\ TasksOK /\ ProcessOK
  BY DEF TypeOK
<1>1. proc' # proc
  OBVIOUS
<1>2. launching = {} /\ spawns = {} /\ deletes = {} /\ sweep = {}
  BY DEF Ownership, ReconcilesAlone
<1>3. CASE StartServing
  BY <1>3 DEF StartServing, Settling
<1>4. CASE \E x \in restart : \/ ReconcileSpawning(x) \/ ReconcileReady(x)
                              \/ ReconcileDeleting(x) \/ ReconcileFailed(x)
  BY <1>4 DEF ReconcileSpawning, ReconcileReady, ReconcileDeleting, ReconcileFailed
<1>5. CASE \E t \in teardowns : TeardownStep(t)
  BY <1>0, <1>5, TeardownMoves DEF process
<1>6. CASE \/ UNCHANGED vars \/ ReaperStep
           \/ \E c \in Clusters : BecomesDue(c) \/ ContainerExits(c)
           \/ \E q \in late : LateStep(q)
           \/ \E c \in Clusters, o \in Owners : Create(c, o)
           \/ \E r \in Requests, c \in Clusters : DeleteRead(r, c)
  BY <1>6 DEF vars, process, BecomesDue, ContainerExits, LateStep, Create, DeleteRead, ReaperStep,
              ReaperList, ReaperRead, ReaperDispatch
<1>7. CASE Crash \/ Start
  BY <1>7 DEF Crash, Start
<1>. QED  BY <1>2, <1>3, <1>4, <1>5, <1>6, <1>7 DEF Next, Background, ReconcileStep

(* If the table answers, a restarted process serves only when every row    *)
(* its predecessor left Spawning or Deleting is gone, however often it was *)
(* itself stopped in the middle and whatever Docker or the wipe failed at. *)
THEOREM ReconciliationSettles ==
  ASSUME TableWorks PROVE Spec => ReconcileSettles
<1>1. TypeOK /\ Ownership /\ Settling /\ [Next]_vars => Settling'
  BY StepSettling
<1>2. TypeOK /\ Ownership /\ Settling /\ [Next]_vars
        => [proc = "reconciling" /\ proc' = "serving" =>
              \A c \in Live : rows[c].state \in {"Ready", "Failed"}]_proc
  BY ServesWhenSettled
<1>. QED  BY <1>1, <1>2, InitSettling, TypeCorrect, OwnershipHolds, PTL DEF Spec, ReconcileSettles
-----------------------------------------------------------------------------
NoUserDeletes == Requests = {}

(* An owned cluster is Spawning, and the reaper is not about to touch it.  *)
Undisturbed ==
  /\ sweep \subseteq used
  /\ \A c \in Clusters : Owned(c) =>
       /\ rows[c].state = "Spawning"
       /\ c \notin sweep
       /\ \A d \in deletes : d.cluster.id # c

LEMMA InitUndisturbed == Init => Undisturbed
BY DEF Init, Undisturbed, Owned

(* Nothing that concerns an owned cluster happens.                         *)
LEMMA StaysUndisturbed ==
  ASSUME Undisturbed, used \subseteq used', sweep' \subseteq sweep,
         \A c \in Clusters : Owned(c)' => Owned(c) /\ rows'[c].state = rows[c].state,
         \A d \in deletes' : d.cluster.id \in sweep \/ \E e \in deletes : d.cluster.id = e.cluster.id
  PROVE  Undisturbed'
BY DEF Undisturbed

LEMMA SpawnStepUndisturbed ==
  ASSUME TableOK, TasksOK, Ownership, Undisturbed, NEW s \in spawns, SpawnStep(s)
  PROVE  Undisturbed'
<1>. DEFINE c == s.cluster.id
<1>0. s \in SpawnTask
  BY DEF TasksOK
<1>1. UNCHANGED <<used, launching, deletes, sweep>>
  BY DEF SpawnStep, SpawnSetWorker, SpawnPrepare, SpawnCreate, SpawnStart, SpawnHealthy, SpawnFails,
         SpawnCancelled, SpawnRecheck, SpawnWrite, SpawnFinish
<1>2. CASE SpawnFinish(s)
  <2>1. \A x : Owned(x)' => Owned(x)
    BY <1>1, <1>2 DEF Owned, SpawnFinish, Remove
  <2>. QED  BY <1>1, <1>2, <2>1, StaysUndisturbed DEF SpawnFinish, table
<1>3. CASE SpawnWrite(s)
  <2>. DEFINE y == [s EXCEPT !.pc = "finish"]
  <2>1. s.pc = "write" /\ spawns' = (spawns \ {s}) \cup {y} /\ y.pc = "finish" /\ y.cluster.id = c
    BY <1>0, <1>3 DEF SpawnWrite, Advance, Replace, SpawnTask
  <2>. HIDE DEF y
  <2>2. Owned(c)
    BY <2>1 DEF Owned, UnwrittenPcs
  <2>3. \A x : Owned(x)' => Owned(x) /\ x # c
    BY <1>1, <2>1 DEF Ownership, OneOwner, Owned, UnwrittenPcs, DoSpawn
  <2>4. \A x \in Live : x # c => rows'[x] = rows[x]
    BY <1>3 DEF SpawnWrite, WriteState, UpdateState, table, Live
  <2>5. \A x \in Clusters : Owned(x) => x \in Live
    BY DEF Ownership, OwnerIsAlone
  <2>. QED  BY <1>1, <2>3, <2>4, <2>5, StaysUndisturbed
<1>4. ASSUME NEW y, spawns' = Replace(spawns, s, y), y.cluster.id = c,
             y.pc \in UnwrittenPcs => s.pc \in UnwrittenPcs, UNCHANGED launching
      PROVE  \A x : Owned(x)' => Owned(x)
  BY <1>4 DEF Owned, Replace
<1>5. CASE SpawnSetWorker(s)
  <2>. DEFINE x == [s.cluster EXCEPT !.worker = TRUE]
              w == [s EXCEPT !.cluster = x]
              prepared == [w EXCEPT !.pc = "prepare"]
              failing == [w EXCEPT !.ok = FALSE, !.pc = "recheck"]
  <2>1. WithWorker(s) = w /\ x.id = c
    BY <1>0 DEF WithWorker, SpawnTask, Cluster
  <2>2. spawns' = Replace(spawns, s, prepared) \/ spawns' = Replace(spawns, s, failing)
    BY <1>5, <2>1 DEF SpawnSetWorker, Failing
  <2>. HIDE DEF x
  <2>3. prepared.cluster.id = c /\ failing.cluster.id = c /\ s.pc \in UnwrittenPcs
    BY <1>0, <1>5, <2>1 DEF SpawnTask, SpawnSetWorker, Running, UnwrittenPcs, DoSpawn
  <2>. HIDE DEF prepared, failing
  <2>4. \A z : Owned(z)' => Owned(z)
    BY <1>1, <1>4, <2>2, <2>3
  <2>5. \A z \in Live : rows'[z].state = rows[z].state
    <3>1. CASE SetWorker(c)
      <4>1. /\ RowsOK /\ c \in Live
            /\ rows'[c] = [rows[c] EXCEPT !.worker = TRUE]
            /\ \A z \in Live \ {c} : rows'[z] = rows[z]
        BY <3>1, SetWorkerOK DEF TableOK
      <4>2. rows'[c].state = rows[c].state
        BY <4>1 DEF RowsOK, Cluster
      <4>. QED  BY <4>1, <4>2
    <3>. QED  BY <1>5, <3>1 DEF SpawnSetWorker
  <2>6. \A z \in Clusters : Owned(z) => z \in Live
    BY DEF Ownership, OwnerIsAlone
  <2>. QED  BY <1>1, <2>4, <2>5, <2>6, StaysUndisturbed
<1>6. CASE \/ SpawnPrepare(s) \/ SpawnCreate(s) \/ SpawnStart(s) \/ SpawnHealthy(s)
           \/ SpawnFails(s) \/ SpawnCancelled(s) \/ SpawnRecheck(s)
  <2>. DEFINE at(p) == [s EXCEPT !.pc = p]
              failing == [s EXCEPT !.ok = FALSE, !.pc = "recheck"]
              seen(st) == [s EXCEPT !.pc = "write", !.seen = st]
  <2>1. s.pc \in UnwrittenPcs /\ UNCHANGED rows
    BY <1>6 DEF SpawnPrepare, SpawnCreate, SpawnStart, SpawnHealthy, SpawnFails, SpawnCancelled,
                SpawnRecheck, Running, UnwrittenPcs, DoSpawn, table
  <2>2. \/ \E p : spawns' = Replace(spawns, s, at(p))
        \/ spawns' = Replace(spawns, s, failing)
        \/ \E st : spawns' = Replace(spawns, s, seen(st))
    BY <1>6 DEF SpawnPrepare, SpawnCreate, SpawnStart, SpawnHealthy, SpawnFails, SpawnCancelled,
                SpawnRecheck, TeardownInline, Advance, Failing
  <2>3. /\ failing.cluster.id = c
        /\ \A p : at(p).cluster.id = c
        /\ \A st : seen(st).cluster.id = c
    BY <1>0 DEF SpawnTask
  <2>. HIDE DEF at, failing, seen
  <2>4. \A x : Owned(x)' => Owned(x)
    BY <1>1, <1>4, <2>1, <2>2, <2>3
  <2>. QED  BY <1>1, <2>1, <2>4, StaysUndisturbed
<1>. QED  BY <1>2, <1>3, <1>5, <1>6 DEF SpawnStep

LEMMA StepUndisturbed ==
  ASSUME NoUserDeletes, TypeOK, Ownership, Undisturbed, [Next]_vars
  PROVE  Undisturbed'
<1>0. TableOK /\ TasksOK /\ ProcessOK
  BY DEF TypeOK
<1>1. ASSUME UNCHANGED <<rows, used, launching, spawns>>, sweep' \subseteq sweep,
             deletes' \subseteq deletes
      PROVE  Undisturbed'
  <2>1. \A x : Owned(x)' <=> Owned(x)
    BY <1>1 DEF Owned
  <2>. QED  BY <1>1, <2>1, StaysUndisturbed
<1>2. CASE UNCHANGED vars
  BY <1>1, <1>2 DEF vars, table, tasks
<1>3. ASSUME NEW c \in Clusters, NEW o \in Owners, Create(c, o) PROVE Undisturbed'
  <2>. DEFINE n == NewCluster(c, o)
  <2>1. /\ c \notin used /\ c \notin Live /\ n.id = c
        /\ launching' = launching \cup {n} /\ used' = used \cup {c}
        /\ rows'[c].state = "Spawning" /\ \A x \in Live : rows'[x] = rows[x]
        /\ UNCHANGED <<spawns, deletes, sweep>>
    BY <1>0, <1>3 DEF Create, TryInsert, NewCluster, TableOK, Live
  <2>. HIDE DEF n
  <2>2. \A x : x # c => (Owned(x)' <=> Owned(x))
    BY <2>1 DEF Owned
  <2>3. \A x \in Clusters : Owned(x) => x \in Live
    BY DEF Ownership, OwnerIsAlone
  <2>. QED  BY <2>1, <2>2, <2>3 DEF Undisturbed, Ownership, IdsInUse
<1>4. ASSUME NEW x \in launching, LaunchSpawn(x) \/ CreateDropped(x) PROVE Undisturbed'
  <2>1. /\ launching' = launching \ {x}
        /\ spawns' = spawns \/ spawns' = spawns \cup {NewSpawn(x)}
        /\ UNCHANGED <<rows, used, deletes, sweep>>
    BY <1>4 DEF LaunchSpawn, CreateDropped, Remove, table
  <2>2. \A c : Owned(c)' => Owned(c)
    BY <2>1 DEF Owned, NewSpawn
  <2>. QED  BY <2>1, <2>2, StaysUndisturbed
<1>5. ASSUME NEW s \in spawns, SpawnStep(s) PROVE Undisturbed'
  BY <1>0, <1>5, SpawnStepUndisturbed
<1>6. ASSUME NEW t \in teardowns, TeardownStep(t) PROVE Undisturbed'
  <2>1. CASE DeleteRow(t.cluster.id)
    <3>1. /\ UNCHANGED <<used, launching, spawns, deletes, sweep>>
          /\ \A x \in Live : x # t.cluster.id => rows'[x] = rows[x]
      BY <1>6, <2>1 DEF TeardownStep, TeardownBackend, TeardownWipe, TeardownDelete, DeleteRow,
                        Live
    <3>2. \A x : Owned(x)' <=> Owned(x)
      BY <3>1 DEF Owned
    <3>3. \A x \in Clusters : Owned(x) => x \in Live /\ x # t.cluster.id
      BY DEF Ownership, OwnerIsAlone
    <3>. QED  BY <3>1, <3>2, <3>3, StaysUndisturbed
  <2>2. CASE UNCHANGED rows
    BY <1>1, <1>6, <2>2 DEF TeardownStep, TeardownBackend, TeardownWipe, TeardownDelete
  <2>. QED  BY <1>6, <2>1, <2>2 DEF TeardownStep, TeardownBackend, TeardownWipe, TeardownDelete, table
<1>7. ASSUME NEW d \in deletes, DeleteWrite(d) PROVE Undisturbed'
  <2>. DEFINE c == d.cluster.id
              e == [d EXCEPT !.pc = "dispatch"]
  <2>1. UNCHANGED <<used, launching, spawns, sweep>> /\ e.cluster.id = c
    BY <1>0, <1>7 DEF DeleteWrite, TasksOK, DeleteCall
  <2>2. CASE deletes' = Remove(deletes, d) /\ UNCHANGED table
    BY <1>1, <2>1, <2>2 DEF Remove, table
  <2>3. CASE deletes' = Advance(deletes, d, "dispatch") /\ WriteState(c, "Deleting")
    <3>1. \A x \in Live : x # c => rows'[x] = rows[x]
      BY <2>3 DEF WriteState, UpdateState, Live
    <3>2. \A x : Owned(x)' <=> Owned(x)
      BY <2>1 DEF Owned
    <3>3. \A x \in Clusters : Owned(x) => x \in Live /\ x # c
      BY DEF Ownership, OwnerIsAlone, Undisturbed
    <3>4. deletes' = (deletes \ {d}) \cup {e}
      BY <2>3 DEF Advance, Replace
    <3>. HIDE DEF e
    <3>. QED  BY <2>1, <3>1, <3>2, <3>3, <3>4, StaysUndisturbed
  <2>. QED  BY <1>7, <2>2, <2>3 DEF DeleteWrite, Transition
<1>8. ASSUME NEW d \in deletes, DeleteDispatch(d) \/ DeleteDropped(d) PROVE Undisturbed'
  BY <1>8 DEF NoUserDeletes, DeleteDispatch, DeleteDropped
<1>9. CASE \/ \E c \in Clusters : BecomesDue(c) \/ ContainerExits(c)
           \/ \E q \in late : LateStep(q)
  BY <1>1, <1>9 DEF BecomesDue, ContainerExits, LateStep, table, tasks
<1>10. CASE ReaperList
  <2>1. \A x : Owned(x)' <=> Owned(x)
    BY <1>10 DEF ReaperList, Owned
  <2>. QED  BY <1>0, <1>10, <2>1 DEF ReaperList, Undisturbed, table, TableOK
<1>11. ASSUME NEW c \in sweep, ReaperRead(c) PROVE Undisturbed'
  <2>1. UNCHANGED <<rows, used, launching, spawns>> /\ sweep' \subseteq sweep
    BY <1>11 DEF ReaperRead, Remove, table
  <2>2. CASE c \in Live /\ deletes' = deletes \cup {Call("reaper", c)}
    <3>1. Call("reaper", c).cluster.id = c
      BY <1>0, <2>2, RowIds DEF Call
    <3>2. \A x : Owned(x)' <=> Owned(x)
      BY <2>1 DEF Owned
    <3>. QED  BY <2>1, <2>2, <3>1, <3>2, StaysUndisturbed
  <2>. QED  BY <1>1, <1>11, <2>1, <2>2 DEF ReaperRead
<1>12. CASE ReaperDispatch
  BY <1>1, <1>12 DEF ReaperDispatch, table
<1>13. CASE Crash
  <2>1. \A x : ~Owned(x)'
    BY <1>13 DEF Crash, Owned
  <2>. QED  BY <1>13, <2>1 DEF Crash, Undisturbed
<1>14. CASE Start
  BY <1>1, <1>14 DEF Start, table, tasks
<1>15. CASE ReconcileStep
  <2>1. CASE StartServing
    BY <1>1, <2>1 DEF StartServing, table, tasks
  <2>2. ASSUME NEW x \in restart,
               \/ ReconcileSpawning(x) \/ ReconcileReady(x)
               \/ ReconcileDeleting(x) \/ ReconcileFailed(x)
        PROVE  Undisturbed'
    <3>1. launching = {} /\ spawns = {} /\ UNCHANGED <<used, launching, spawns, sweep>>
      BY <1>0, <2>2 DEF ProcessOK, Ownership, ReconcilesAlone, ReconcileSpawning,
                        ReconcileReady, ReconcileDeleting, ReconcileFailed, tasks
    <3>2. \A y : ~Owned(y)'
      BY <3>1 DEF Owned
    <3>. QED  BY <3>1, <3>2 DEF Undisturbed
  <2>. QED  BY <1>15, <2>1, <2>2 DEF ReconcileStep
<1>. QED
  BY <1>2, <1>3, <1>4, <1>5, <1>6, <1>7, <1>8, <1>9, <1>10, <1>11, <1>12, <1>13, <1>14, <1>15
     DEF Next, Background, ReaperStep, NoUserDeletes
-----------------------------------------------------------------------------
(* The refinement mapping: where each cluster is, and what it holds.       *)
phaseOf == [c \in Clusters |-> PhaseOf(c)]
placeOf == [c \in Live |-> <<rows[c].owner, rows[c].slot>>]

LifecycleStep == [Lifecycle!Next]_<<phaseOf, placeOf>>

LEMMA InitRefines == Init => Lifecycle!Init
BY DEF Init, Lifecycle!Init, PhaseOf, Live

(* A step that keeps every row's state and place is none of the lifecycle. *)
LEMMA StutterRefines ==
  ASSUME SameStates, UNCHANGED used,
         \A c \in Live : rows'[c].owner = rows[c].owner /\ rows'[c].slot = rows[c].slot
  PROVE  UNCHANGED <<phaseOf, placeOf>>
BY DEF SameStates, phaseOf, placeOf, PhaseOf

LEMMA InsertRefines ==
  ASSUME TableOK, NEW c \in Clusters, NEW o \in Owners, c \notin used,
         TryInsert(c, o), used' = used \cup {c}
  PROVE  Lifecycle!Next
<1>1. /\ RowsOK /\ c \notin Live /\ Live' = Live \cup {c}
      /\ rows'[c] = NewCluster(c, o) /\ \A x \in Live : rows'[x] = rows[x]
  BY TryInsertOK DEF TableOK
<1>2. LowestFreeSlot(o) \in Slots /\ \A x \in RowsOf(o) : rows[x].slot # LowestFreeSlot(o)
  BY LowestFreeSlotIsFree DEF TryInsert, FreeSlots, UsedSlots
<1>3. PICK p \in Owners \X Slots : p = <<o, LowestFreeSlot(o)>>
  BY <1>2
<1>4. \A x \in Live : <<rows[x].owner, rows[x].slot>> # p
  BY <1>2, <1>3 DEF RowsOf
<1>5. p \notin Lifecycle!Held
  BY <1>4 DEF Lifecycle!Held
<1>6. phaseOf[c] = "unborn" /\ phaseOf' = [phaseOf EXCEPT ![c] = "Spawning"]
  <2>1. \A x \in Clusters : x # c => PhaseOf(x)' = PhaseOf(x)
    BY <1>1 DEF PhaseOf
  <2>2. PhaseOf(c) = "unborn" /\ PhaseOf(c)' = "Spawning"
    BY <1>1 DEF PhaseOf, NewCluster
  <2>. QED  BY <2>1, <2>2 DEF phaseOf
<1>7. placeOf' = [x \in DOMAIN placeOf \cup {c} |-> IF x = c THEN p ELSE placeOf[x]]
  BY <1>1, <1>3 DEF placeOf, NewCluster
<1>8. Lifecycle!Create(c, p)
  BY <1>5, <1>6, <1>7 DEF Lifecycle!Create, Lifecycle!Become, phaseOf, placeOf
<1>. QED  BY <1>8 DEF Lifecycle!Next

LEMMA WriteRefines ==
  ASSUME TableOK, NEW c, NEW s \in ClusterStates, UpdateState(c, s), UNCHANGED used,
         s = rows[c].state \/ <<rows[c].state, s>> \in StateSteps
  PROVE  LifecycleStep
<1>1. /\ RowsOK /\ Live' = Live /\ c \in Live /\ c \in Clusters
      /\ rows'[c] = [rows[c] EXCEPT !.state = s]
      /\ \A x \in Live \ {c} : rows'[x] = rows[x]
  BY UpdateStateOK DEF TableOK, RowsOK
<1>2. /\ rows'[c].state = s
      /\ rows'[c].owner = rows[c].owner /\ rows'[c].slot = rows[c].slot
  BY <1>1 DEF RowsOK, Cluster
<1>3. CASE s = rows[c].state
  <2>1. UNCHANGED <<phaseOf, placeOf>>
    BY <1>1, <1>2, <1>3, StutterRefines DEF SameStates
  <2>. QED  BY <2>1 DEF LifecycleStep
<1>4. CASE <<rows[c].state, s>> \in StateSteps
  <2>1. phaseOf[c] = rows[c].state /\ phaseOf' = [phaseOf EXCEPT ![c] = s]
    BY <1>1, <1>2 DEF phaseOf, PhaseOf
  <2>2. placeOf' = placeOf
    BY <1>1, <1>2 DEF placeOf
  <2>3. \/ phaseOf[c] = "Spawning" /\ s = "Ready"
        \/ phaseOf[c] \in {"Spawning", "Ready"} /\ s = "Failed"
        \/ phaseOf[c] \in {"Spawning", "Ready", "Failed"} /\ s = "Deleting"
    BY <1>4, <2>1 DEF StateSteps
  <2>4. Lifecycle!Spawned(c) \/ Lifecycle!Fail(c) \/ Lifecycle!Delete(c)
    BY <2>1, <2>2, <2>3
       DEF Lifecycle!Spawned, Lifecycle!Fail, Lifecycle!Delete, Lifecycle!Become, phaseOf, placeOf
  <2>. QED  BY <1>1, <2>4 DEF Lifecycle!Next, LifecycleStep
<1>. QED  BY <1>3, <1>4

LEMMA DeleteRefines ==
  ASSUME TableOK, NEW c, DeleteRow(c), UNCHANGED used,
         c \in Live => rows[c].state = "Deleting"
  PROVE  LifecycleStep
<1>1. /\ Live \subseteq Clusters /\ Live \subseteq used
      /\ Live' = Live \ {c} /\ \A x \in Live' : rows'[x] = rows[x]
  BY DeleteRowOK DEF TableOK, RowsOK
<1>2. CASE c \notin Live
  BY <1>1, <1>2, StutterRefines DEF SameStates, LifecycleStep
<1>3. CASE c \in Live
  <2>1. phaseOf[c] = "Deleting" /\ phaseOf' = [phaseOf EXCEPT ![c] = "gone"]
    BY <1>1, <1>3 DEF phaseOf, PhaseOf
  <2>2. placeOf' = [x \in DOMAIN placeOf \ {c} |-> placeOf[x]]
    BY <1>1 DEF placeOf
  <2>3. Lifecycle!Forget(c)
    BY <2>1, <2>2 DEF Lifecycle!Forget, Lifecycle!Become, phaseOf, placeOf
  <2>. QED  BY <1>1, <1>3, <2>3 DEF Lifecycle!Next, LifecycleStep
<1>. QED  BY <1>2, <1>3

(* What spawn_task's recheck would promise if nothing came between it and  *)
(* the write of the outcome: a task that is about to write finds the row   *)
(* Spawning (finding 1 is what happens if not).                            *)
LooksAreCurrent ==
  \A s \in spawns :
    s.pc = "write" /\ s.cluster.id \in Live => rows[s.cluster.id].state = "Spawning"

(* Every change of the table is a step of the lifecycle: what has to be    *)
(* shown of a write is that it is legal, and of a removal that the row was *)
(* Deleting, which is what RowStep says when no spawn writes over Deleting.*)
LEMMA StepRefines ==
  ASSUME TypeOK, Ownership, LooksAreCurrent, [Next]_vars
  PROVE  LifecycleStep
<1>0. TableOK /\ RowsOK /\ TasksOK /\ TableStep
  BY StepIsTableStep DEF TypeOK, TableOK
<1>1. \A c \in Clusters : RowStep(c)
  BY StepIsLegal
<1>2. ASSUME NEW c \in Live, SpawnMayWrite(c) PROVE rows[c].state = "Spawning"
  BY <1>2 DEF SpawnMayWrite, LooksAreCurrent
<1>3. CASE UNCHANGED <<rows, due, used>> \/ UNCHANGED <<rows, used>>
  BY <1>3, StutterRefines DEF SameStates, LifecycleStep, Live
<1>4. ASSUME NEW c \in Clusters \ used, NEW o \in Owners, TryInsert(c, o), used' = used \cup {c}
      PROVE  LifecycleStep
  BY <1>0, <1>4, InsertRefines DEF LifecycleStep
<1>5. ASSUME NEW c, SetWorker(c), UNCHANGED used PROVE LifecycleStep
  <2>1. /\ Live' = Live /\ c \in Live
        /\ rows'[c] = [rows[c] EXCEPT !.worker = TRUE]
        /\ \A x \in Live \ {c} : rows'[x] = rows[x]
    BY <1>0, <1>5, SetWorkerOK
  <2>2. /\ rows'[c].state = rows[c].state
        /\ rows'[c].owner = rows[c].owner /\ rows'[c].slot = rows[c].slot
    BY <1>0, <2>1 DEF RowsOK, Cluster
  <2>. QED  BY <1>5, <2>1, <2>2, StutterRefines DEF SameStates, LifecycleStep
<1>6. ASSUME NEW s \in ClusterStates, NEW c, UpdateState(c, s), UNCHANGED used
      PROVE  LifecycleStep
  <2>1. c \in Live /\ c \in Clusters /\ Live' = Live /\ rows'[c] = [rows[c] EXCEPT !.state = s]
    BY <1>0, <1>6, UpdateStateOK DEF RowsOK
  <2>2. rows'[c].state = s
    BY <1>0, <2>1 DEF RowsOK, Cluster
  <2>3. s = rows[c].state \/ <<rows[c].state, s>> \in StateSteps
    BY <1>1, <1>2, <2>1, <2>2 DEF RowStep
  <2>. QED  BY <1>0, <1>6, <2>3, WriteRefines
<1>7. ASSUME NEW c, DeleteRow(c), UNCHANGED used PROVE LifecycleStep
  <2>1. Live' = Live \ {c}
    BY <1>0, <1>7, DeleteRowOK
  <2>2. c \in Live => rows[c].state = "Deleting"
    BY <1>0, <1>1, <2>1 DEF RowStep, RowsOK
  <2>. QED  BY <1>0, <1>7, <2>2, DeleteRefines
<1>. QED  BY <1>0, <1>3, <1>4, <1>5, <1>6, <1>7 DEF TableStep, WriteState

(* If no spawn wrote on a look that has become stale, the service would    *)
(* implement the lifecycle, and a row once Deleting would never be Ready   *)
(* or Failed again, whatever clients delete and whatever fails.            *)
THEOREM CurrentLooksImplementLifecycle ==
  Spec /\ []LooksAreCurrent => ImplementsLifecycle /\ DeletingIsFinal
<1>1. TypeOK /\ Ownership /\ LooksAreCurrent /\ [Next]_vars
        => [Lifecycle!Next]_<<[c \in Clusters |-> PhaseOf(c)],
                              [c \in Live |-> <<rows[c].owner, rows[c].slot>>]>>
  BY StepRefines DEF LifecycleStep, phaseOf, placeOf
<1>2. TypeOK /\ Ownership /\ LooksAreCurrent /\ [Next]_vars
        => [\A c \in Live \cap Live' :
              rows[c].state = "Deleting" => rows'[c].state = "Deleting"]_rows
  <2>. SUFFICES ASSUME TypeOK, Ownership, LooksAreCurrent, [Next]_vars,
                       NEW c \in Live \cap Live', rows[c].state = "Deleting"
                PROVE  rows'[c].state = "Deleting"
    OBVIOUS
  <2>1. c \in Clusters /\ RowStep(c)
    BY StepIsLegal DEF TypeOK, TableOK, RowsOK
  <2>2. ~SpawnMayWrite(c)
    BY DEF SpawnMayWrite, LooksAreCurrent
  <2>. QED  BY <2>1, <2>2 DEF RowStep, StateSteps
<1>. QED
  BY <1>1, <1>2, InitRefines, TypeCorrect, OwnershipHolds, PTL
     DEF Spec, ImplementsLifecycle, Lifecycle!Spec, DeletingIsFinal

(* Without user DELETEs the service implements the lifecycle: every        *)
(* cluster goes through its states in order, and holds its slot alone from *)
(* its creation until it is forgotten.                                     *)
THEOREM ServiceImplementsLifecycle ==
  ASSUME NoUserDeletes PROVE Spec => ImplementsLifecycle
<1>1. TypeOK /\ Ownership /\ Undisturbed /\ [Next]_vars => Undisturbed'
  BY StepUndisturbed
<1>2. TypeOK /\ Undisturbed => LooksAreCurrent
  BY DEF TypeOK, TableOK, RowsOK, Undisturbed, Owned, UnwrittenPcs, LooksAreCurrent
<1>. QED
  BY <1>1, <1>2, InitUndisturbed, TypeCorrect, OwnershipHolds,
     CurrentLooksImplementLifecycle, PTL DEF Spec
-----------------------------------------------------------------------------
(* The reaper works on rows that are Ready or Failed, each call on its own.*)
ReaperOnly ==
  /\ \A c \in sweep : c \in Live => rows[c].state \in {"Ready", "Failed"}
  /\ \A d \in deletes :
       /\ d.by = "reaper" /\ d.cluster.state \in {"Ready", "Failed"}
       /\ d.cluster.id \notin sweep

(* Every row that is Deleting is in somebody's hands.                      *)
InHandOf(c) ==
  \/ \E t \in teardowns : t.cluster.id = c
  \/ \E d \in deletes : d.cluster.id = c /\ d.pc = "dispatch" /\ Starts(d)
  \/ rows[c] \in restart

InHand == proc # "down" => \A c \in Live : rows[c].state = "Deleting" => InHandOf(c)

LEMMA InitInHand == Init => ReaperOnly /\ InHand
BY DEF Init, ReaperOnly, InHand

(* Steps by which no row becomes Deleting and no hand lets go.             *)
LEMMA StaysInHand ==
  ASSUME ReaperOnly, InHand,
         \A c \in Live' : \/ rows'[c].state \in {"Ready", "Failed"}
                          \/ c \in Live /\ rows'[c].state = rows[c].state
                          \/ c \notin Live /\ rows'[c].state = "Spawning" /\ c \notin sweep,
         \A c \in Live' : c \in Live /\ rows[c] \in restart => rows'[c] \in restart',
         \A t \in teardowns : t.cluster.id \in Live' => \E u \in teardowns' : u.cluster.id = t.cluster.id,
         deletes' = deletes, sweep' = sweep, proc' = proc \/ proc' = "down" \/ proc = "reconciling"
  PROVE  ReaperOnly' /\ InHand'
<1>1. ReaperOnly'
  BY DEF ReaperOnly
<1>2. ASSUME NEW c \in Live', rows'[c].state = "Deleting", proc' # "down" PROVE InHandOf(c)'
  BY <1>2 DEF InHand, InHandOf, Starts
<1>. QED  BY <1>1, <1>2 DEF InHand

LEMMA StepInHand ==
  ASSUME NoUserDeletes, TableWorks, TypeOK, Ownership, Undisturbed, ReaperOnly, InHand, [Next]_vars
  PROVE  ReaperOnly' /\ InHand'
<1>0. /\ TableOK /\ TasksOK /\ ProcessOK /\ ~Fault("db")
      /\ \A c \in Live : c \in Clusters /\ c \in used /\ rows[c].id = c
  BY DEF TypeOK, TableOK, RowsOK, TableWorks, Fault
<1>1. ASSUME UNCHANGED <<rows, deletes, sweep, teardowns, restart>>,
             proc' = proc \/ proc' = "down" \/ proc = "reconciling"
      PROVE  ReaperOnly' /\ InHand'
  BY <1>1, StaysInHand DEF Live
<1>2. CASE UNCHANGED vars
  BY <1>1, <1>2 DEF vars, table, tasks, process
<1>3. ASSUME NEW c \in Clusters, NEW o \in Owners, Create(c, o) PROVE ReaperOnly' /\ InHand'
  <2>1. /\ Live' = Live \cup {c} /\ rows'[c].state = "Spawning" /\ c \notin Live /\ c \notin sweep
        /\ \A x \in Live : rows'[x] = rows[x]
        /\ UNCHANGED <<deletes, sweep, teardowns, process>>
    BY <1>0, <1>3 DEF Create, TryInsert, NewCluster, Live, Undisturbed
  <2>. QED  BY <2>1, StaysInHand DEF process
<1>4. ASSUME NEW x \in launching, LaunchSpawn(x) \/ CreateDropped(x) PROVE ReaperOnly' /\ InHand'
  BY <1>1, <1>4 DEF LaunchSpawn, CreateDropped, table, process
<1>5. ASSUME NEW s \in spawns, SpawnStep(s) PROVE ReaperOnly' /\ InHand'
  <2>1. restart = {} /\ UNCHANGED <<deletes, sweep, process>> /\ teardowns \subseteq teardowns'
    <3>1. restart = {} /\ UNCHANGED <<deletes, sweep, process>>
      BY <1>0, <1>5, Serving, SpawnMoves
    <3>2. teardowns \subseteq teardowns'
      <4>1. ASSUME NEW y, SpawnMove(s, y) PROVE teardowns \subseteq teardowns'
        BY <4>1 DEF SpawnMove
      <4>. QED  BY <1>0, <1>5, <4>1, SpawnMoves
    <3>. QED  BY <3>1, <3>2
  <2>2. \A x \in Live' : x \in Live /\ (\/ rows'[x].state \in {"Ready", "Failed"}
                                        \/ rows'[x].state = rows[x].state)
    <3>1. CASE UNCHANGED rows
      BY <3>1 DEF Live
    <3>2. CASE SetWorker(s.cluster.id)
      BY <1>0, <3>2, SetWorkerKeepsPlace
    <3>3. ASSUME NEW st \in {"Ready", "Failed"}, WriteState(s.cluster.id, st)
          PROVE  \A x \in Live' : x \in Live /\ (\/ rows'[x].state \in {"Ready", "Failed"}
                                                 \/ rows'[x].state = rows[x].state)
      BY <1>0, <3>3, WriteKeepsPlace DEF ClusterStates
    <3>. QED  BY <1>0, <1>5, <3>1, <3>2, <3>3, SpawnMoves DEF SpawnMove
  <2>. QED  BY <2>1, <2>2, StaysInHand DEF process
<1>6. ASSUME NEW t \in teardowns, TeardownStep(t) PROVE ReaperOnly' /\ InHand'
  <2>0. UNCHANGED <<deletes, sweep, process>>
    BY <1>0, <1>6, TeardownMoves
  <2>1. CASE teardowns' = teardowns \ {t} /\ DeleteRow(t.cluster.id)
    <3>1. Live' = Live \ {t.cluster.id} /\ \A x \in Live' : rows'[x] = rows[x]
      BY <1>0, <2>1, DeleteRowOK DEF TableOK
    <3>. QED  BY <2>0, <2>1, <3>1, StaysInHand DEF process
  <2>2. ASSUME NEW y, teardowns' = (teardowns \ {t}) \cup {y}, y.cluster = t.cluster, UNCHANGED table
        PROVE  ReaperOnly' /\ InHand'
    BY <2>0, <2>2, StaysInHand DEF table, process, Live
  <2>. QED  BY <1>0, <1>6, <2>1, <2>2, TeardownMoves
<1>7. ASSUME NEW d \in deletes, DeleteWrite(d) \/ DeleteDispatch(d) \/ DeleteDropped(d)
      PROVE  ReaperOnly' /\ InHand'
  <2>. DEFINE c == d.cluster.id
  <2>0. restart = {} /\ UNCHANGED <<sweep, teardowns, process>>
    BY <1>0, <1>7, Serving, DeleteMoves DEF NoUserDeletes
  <2>1. Starts(d) /\ c \notin sweep
    BY DEF ReaperOnly, Starts, DeleteOutcome
  <2>2. CASE d.pc = "write" /\ deletes' = deletes \ {d} /\ UNCHANGED table
    <3>1. \A x : InHandOf(x) => InHandOf(x)'
      BY <2>0, <2>2 DEF InHandOf, process, Starts, table
    <3>. QED  BY <2>0, <2>2, <3>1 DEF ReaperOnly, InHand, table, process, Live
  <2>3. ASSUME WriteState(c, "Deleting"), NEW e, deletes' = (deletes \ {d}) \cup {e},
               e.cluster = d.cluster, e.by = d.by, e.pc = "dispatch"
        PROVE  ReaperOnly' /\ InHand'
    <3>1. /\ Live' = Live /\ \A x \in Live \ {c} : rows'[x] = rows[x]
      BY <1>0, <2>3, WriteKeepsPlace DEF ClusterStates
    <3>2. ReaperOnly'
      BY <2>0, <2>1, <2>3, <3>1 DEF ReaperOnly
    <3>3. InHandOf(c)'
      BY <2>1, <2>3 DEF InHandOf, Starts
    <3>4. \A x \in Live : x # c /\ InHandOf(x) => InHandOf(x)'
      BY <2>0, <2>3, <3>1 DEF InHandOf, Starts
    <3>. QED  BY <2>0, <3>1, <3>2, <3>3, <3>4 DEF InHand, process
  <2>. QED  BY <1>0, <1>7, <2>2, <2>3, DeleteMoves DEF NoUserDeletes
<1>8. CASE \/ \E c \in Clusters : BecomesDue(c) \/ ContainerExits(c)
           \/ \E q \in late : LateStep(q)
  BY <1>1, <1>8 DEF BecomesDue, ContainerExits, LateStep, table, tasks, process
<1>9. CASE ReaperStep
  <2>0. UNCHANGED <<rows, process>>
    BY <1>0, <1>9, ReaperMoves DEF table
  <2>1. CASE sweep' = due /\ Mine("reaper") = {} /\ UNCHANGED <<deletes, teardowns>>
    <3>1. deletes = {}
      BY <2>1 DEF ReaperOnly, Mine
    <3>2. \A c \in due : rows[c].state \in {"Ready", "Failed"}
      BY <1>0 DEF TableOK
    <3>. QED  BY <2>0, <2>1, <3>1, <3>2 DEF ReaperOnly, InHand, InHandOf, process, Live
  <2>2. ASSUME NEW c \in sweep, sweep' = sweep \ {c}, UNCHANGED teardowns,
               \/ UNCHANGED deletes
               \/ /\ c \in Live
                  /\ \E d : /\ deletes' = deletes \cup {d}
                            /\ d.cluster = rows[c] /\ d.by = "reaper" /\ d.pc = "write"
        PROVE  ReaperOnly' /\ InHand'
    <3>1. ReaperOnly'
      BY <1>0, <2>0, <2>2 DEF ReaperOnly, Live
    <3>2. \A x : InHandOf(x) => InHandOf(x)'
      BY <2>0, <2>2 DEF InHandOf, Starts, process
    <3>. QED  BY <2>0, <3>1, <3>2 DEF InHand, process, Live
  <2>3. CASE /\ sweep' = {} /\ deletes' = deletes \ Mine("reaper")
             /\ teardowns \subseteq teardowns'
             /\ \A d \in Mine("reaper") : Starts(d) =>
                  \E t \in teardowns' : t.cluster.id = d.cluster.id
    <3>1. deletes' = {} /\ \A d \in deletes : d \in Mine("reaper")
      BY <2>3 DEF ReaperOnly, Mine
    <3>2. \A x : InHandOf(x) => InHandOf(x)'
      BY <2>0, <2>3, <3>1 DEF InHandOf, process
    <3>. QED  BY <2>0, <2>3, <3>1, <3>2 DEF ReaperOnly, InHand, process, Live
  <2>. QED  BY <1>0, <1>9, <2>1, <2>2, <2>3, ReaperMoves
<1>10. CASE Crash
  BY <1>10 DEF Crash, ReaperOnly, InHand
<1>11. CASE Start
  <2>1. UNCHANGED <<rows, deletes, sweep>> /\ restart' = ListAll
    BY <1>0, <1>11 DEF Start, table, tasks
  <2>. QED  BY <2>1 DEF ReaperOnly, InHand, InHandOf, ListAll, Live
<1>12. CASE ReconcileStep
  <2>0. /\ proc = "reconciling" /\ teardowns = {} /\ deletes = {} /\ sweep = {}
        /\ UNCHANGED <<deletes, sweep>>
    BY <1>0, <1>12, ReconcileMoves
  <2>1. CASE restart = {} /\ proc' = "serving" /\ UNCHANGED <<table, teardowns, restart>>
    BY <1>1, <2>0, <2>1 DEF table
  <2>2. ASSUME NEW x \in restart, x \in Cluster, x.id \in Live, rows[x.id] = x,
               restart' = restart \ {x}, proc' = proc, ReconcileMove(x)
        PROVE  ReaperOnly' /\ InHand'
    <3>1. /\ Live' = Live /\ \A c \in Live : c # x.id => rows'[c] = rows[c]
          /\ \/ rows'[x.id].state # "Deleting"
             \/ \E t \in teardowns' : t.cluster.id = x.id
      BY <1>0, <2>2, WriteKeepsPlace
         DEF ReconcileMove, table, Live, ClusterStates, Begun, SameCopy
    <3>2. ASSUME NEW c \in Live, c # x.id, rows[c].state = "Deleting" PROVE InHandOf(c)'
      <4>1. rows[c] \in restart /\ rows[c] # x
        BY <1>0, <2>0, <3>2 DEF InHand, InHandOf
      <4>. QED  BY <2>2, <3>1, <3>2, <4>1 DEF InHandOf
    <3>3. InHand'
      BY <3>1, <3>2 DEF InHand, InHandOf
    <3>. QED  BY <2>0, <3>3 DEF ReaperOnly
  <2>. QED  BY <1>0, <1>12, <2>1, <2>2, ReconcileMoves
<1>. QED
  BY <1>2, <1>3, <1>4, <1>5, <1>6, <1>7, <1>8, <1>9, <1>10, <1>11, <1>12
     DEF Next, Background, NoUserDeletes

(* If the table answers and no user deletes, every row that is Deleting    *)
(* while the process serves has something under way that will remove it.   *)
THEOREM EveryDeletingIsHandled ==
  ASSUME NoUserDeletes, TableWorks PROVE Spec => []DeletingIsHandled
<1>1. Init => Undisturbed /\ ReaperOnly /\ InHand
  BY InitUndisturbed, InitInHand
<1>2. TypeOK /\ Ownership /\ Undisturbed /\ ReaperOnly /\ InHand /\ [Next]_vars
        => Undisturbed' /\ ReaperOnly' /\ InHand'
  BY StepUndisturbed, StepInHand
<1>3. Ownership /\ InHand => DeletingIsHandled
  BY DEF Ownership, ReconcilesAlone, InHand, InHandOf, DeletingIsHandled, WillTearDown, Starts
<1>. QED  BY <1>1, <1>2, <1>3, TypeCorrect, OwnershipHolds, PTL DEF Spec
-----------------------------------------------------------------------------
(* What request_delete would promise if nothing came between its read and  *)
(* its write: a call that is about to write still has the outcome that the *)
(* row as it is would give it (findings 2 and 3 are what happens if not).  *)
CallsAreCurrent ==
  \A d \in deletes :
    d.pc = "write" /\ d.cluster.id \in Live =>
      DeleteOutcome(rows[d.cluster.id].state) = DeleteOutcome(d.cluster.state)

LEMMA OutcomeIs ==
  /\ DeleteOutcome("Deleting") # "StartTeardown" /\ DeleteOutcome("Spawning") # "StartTeardown"
  /\ \A st \in ClusterStates : \/ DeleteOutcome(st) = "StartTeardown"
                               \/ st \in {"Spawning", "Deleting"}
BY DEF DeleteOutcome, ClusterStates

(* A call that begins cannot mean to start what another call is about to.  *)
LEMMA NewCallNoStarter ==
  ASSUME TableOK, Ownership, OneStarter, NEW c \in Live, NEW d, d.cluster = rows[c],
         d.pc = "write", deletes' = deletes \cup {d}
  PROVE  OneStarter'
<1>1. d.cluster.id = c
  BY DEF TableOK, RowsOK
<1>2. ASSUME NEW e \in deletes, e.pc = "dispatch", Starts(e), e.cluster.id = c PROVE ~Starts(d)
  BY <1>2, OutcomeIs DEF Ownership, TeardownsAreEarned, GoneOrDeleting, Starts
<1>. QED  BY <1>1, <1>2 DEF OneStarter, Starts

LEMMA WrittenNoStarter ==
  ASSUME TableOK, TasksOK, Ownership, OneStarter, CallsAreCurrent, CallsAreCurrent',
         NEW d \in deletes, DeleteWrite(d) \/ DeleteDispatch(d) \/ DeleteDropped(d)
  PROVE  OneStarter'
<1>1. CASE deletes' \subseteq deletes
  BY <1>1 DEF OneStarter, Starts
<1>2. ASSUME d.pc = "write", WriteState(d.cluster.id, "Deleting"), NEW e,
             deletes' = (deletes \ {d}) \cup {e}, e.cluster = d.cluster, e.by = d.by,
             e.pc = "dispatch"
      PROVE  OneStarter'
  <2>. DEFINE c == d.cluster.id
  <2>1. c \in Live /\ Live' = Live /\ rows'[c].state = "Deleting"
    BY <1>2, WriteKeepsPlace DEF ClusterStates
  <2>2. ASSUME NEW f \in deletes, f # d, f.cluster.id = c, f.pc = "write" PROVE ~Starts(f)
    <3>1. f \in deletes'
      BY <1>2, <2>2
    <3>. QED  BY <2>1, <2>2, <3>1, OutcomeIs DEF CallsAreCurrent, Starts
  <2>3. ASSUME NEW f \in deletes, f.cluster.id = c, f.pc = "dispatch", Starts(f)
        PROVE  ~Starts(d)
    <3>1. rows[c].state = "Deleting"
      BY <2>1, <2>3 DEF Ownership, TeardownsAreEarned, GoneOrDeleting, Starts
    <3>. QED  BY <1>2, <2>1, <3>1, OutcomeIs DEF CallsAreCurrent, Starts
  <2>4. \A f \in deletes : f.pc \in {"write", "dispatch"}
    BY DeleteCallOK DEF TasksOK, DeleteCall
  <2>5. \A f \in deletes : f # d /\ f.cluster.id = c => ~(Starts(f) /\ Starts(d))
    BY <2>2, <2>3, <2>4
  <2>6. Starts(e) <=> Starts(d)
    BY <1>2 DEF Starts
  <2>. QED  BY <1>2, <2>5, <2>6 DEF OneStarter, Starts
<1>. QED  BY <1>1, <1>2, DeleteMoves

LEMMA StepStarter ==
  ASSUME TypeOK, Ownership, OneStarter, CallsAreCurrent, CallsAreCurrent', [Next]_vars
  PROVE  OneStarter'
<1>0. TableOK /\ TasksOK /\ ProcessOK
  BY DEF TypeOK
<1>1. CASE deletes' \subseteq deletes
  BY <1>1 DEF OneStarter, Starts
<1>2. ASSUME NEW r \in Requests, NEW c \in Clusters, DeleteRead(r, c) PROVE OneStarter'
  <2>1. /\ c \in Live /\ deletes' = deletes \cup {Call(r, c)}
        /\ Call(r, c).cluster = rows[c] /\ Call(r, c).pc = "write"
    BY <1>2 DEF DeleteRead, Call
  <2>. QED  BY <1>0, <2>1, NewCallNoStarter
<1>3. CASE ReaperStep
  <2>1. ASSUME NEW c \in Live, NEW d, deletes' = deletes \cup {d}, d.cluster = rows[c],
               d.pc = "write"
        PROVE  OneStarter'
    BY <1>0, <2>1, NewCallNoStarter
  <2>. QED  BY <1>0, <1>1, <1>3, <2>1, ReaperMoves
<1>4. ASSUME NEW d \in deletes, DeleteWrite(d) \/ DeleteDispatch(d) \/ DeleteDropped(d)
      PROVE  OneStarter'
  BY <1>0, <1>4, WrittenNoStarter
<1>5. ASSUME NEW s \in spawns, SpawnStep(s) PROVE OneStarter'
  BY <1>0, <1>1, <1>5, SpawnMoves
<1>6. ASSUME NEW t \in teardowns, TeardownStep(t) PROVE OneStarter'
  BY <1>0, <1>1, <1>6, TeardownMoves
<1>7. CASE ReconcileStep
  BY <1>0, <1>1, <1>7, ReconcileMoves
<1>8. CASE \/ UNCHANGED vars \/ Crash \/ Start
           \/ \E c \in Clusters : BecomesDue(c) \/ ContainerExits(c)
           \/ \E q \in late : LateStep(q)
           \/ \E c \in Clusters, o \in Owners : Create(c, o)
           \/ \E x \in launching : LaunchSpawn(x) \/ CreateDropped(x)
  BY <1>1, <1>8 DEF vars, tasks, Crash, Start, BecomesDue, ContainerExits, LateStep, Create,
                    LaunchSpawn, CreateDropped
<1>. QED  BY <1>2, <1>3, <1>4, <1>5, <1>6, <1>7, <1>8 DEF Next, Background

LEMMA CurrentMeansOneStarter == Spec /\ []CallsAreCurrent => []OneStarter
<1>1. Init => OneStarter
  BY DEF Init, OneStarter
<1>2. TypeOK /\ Ownership /\ OneStarter /\ CallsAreCurrent /\ CallsAreCurrent' /\ [Next]_vars
        => OneStarter'
  BY StepStarter
<1>. QED  BY <1>1, <1>2, TypeCorrect, OwnershipHolds, PTL DEF Spec

(* If no read were stale when request_delete writes, no cluster would be   *)
(* torn down twice at once and no Ready cluster would lose its container,  *)
(* nor its files but to a wipe of its slot that was cut off, whatever      *)
(* fails and however many clients and sweeps delete.                       *)
THEOREM CurrentReadsStartOneTeardown ==
  Spec /\ []CallsAreCurrent => [](AtMostOneTeardown /\ ReadyIntact)
BY CurrentMeansOneStarter, OneTeardownAtATime, ReadyStaysIntact, PTL

(* A row that is Spawning is on its way, and one that is Deleting is in    *)
(* the hands of somebody who will tear it down or can still see it.        *)
HandOf(c) ==
  \/ \E t \in teardowns : t.cluster.id = c
  \/ \E d \in deletes : d.cluster.id = c /\ d.pc = "dispatch" /\ Starts(d)
  \/ Owned(c)

Handled ==
  proc = "serving" =>
    \A c \in Live : /\ rows[c].state = "Spawning" => Owned(c)
                    /\ rows[c].state = "Deleting" => HandOf(c)

SeenIsSpawning == \A s \in spawns : s.pc = "write" => s.seen = "Spawning"

(* No client disconnects: no handler is dropped between two awaits.        *)
ClientsStay == "drop" \notin Faults

LEMMA InitHandled == Init => Handled /\ SeenIsSpawning
BY DEF Init, Handled, SeenIsSpawning

(* Steps by which no row becomes Spawning or Deleting, and nobody lets go. *)
LEMMA StaysHandled ==
  ASSUME Handled, proc' = "serving" => proc = "serving",
         \A c \in Live' : rows'[c].state \in {"Spawning", "Deleting"} =>
                            c \in Live /\ rows'[c].state = rows[c].state,
         \A c \in Live' : Owned(c) /\ rows'[c].state \in {"Spawning", "Deleting"} =>
                            Owned(c)' \/ (rows'[c].state = "Deleting" /\ HandOf(c)'),
         \A c \in Live' : (\E t \in teardowns : t.cluster.id = c) =>
                            \E t \in teardowns' : t.cluster.id = c,
         \A d \in deletes : d.pc = "dispatch" /\ Starts(d) /\ d.cluster.id \in Live' =>
                            HandOf(d.cluster.id)'
  PROVE  Handled'
<1>1. ASSUME NEW c \in Live', proc' = "serving", rows'[c].state = "Spawning" PROVE Owned(c)'
  BY <1>1 DEF Handled
<1>2. ASSUME NEW c \in Live', proc' = "serving", rows'[c].state = "Deleting" PROVE HandOf(c)'
  BY <1>2 DEF Handled, HandOf
<1>. QED  BY <1>1, <1>2 DEF Handled

LEMMA SpawnStepSeen ==
  ASSUME TableWorks, TypeOK, Ownership, SeenIsSpawning, NEW s \in spawns, SpawnStep(s)
  PROVE  SeenIsSpawning'
<1>0. s \in SpawnTask /\ s.cluster.id \in Clusters /\ ~Fault("db")
  BY SpawnTaskOK DEF TypeOK, TasksOK, TableWorks, Fault
<1>1. ASSUME NEW y, spawns' = Replace(spawns, s, y), y.pc = "write" => y.seen = "Spawning"
      PROVE  SeenIsSpawning'
  BY <1>1 DEF SeenIsSpawning, Replace
<1>2. CASE SpawnFinish(s)
  BY <1>2 DEF SpawnFinish, Remove, SeenIsSpawning
<1>3. CASE SpawnRecheck(s)
  <2>1. s.pc = "recheck" /\ Owned(s.cluster.id)
    BY <1>3 DEF SpawnRecheck, Owned, UnwrittenPcs
  <2>2. CASE TeardownInline(s)
    <3>. DEFINE y == [s EXCEPT !.pc = "teardown"]
    <3>1. spawns' = Replace(spawns, s, y) /\ y.pc = "teardown"
      BY <1>0, <2>2 DEF TeardownInline, Advance, SpawnTask
    <3>. HIDE DEF y
    <3>. QED  BY <1>1, <3>1
  <2>3. CASE spawns' = Replace(spawns, s, [s EXCEPT !.pc = "write", !.seen = rows[s.cluster.id].state])
             /\ s.cluster.id \in Live /\ rows[s.cluster.id].state # "Deleting"
    <3>. DEFINE y == [s EXCEPT !.pc = "write", !.seen = rows[s.cluster.id].state]
    <3>1. rows[s.cluster.id].state = "Spawning"
      BY <1>0, <2>1, <2>3 DEF Ownership, OwnerIsAlone
    <3>2. y.seen = "Spawning" /\ spawns' = Replace(spawns, s, y)
      BY <1>0, <2>3, <3>1 DEF SpawnTask
    <3>. HIDE DEF y
    <3>. QED  BY <1>1, <3>2
  <2>. QED  BY <1>0, <1>3, <2>2, <2>3 DEF SpawnRecheck
<1>4. CASE SpawnSetWorker(s)
  <2>. DEFINE x == [s.cluster EXCEPT !.worker = TRUE]
              w == [s EXCEPT !.cluster = x]
              prepared == [w EXCEPT !.pc = "prepare"]
              failing == [w EXCEPT !.ok = FALSE, !.pc = "recheck"]
  <2>1. WithWorker(s) = w
    BY <1>0 DEF WithWorker, SpawnTask, Cluster
  <2>2. spawns' = Replace(spawns, s, prepared) \/ spawns' = Replace(spawns, s, failing)
    BY <1>4, <2>1 DEF SpawnSetWorker, Failing
  <2>. HIDE DEF x
  <2>3. prepared.pc = "prepare" /\ failing.pc = "recheck"
    BY <1>0 DEF SpawnTask
  <2>. HIDE DEF prepared, failing
  <2>. QED  BY <1>1, <2>2, <2>3
<1>5. CASE \/ SpawnPrepare(s) \/ SpawnCreate(s) \/ SpawnStart(s) \/ SpawnHealthy(s)
           \/ SpawnFails(s) \/ SpawnCancelled(s) \/ SpawnWrite(s)
  <2>. DEFINE at(p) == [s EXCEPT !.pc = p]
              failing == [s EXCEPT !.ok = FALSE, !.pc = "recheck"]
  <2>1. \/ \E p \in {"create", "run", "wait", "recheck", "teardown", "finish"} :
             spawns' = Replace(spawns, s, at(p))
        \/ spawns' = Replace(spawns, s, failing)
    BY <1>5 DEF SpawnPrepare, SpawnCreate, SpawnStart, SpawnHealthy, SpawnFails, SpawnCancelled,
                SpawnWrite, TeardownInline, Advance, Failing
  <2>2. failing.pc = "recheck" /\ \A p : at(p).pc = p
    BY <1>0 DEF SpawnTask
  <2>. HIDE DEF at, failing
  <2>. QED  BY <1>1, <2>1, <2>2
<1>. QED  BY <1>2, <1>3, <1>4, <1>5 DEF SpawnStep

(* A spawn task that stops being the owner has written its outcome, or has *)
(* begun a teardown.                                                       *)
LEMMA SpawnStepHandled ==
  ASSUME TableWorks, TypeOK, Ownership, Handled, SeenIsSpawning, NEW s \in spawns, SpawnStep(s)
  PROVE  Handled'
<1>. DEFINE c == s.cluster.id
<1>0. /\ TableOK /\ TasksOK /\ s \in SpawnTask /\ c \in Clusters /\ ~Fault("db")
      /\ UNCHANGED <<launching, deletes, process>>
  BY SpawnTaskOK, SpawnMoves DEF TypeOK, TasksOK, TableWorks, Fault
<1>1. ASSUME NEW y, spawns' = (spawns \ {s}) \cup {y}, y.cluster.id = c, y.pc \in UnwrittenPcs
      PROVE  \A x : Owned(x) => Owned(x)'
  BY <1>0, <1>1 DEF Owned
<1>2. ASSUME UNCHANGED rows \/ SetWorker(c)
      PROVE  Live' = Live /\ \A x \in Live : rows'[x].state = rows[x].state
  BY <1>0, <1>2, SetWorkerKeepsPlace DEF Live
<1>3. CASE SpawnFinish(s)
  <2>1. spawns' = spawns \ {s} /\ UNCHANGED <<rows, teardowns>> /\ s.pc \notin UnwrittenPcs
    BY <1>3 DEF SpawnFinish, Remove, table, UnwrittenPcs, DoSpawn
  <2>2. \A x : Owned(x) => Owned(x)'
    BY <1>0, <2>1 DEF Owned
  <2>. QED  BY <1>0, <2>1, <2>2, StaysHandled DEF process, HandOf, Live
<1>4. CASE s.pc = "write"
  <2>0. SpawnWrite(s)
    BY <1>4 DEF SpawnStep, SpawnSetWorker, SpawnPrepare, SpawnCreate, SpawnStart, SpawnHealthy, SpawnFails,
                SpawnCancelled, SpawnRecheck, SpawnFinish, Running, DoSpawn
  <2>1. s.seen = "Spawning" /\ UNCHANGED teardowns
    BY <1>4, <2>0 DEF SpawnWrite, SeenIsSpawning
  <2>2. Owned(c) /\ c \in Live
    BY <1>0, <1>4 DEF Owned, UnwrittenPcs, Ownership, OwnerIsAlone
  <2>3. PICK st \in {"Ready", "Failed"} : WriteState(c, st)
    BY <1>0, <2>0, <2>1, <2>2 DEF SpawnWrite, SpawnEvent, Applies, Transition
  <2>4. /\ Live' = Live /\ rows'[c].state \in {"Ready", "Failed"}
        /\ \A x \in Live \ {c} : rows'[x] = rows[x]
    BY <1>0, <2>3, WriteKeepsPlace DEF ClusterStates
  <2>5. spawns' = Replace(spawns, s, [s EXCEPT !.pc = "finish"])
    BY <2>0 DEF SpawnWrite, Advance
  <2>6. \A x : x # c /\ Owned(x) => Owned(x)'
    BY <1>0, <2>5 DEF Owned, Replace
  <2>. QED  BY <1>0, <2>1, <2>4, <2>6, StaysHandled DEF process, HandOf
<1>5. ASSUME NEW y, spawns' = (spawns \ {s}) \cup {y}, SameCopy(y.cluster, s.cluster),
             SpawnMove(s, y), s.pc # "write"
      PROVE  Handled'
  <2>1. y.cluster.id = c
    BY <1>5 DEF SameCopy
  <2>2. CASE y.pc \in UnwrittenPcs
    <3>1. (UNCHANGED rows \/ SetWorker(c)) /\ UNCHANGED teardowns
      BY <2>2, <1>5 DEF SpawnMove, UnwrittenPcs, DoSpawn
    <3>2. \A x : Owned(x) => Owned(x)'
      BY <1>1, <1>5, <2>1, <2>2
    <3>. QED  BY <1>0, <1>2, <3>1, <3>2, StaysHandled DEF process, HandOf
  <2>3. CASE y.pc = "teardown"
    <3>. DEFINE t == StartTeardown("spawn", s.cluster)
    <3>1. UNCHANGED rows /\ teardowns' = teardowns \cup {t}
      BY <1>5, <2>3 DEF SpawnMove
    <3>2. t.cluster.id = c
      BY <1>0, SpawnTaskOK, StartTeardownIs DEF Begun, SameCopy
    <3>. HIDE DEF t
    <3>3. \A x : x # c /\ Owned(x) => Owned(x)'
      BY <1>0, <1>5 DEF Owned
    <3>4. t \in teardowns' /\ Live' = Live
      BY <3>1 DEF Live
    <3>5. c \in Live => rows'[c].state = "Deleting" /\ HandOf(c)'
      <4>1. TeardownOnlyWhenDeleting'
        BY <1>0, SpawnStepKeepsOwnership DEF Ownership
      <4>. QED  BY <3>2, <3>4, <4>1 DEF TeardownOnlyWhenDeleting, HandOf
    <3>. QED  BY <1>0, <3>1, <3>3, <3>4, <3>5, StaysHandled DEF process, HandOf
  <2>. QED  BY <1>5, <2>2, <2>3 DEF SpawnMove, UnwrittenPcs, DoSpawn
<1>. QED  BY <1>0, <1>3, <1>4, <1>5, SpawnMoves

LEMMA DeleteStepHandled ==
  ASSUME ClientsStay, TableWorks, TypeOK, Ownership, Handled, CallsAreCurrent, NEW d \in deletes,
         DeleteWrite(d) \/ DeleteDispatch(d) \/ DeleteDropped(d)
  PROVE  Handled'
<1>. DEFINE c == d.cluster.id
<1>0. /\ TableOK /\ TasksOK /\ ~Fault("db") /\ ~Fault("drop")
      /\ UNCHANGED <<launching, spawns, process>> /\ \A x : Owned(x)' <=> Owned(x)
      /\ \A x \in Live : rows[x].state \in ClusterStates
  BY DeleteMoves DEF TypeOK, TasksOK, TableOK, RowsOK, Cluster, TableWorks, ClientsStay, Fault, Owned
<1>1. ASSUME deletes' = deletes \ {d}, UNCHANGED rows, teardowns \subseteq teardowns',
             d.pc = "dispatch" /\ Starts(d) => \E t \in teardowns' : t.cluster.id = c
      PROVE  Handled'
  BY <1>0, <1>1, StaysHandled DEF process, HandOf, Live
<1>2. CASE d.pc = "write" /\ deletes' = deletes \ {d} /\ UNCHANGED <<table, teardowns>>
  BY <1>1, <1>2 DEF table
<1>3. ASSUME d.pc = "write", UNCHANGED teardowns, WriteState(c, "Deleting"),
             NEW e, deletes' = (deletes \ {d}) \cup {e}, e.cluster = d.cluster, e.pc = "dispatch"
      PROVE  Handled'
  <2>1. /\ Live' = Live /\ c \in Live /\ rows'[c].state = "Deleting"
        /\ \A x \in Live \ {c} : rows'[x] = rows[x]
    BY <1>0, <1>3, WriteKeepsPlace DEF ClusterStates
  <2>2. \A x : HandOf(x) => HandOf(x)'
    BY <1>0, <1>3 DEF HandOf, Starts
  <2>3. proc = "serving" => HandOf(c)'
    <3>1. CASE Starts(d)
      BY <1>3, <3>1 DEF HandOf, Starts
    <3>2. CASE ~Starts(d)
      <4>1. rows[c].state \in {"Spawning", "Deleting"}
        BY <1>0, <1>3, <2>1, <3>2, OutcomeIs DEF CallsAreCurrent, Starts
      <4>. QED  BY <2>1, <2>2, <4>1 DEF Handled, HandOf
    <3>. QED  BY <3>1, <3>2
  <2>. QED  BY <1>0, <2>1, <2>2, <2>3 DEF Handled, process
<1>4. CASE d.pc = "dispatch"
  <2>1. DeleteDispatch(d)
    BY <1>0, <1>4 DEF DeleteWrite, DeleteDropped
  <2>2. /\ deletes' = deletes \ {d} /\ UNCHANGED rows /\ teardowns \subseteq teardowns'
        /\ Starts(d) => StartTeardown(d.by, d.cluster) \in teardowns'
    BY <2>1 DEF DeleteDispatch, Remove, table, Starts
  <2>3. StartTeardown(d.by, d.cluster).cluster.id = c
    BY <1>0, DeleteCallOK, StartTeardownIs DEF TasksOK, Begun, SameCopy
  <2>. QED  BY <1>1, <2>2, <2>3
<1>. QED  BY <1>0, <1>2, <1>3, <1>4, DeleteMoves

LEMMA ReaperStepHandled ==
  ASSUME TableOK, TasksOK, Handled, ReaperStep
  PROVE  Handled'
<1>0. UNCHANGED <<rows, launching, spawns, process>> /\ \A x : Owned(x)' <=> Owned(x)
  BY ReaperMoves DEF table, Owned
<1>1. teardowns \subseteq teardowns'
  BY ReaperMoves
<1>2. \A d \in deletes : d.pc = "dispatch" /\ Starts(d) =>
         d \in deletes' \/ \E t \in teardowns' : t.cluster.id = d.cluster.id
  BY ReaperMoves
<1>. QED  BY <1>0, <1>1, <1>2, StaysHandled DEF process, HandOf, Live

LEMMA StepSeen ==
  ASSUME TableWorks, TypeOK, Ownership, SeenIsSpawning, [Next]_vars
  PROVE  SeenIsSpawning'
<1>0. TableOK /\ TasksOK /\ ProcessOK
  BY DEF TypeOK
<1>1. CASE spawns' \subseteq spawns
  BY <1>1 DEF SeenIsSpawning
<1>2. ASSUME NEW x \in launching, LaunchSpawn(x) PROVE SeenIsSpawning'
  BY <1>2 DEF LaunchSpawn, NewSpawn, SeenIsSpawning
<1>3. ASSUME NEW s \in spawns, SpawnStep(s) PROVE SeenIsSpawning'
  BY <1>3, SpawnStepSeen
<1>4. ASSUME NEW d \in deletes, DeleteWrite(d) \/ DeleteDispatch(d) \/ DeleteDropped(d)
      PROVE  SeenIsSpawning'
  BY <1>0, <1>1, <1>4, DeleteMoves
<1>5. ASSUME NEW t \in teardowns, TeardownStep(t) PROVE SeenIsSpawning'
  BY <1>0, <1>1, <1>5, TeardownMoves
<1>6. CASE ReaperStep
  BY <1>0, <1>1, <1>6, ReaperMoves
<1>7. CASE ReconcileStep
  BY <1>0, <1>1, <1>7 DEF ReconcileStep, ReconcileSpawning, ReconcileReady, ReconcileDeleting,
                          ReconcileFailed, StartServing, tasks
<1>8. CASE \/ UNCHANGED vars \/ Crash \/ Start
           \/ \E c \in Clusters : BecomesDue(c) \/ ContainerExits(c)
           \/ \E q \in late : LateStep(q)
           \/ \E c \in Clusters, o \in Owners : Create(c, o)
           \/ \E r \in Requests, c \in Clusters : DeleteRead(r, c)
           \/ \E x \in launching : CreateDropped(x)
  BY <1>1, <1>8 DEF vars, tasks, Crash, Start, BecomesDue, ContainerExits, LateStep, Create,
                    DeleteRead, CreateDropped
<1>. QED  BY <1>2, <1>3, <1>4, <1>5, <1>6, <1>7, <1>8 DEF Next, Background

LEMMA StepHandled ==
  ASSUME ClientsStay, TableWorks, TypeOK, Ownership, Settling, Handled, SeenIsSpawning,
         CallsAreCurrent, [Next]_vars
  PROVE  Handled'
<1>0. TableOK /\ TasksOK /\ ProcessOK /\ ~Fault("db") /\ ~Fault("drop")
  BY DEF TypeOK, TableWorks, ClientsStay, Fault
<1>1. CASE proc' # "serving"
  BY <1>1 DEF Handled
<1>2. CASE proc = "reconciling" /\ proc' = "serving"
  <2>1. StartServing
    BY <1>0, <1>2, ReconcileMoves, SpawnMoves, TeardownMoves, DeleteMoves, ReaperMoves
       DEF Next, Background, vars, process, Create, LaunchSpawn, CreateDropped, DeleteRead,
           BecomesDue, ContainerExits, LateStep, Crash, Start, ReconcileStep, ReconcileSpawning,
           ReconcileReady, ReconcileDeleting, ReconcileFailed
  <2>2. UNCHANGED rows /\ \A c \in Live : rows[c].state \in {"Ready", "Failed"}
    BY <1>2, <2>1, ServesWhenSettled DEF StartServing, table
  <2>. QED  BY <2>2 DEF Handled, Live
<1>3. ASSUME UNCHANGED <<rows, launching, spawns, teardowns, process>>, deletes \subseteq deletes'
      PROVE  Handled'
  BY <1>3, StaysHandled DEF process, HandOf, Owned, Live
<1>4. CASE UNCHANGED vars
  BY <1>3, <1>4 DEF vars, table, tasks
<1>5. ASSUME NEW c \in Clusters, NEW o \in Owners, Create(c, o) PROVE Handled'
  <2>. DEFINE n == NewCluster(c, o)
  <2>1. /\ Live' = Live \cup {c} /\ rows'[c].state = "Spawning" /\ c \notin Live
        /\ \A x \in Live : rows'[x] = rows[x]
        /\ launching' = launching \cup {n} /\ n.id = c
        /\ UNCHANGED <<spawns, deletes, teardowns, process>>
    BY <1>0, <1>5 DEF Create, TryInsert, NewCluster, TableOK, Live
  <2>. HIDE DEF n
  <2>2. (\A x : Owned(x) => Owned(x)') /\ Owned(c)'
    BY <2>1 DEF Owned
  <2>. QED  BY <2>1, <2>2 DEF Handled, HandOf, process
<1>6. ASSUME NEW x \in launching, LaunchSpawn(x) \/ CreateDropped(x) PROVE Handled'
  <2>1. /\ launching' = launching \ {x} /\ spawns' = spawns \cup {NewSpawn(x)}
        /\ NewSpawn(x).cluster.id = x.id /\ NewSpawn(x).pc \in UnwrittenPcs
        /\ UNCHANGED <<rows, deletes, teardowns, process>>
    BY <1>0, <1>6 DEF LaunchSpawn, CreateDropped, Remove, NewSpawn, table, UnwrittenPcs, DoSpawn
  <2>2. \A c : Owned(c) => Owned(c)'
    BY <2>1 DEF Owned
  <2>. QED  BY <2>1, <2>2, StaysHandled DEF process, HandOf, Live
<1>7. ASSUME NEW s \in spawns, SpawnStep(s) PROVE Handled'
  BY <1>7, SpawnStepHandled
<1>8. ASSUME NEW t \in teardowns, TeardownStep(t) PROVE Handled'
  <2>0. UNCHANGED <<launching, spawns, deletes, process>> /\ \A x : Owned(x)' <=> Owned(x)
    BY <1>0, <1>8, TeardownMoves DEF Owned
  <2>1. CASE teardowns' = teardowns \ {t} /\ DeleteRow(t.cluster.id)
    <3>1. Live' = Live \ {t.cluster.id} /\ \A x \in Live' : rows'[x] = rows[x]
      BY <1>0, <2>1, DeleteRowOK DEF TableOK
    <3>. QED  BY <2>0, <2>1, <3>1, StaysHandled DEF process, HandOf
  <2>2. ASSUME NEW y, teardowns' = (teardowns \ {t}) \cup {y}, y.cluster = t.cluster, UNCHANGED table
        PROVE  Handled'
    BY <2>0, <2>2, StaysHandled DEF table, process, HandOf, Live
  <2>. QED  BY <1>0, <1>8, <2>1, <2>2, TeardownMoves
<1>9. ASSUME NEW d \in deletes, DeleteWrite(d) \/ DeleteDispatch(d) \/ DeleteDropped(d)
      PROVE  Handled'
  BY <1>9, DeleteStepHandled
<1>10. ASSUME NEW r \in Requests, NEW c \in Clusters, DeleteRead(r, c) PROVE Handled'
  BY <1>3, <1>10 DEF DeleteRead, table
<1>11. CASE \/ \E c \in Clusters : BecomesDue(c) \/ ContainerExits(c)
            \/ \E q \in late : LateStep(q)
  BY <1>3, <1>11 DEF BecomesDue, ContainerExits, LateStep, table, tasks
<1>12. CASE ReaperStep
  BY <1>0, <1>12, ReaperStepHandled
<1>13. CASE Crash \/ Start
  BY <1>0, <1>1, <1>13 DEF Crash, Start
<1>14. CASE ReconcileStep
  BY <1>0, <1>1, <1>2, <1>14, ReconcileMoves
<1>. QED
  BY <1>4, <1>5, <1>6, <1>7, <1>8, <1>9, <1>10, <1>11, <1>12, <1>13, <1>14 DEF Next, Background

(* If no read were stale when request_delete writes, no client left in the *)
(* middle of a request and the table answered, no row would be left        *)
(* Deleting by everybody: the atomicity EveryDeletingIsHandled gets from   *)
(* having no user DELETEs is all that is missing.                          *)
THEOREM CurrentReadsAreHandled ==
  ASSUME ClientsStay, TableWorks PROVE Spec /\ []CallsAreCurrent => []DeletingIsHandled
<1>1. TypeOK /\ Ownership /\ Settling /\ Handled /\ SeenIsSpawning /\ CallsAreCurrent /\ [Next]_vars
        => Settling' /\ Handled' /\ SeenIsSpawning'
  BY StepSettling, StepHandled, StepSeen
<1>2. Handled => DeletingIsHandled
  BY DEF Handled, HandOf, Owned, DeletingIsHandled, WillTearDown, Starts, UnwrittenPcs, DoSpawn
<1>. QED  BY <1>1, <1>2, InitSettling, InitHandled, TypeCorrect, OwnershipHolds, PTL DEF Spec
=============================================================================
