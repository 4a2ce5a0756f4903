----------------------- MODULE ClusterOwnershipProofs -----------------------
(***************************************************************************)
(* Ownership is an invariant, for any clusters, owners, quota, requests    *)
(* and faults, and with it TeardownOnlyWhenDeleting and RowStepsLegal.     *)
(* Steps of different handlers that do the same to the shared state (move  *)
(* a spawn on, start a teardown, take a delete call) share a lemma.        *)
(* The second half says, once for the proofs that follow, what each kind   *)
(* of step does with the records it replaces, that every copy of a row     *)
(* stays true to the row's place, and what the calls that nobody waits for *)
(* any more can be about.                                                  *)
(***************************************************************************)
EXTENDS ClusterOwnership, ClusterServiceProofs

SameStates == Live' = Live /\ \A c \in Live : rows'[c].state = rows[c].state

LEMMA InitOwnership == Init => Ownership
BY DEF Init, Ownership, OwnerIsAlone, Owned, OneOwner, TeardownsAreEarned, IdsInUse,
       ReconcilesAlone, TeardownOnlyWhenDeleting

(* A process that runs any task but a teardown serves, and so has no row   *)
(* left to reconcile.                                                      *)
LEMMA Serving ==
  ASSUME Ownership, launching # {} \/ spawns # {} \/ deletes # {} \/ sweep # {}
  PROVE  proc = "serving" /\ restart = {}
BY DEF Ownership, ReconcilesAlone

(* A row that a spawn, a teardown or a delete call is about.               *)
LEMMA RowIds ==
  ASSUME TableOK
  PROVE  /\ \A c \in Live : rows[c].id = c /\ rows[c].state \in ClusterStates
         /\ Live \subseteq used
BY DEF TableOK, RowsOK, Cluster
-----------------------------------------------------------------------------
(* A spawn goes on: it keeps its cluster, and stays or stops being owner.  *)
LEMMA SpawnMovesOn ==
  ASSUME Ownership, NEW s \in spawns, NEW y,
         y.cluster.id = s.cluster.id,
         y.pc \in UnwrittenPcs => s.pc \in UnwrittenPcs,
         y.pc \in DoSpawn => s.pc \in DoSpawn,
         spawns' = Replace(spawns, s, y),
         SameStates,
         UNCHANGED <<used, launching, tokens, deletes, sweep, teardowns, process>>
  PROVE  Ownership'
<1>0. proc = "serving" /\ restart = {}
  BY Serving
<1>. USE DEF Ownership, Replace, SameStates, process
<1>1. \A c : Owned(c)' => Owned(c)
  BY DEF Owned
<1>2. \A c : GoneOrDeleting(c) => GoneOrDeleting(c)'
  BY DEF GoneOrDeleting
<1>3. OwnerIsAlone'
  BY <1>1 DEF OwnerIsAlone
<1>4. OneOwner'
  BY DEF OneOwner
<1>5. TeardownsAreEarned'
  BY <1>2 DEF TeardownsAreEarned, IsCancelled
<1>6. IdsInUse' /\ ReconcilesAlone' /\ TeardownOnlyWhenDeleting'
  BY <1>0 DEF IdsInUse, ReconcilesAlone, TeardownOnlyWhenDeleting
<1>. QED  BY <1>3, <1>4, <1>5, <1>6

(* An owner whose row is Deleting or gone gives up and tears down itself.  *)
LEMMA SpawnGivesUp ==
  ASSUME TasksOK, Ownership, NEW s \in spawns,
         s.pc \in UnwrittenPcs,
         GoneOrDeleting(s.cluster.id),
         TeardownInline(s),
         UNCHANGED <<rows, used, launching, tokens, deletes, sweep, process>>
  PROVE  Ownership'
<1>. DEFINE c == s.cluster.id
            y == [s EXCEPT !.pc = "teardown"]
            t == StartTeardown("spawn", s.cluster)
<1>0. proc = "serving" /\ restart = {}
  BY Serving
<1>1. /\ spawns' = (spawns \ {s}) \cup {y} /\ teardowns' = teardowns \cup {t}
      /\ y.cluster.id = c /\ y.pc = "teardown" /\ t.cluster.id = c
  <2>1. s \in SpawnTask /\ s.cluster \in Cluster
    BY SpawnTaskOK DEF TasksOK
  <2>. QED  BY <2>1 DEF TeardownInline, Advance, Replace, StartTeardown, SpawnTask, Cluster
<1>. HIDE DEF y, t
<1>. USE DEF Ownership, process
<1>2. \A x : Owned(x)' => Owned(x) /\ x # c
  BY <1>1 DEF Owned, OneOwner, UnwrittenPcs, DoSpawn
<1>3. OwnerIsAlone'
  BY <1>1, <1>2 DEF OwnerIsAlone, Live
<1>4. OneOwner'
  BY <1>1 DEF OneOwner
<1>5. TeardownsAreEarned'
  BY <1>1 DEF TeardownsAreEarned, IsCancelled, GoneOrDeleting, DoSpawn, Live
<1>6. IdsInUse'
  BY <1>1 DEF IdsInUse
<1>7. ReconcilesAlone' /\ TeardownOnlyWhenDeleting'
  BY <1>0, <1>1 DEF ReconcilesAlone, TeardownOnlyWhenDeleting, GoneOrDeleting, Live
<1>. QED  BY <1>3, <1>4, <1>5, <1>6, <1>7

(* The owner's last act: the outcome is written, or the write fails.       *)
LEMMA SpawnWriteKeepsOwnership ==
  ASSUME TasksOK, Ownership, NEW s \in spawns, SpawnWrite(s)
  PROVE  Ownership'
<1>. DEFINE c == s.cluster.id
            y == [s EXCEPT !.pc = "finish"]
<1>0. /\ proc = "serving" /\ restart = {}
      /\ s.pc = "write" /\ c \in Clusters /\ c \in Live /\ Owned(c)
      /\ spawns' = (spawns \ {s}) \cup {y} /\ y.cluster.id = c /\ y.pc = "finish"
      /\ UNCHANGED <<used, launching, tokens, deletes, sweep, teardowns, process>>
  <2>1. s \in SpawnTask /\ c \in Clusters
    BY SpawnTaskOK DEF TasksOK
  <2>2. s.pc = "write" /\ Owned(c) /\ c \in Live
    BY <2>1 DEF SpawnWrite, Owned, UnwrittenPcs, Ownership, OwnerIsAlone
  <2>. QED  BY <2>1, <2>2, Serving DEF SpawnWrite, Advance, Replace, SpawnTask
<1>1. Live' = Live /\ \A x \in Live \ {c} : rows'[x] = rows[x]
  BY DEF SpawnWrite, WriteState, UpdateState, table, Live
<1>. HIDE DEF y
<1>. USE DEF Ownership, process
<1>2. \A x : Owned(x)' => Owned(x) /\ x # c
  BY <1>0 DEF Owned, OneOwner, UnwrittenPcs, DoSpawn
<1>3. OwnerIsAlone'
  BY <1>0, <1>1, <1>2 DEF OwnerIsAlone
<1>4. OneOwner' /\ IdsInUse'
  BY <1>0 DEF OneOwner, IdsInUse
<1>5. \A x : x # c /\ GoneOrDeleting(x) => GoneOrDeleting(x)'
  BY <1>1 DEF GoneOrDeleting
<1>6. TeardownsAreEarned'
  <2>1. ASSUME NEW r \in spawns', r.pc \in DoSpawn, IsCancelled(r.cluster.id)'
        PROVE  GoneOrDeleting(r.cluster.id)'
    <3>1. r \in spawns \ {s} /\ r.cluster.id # c /\ IsCancelled(r.cluster.id)
      BY <1>0, <2>1 DEF OneOwner, DoSpawn, IsCancelled
    <3>. QED  BY <1>5, <2>1, <3>1 DEF TeardownsAreEarned
  <2>2. ASSUME NEW d \in deletes, d.pc = "dispatch",
               DeleteOutcome(d.cluster.state) = "StartTeardown"
        PROVE  GoneOrDeleting(d.cluster.id)'
    <3>1. d.cluster.id = c => d.cluster.state \in {"Spawning", "Deleting"}
      BY <1>0 DEF OwnerIsAlone
    <3>2. d.cluster.id # c
      BY <2>2, <3>1 DEF DeleteOutcome
    <3>. QED  BY <1>5, <2>2, <3>2 DEF TeardownsAreEarned
  <2>. QED  BY <1>0, <2>1, <2>2 DEF TeardownsAreEarned
<1>7. ReconcilesAlone' /\ TeardownOnlyWhenDeleting'
  BY <1>0, <1>1 DEF ReconcilesAlone, TeardownOnlyWhenDeleting, OwnerIsAlone
<1>. QED  BY <1>3, <1>4, <1>6, <1>7

LEMMA SpawnFinishKeepsOwnership ==
  ASSUME Ownership, NEW s \in spawns, SpawnFinish(s)
  PROVE  Ownership'
<1>0. proc = "serving" /\ restart = {}
  BY Serving
<1>. USE DEF Ownership, SpawnFinish, Remove, table, process
<1>1. \A c : Owned(c)' => Owned(c)
  BY DEF Owned
<1>2. OwnerIsAlone' /\ OneOwner'
  BY <1>1 DEF OwnerIsAlone, OneOwner, Live
<1>3. TeardownsAreEarned'
  BY DEF TeardownsAreEarned, IsCancelled, GoneOrDeleting, Live
<1>4. IdsInUse' /\ ReconcilesAlone' /\ TeardownOnlyWhenDeleting'
  BY <1>0 DEF IdsInUse, ReconcilesAlone, TeardownOnlyWhenDeleting, Live
<1>. QED  BY <1>2, <1>3, <1>4

LEMMA SpawnStepKeepsOwnership ==
  ASSUME TableOK, TasksOK, Ownership, NEW s \in spawns, SpawnStep(s)
  PROVE  Ownership'
<1>0. s \in SpawnTask
  BY DEF TasksOK
<1>. USE DEF UnwrittenPcs, DoSpawn
<1>1. CASE SpawnSetWorker(s)
  <2>1. SameStates
    <3>1. ASSUME SetWorker(s.cluster.id) PROVE SameStates
      <4>. DEFINE c == s.cluster.id
      <4>1. /\ RowsOK /\ Live' = Live /\ c \in Live
            /\ rows'[c] = [rows[c] EXCEPT !.worker = TRUE]
            /\ \A x \in Live \ {c} : rows'[x] = rows[x]
        BY <3>1, SetWorkerOK DEF TableOK
      <4>2. rows'[c].state = rows[c].state
        BY <4>1 DEF RowsOK, Cluster
      <4>. QED  BY <4>1, <4>2 DEF SameStates
    <3>. QED  BY <1>1, <3>1 DEF SpawnSetWorker, SameStates, Live
  <2>2. \E y : /\ spawns' = Replace(spawns, s, y)
               /\ y.cluster.id = s.cluster.id /\ y.pc \in {"prepare", "recheck"}
    <3>. DEFINE x == [s.cluster EXCEPT !.worker = TRUE]
                w == [s EXCEPT !.cluster = x]
                prepared == [w EXCEPT !.pc = "prepare"]
                failing == [w EXCEPT !.ok = FALSE, !.pc = "recheck"]
    <3>1. WithWorker(s) = w
      BY <1>0 DEF WithWorker, SpawnTask
    <3>2. x.id = s.cluster.id
      BY <1>0 DEF SpawnTask, Cluster
    <3>3. \/ spawns' = Replace(spawns, s, prepared)
          \/ spawns' = Replace(spawns, s, failing)
      BY <1>1, <3>1 DEF SpawnSetWorker, Failing
    <3>. HIDE DEF x
    <3>4. /\ prepared.cluster.id = s.cluster.id /\ prepared.pc = "prepare"
          /\ failing.cluster.id = s.cluster.id /\ failing.pc = "recheck"
      BY <1>0, <3>2 DEF SpawnTask
    <3>. HIDE DEF prepared, failing
    <3>. QED  BY <3>3, <3>4
  <2>. QED  BY <1>1, <2>1, <2>2, SpawnMovesOn DEF SpawnSetWorker, Running
<1>2. CASE \/ SpawnPrepare(s) \/ SpawnCreate(s) \/ SpawnStart(s) \/ SpawnHealthy(s)
         \/ SpawnFails(s)
  <2>1. SameStates
    BY <1>2 DEF SpawnPrepare, SpawnCreate, SpawnStart, SpawnHealthy, SpawnFails, table,
                SameStates, Live
  <2>2. \E y : /\ spawns' = Replace(spawns, s, y)
               /\ y.cluster.id = s.cluster.id /\ y.pc \in {"create", "run", "wait", "recheck"}
               /\ s.pc \in DoSpawn
    BY <1>0, <1>2 DEF SpawnPrepare, SpawnCreate, SpawnStart, SpawnHealthy, SpawnFails, Running,
                      Advance, Failing, SpawnTask
  <2>. QED  BY <1>2, <2>1, <2>2, SpawnMovesOn
                DEF SpawnPrepare, SpawnCreate, SpawnStart, SpawnHealthy, SpawnFails
<1>3. CASE SpawnCancelled(s)
  <2>1. GoneOrDeleting(s.cluster.id)
    BY <1>3 DEF SpawnCancelled, Ownership, TeardownsAreEarned
  <2>. QED  BY <1>3, <2>1, SpawnGivesUp DEF SpawnCancelled, table
<1>4. CASE SpawnRecheck(s)
  <2>1. ASSUME TeardownInline(s), GoneOrDeleting(s.cluster.id) PROVE Ownership'
    BY <1>4, <2>1, SpawnGivesUp DEF SpawnRecheck, table
  <2>2. ASSUME NEW st, spawns' = Replace(spawns, s, [s EXCEPT !.pc = "write", !.seen = st]),
               UNCHANGED teardowns
        PROVE  Ownership'
    <3>. DEFINE y == [s EXCEPT !.pc = "write", !.seen = st]
    <3>1. y.cluster.id = s.cluster.id /\ y.pc = "write" /\ s.pc = "recheck"
      BY <1>0, <1>4 DEF SpawnTask, SpawnRecheck
    <3>2. spawns' = Replace(spawns, s, y)
      BY <2>2
    <3>3. SameStates
      BY <1>4 DEF SpawnRecheck, table, SameStates, Live
    <3>. HIDE DEF y
    <3>. QED  BY <1>4, <2>2, <3>1, <3>2, <3>3, SpawnMovesOn DEF SpawnRecheck
  <2>. QED  BY <1>4, <2>1, <2>2 DEF SpawnRecheck, GoneOrDeleting
<1>5. CASE SpawnWrite(s)
  BY <1>5, SpawnWriteKeepsOwnership
<1>6. CASE SpawnFinish(s)
  BY <1>6, SpawnFinishKeepsOwnership
<1>. QED  BY <1>1, <1>2, <1>3, <1>4, <1>5, <1>6 DEF SpawnStep
-----------------------------------------------------------------------------
LEMMA TeardownStepKeepsOwnership ==
  ASSUME TasksOK, Ownership, NEW t \in teardowns, TeardownStep(t)
  PROVE  Ownership'
<1>. DEFINE c == t.cluster.id
<1>0. t \in Teardown
  BY DEF TasksOK
<1>1. UNCHANGED <<used, launching, tokens, spawns, deletes, sweep, process>>
  BY DEF TeardownStep, TeardownBackend, TeardownWipe, TeardownDelete
<1>2. \A u \in teardowns' : \E v \in teardowns : u.cluster.id = v.cluster.id
  <2>1. CASE TeardownDelete(t)
    BY <2>1 DEF TeardownDelete, Remove
  <2>2. ASSUME NEW p, teardowns' = Advance(teardowns, t, p)
        PROVE  \A u \in teardowns' : \E v \in teardowns : u.cluster.id = v.cluster.id
    <3>1. [t EXCEPT !.pc = p].cluster.id = t.cluster.id
      BY <1>0 DEF Teardown
    <3>. QED  BY <2>2, <3>1 DEF Advance, Replace
  <2>. QED  BY <2>1, <2>2 DEF TeardownStep, TeardownBackend, TeardownWipe
<1>3. teardowns # {} /\ (teardowns = {} => teardowns' = {})
  OBVIOUS
<1>4. \/ UNCHANGED rows
      \/ Live' = Live \ {c} /\ \A x \in Live' : rows'[x] = rows[x]
  BY DEF TeardownStep, TeardownBackend, TeardownWipe, TeardownDelete, DeleteRow, table, Live
<1>5. \A x \in Live' : x \in Live /\ rows'[x] = rows[x]
  BY <1>4 DEF Live
<1>6. \A x \in Live : x # c => x \in Live'
  BY <1>4 DEF Live
<1>. USE DEF Ownership, process
<1>7. \A x : Owned(x)' <=> Owned(x)
  BY <1>1 DEF Owned
<1>8. OwnerIsAlone'
  BY <1>1, <1>2, <1>5, <1>6, <1>7 DEF OwnerIsAlone
<1>9. OneOwner' /\ IdsInUse'
  BY <1>1, <1>2 DEF OneOwner, IdsInUse
<1>10. \A x : GoneOrDeleting(x) => GoneOrDeleting(x)'
  BY <1>5 DEF GoneOrDeleting
<1>11. TeardownsAreEarned' /\ TeardownOnlyWhenDeleting'
  BY <1>1, <1>2, <1>5, <1>10 DEF TeardownsAreEarned, IsCancelled, TeardownOnlyWhenDeleting
<1>12. ReconcilesAlone'
  BY <1>1, <1>2, <1>5, <1>6 DEF ReconcilesAlone
<1>. QED  BY <1>8, <1>9, <1>11, <1>12
-----------------------------------------------------------------------------
(* A call that has read its row; its copy is the row as it is now.         *)
LEMMA CallKeepsOwnership ==
  ASSUME TableOK, Ownership, NEW c \in Live, NEW by,
         proc = "serving", proc' = proc, restart' = restart,
         deletes' = deletes \cup {Call(by, c)}, sweep' \subseteq sweep,
         UNCHANGED <<rows, used, launching, tokens, spawns, teardowns>>
  PROVE  Ownership'
<1>. DEFINE d == Call(by, c)
<1>0. d.cluster = rows[c] /\ d.cluster.id = c /\ d.pc = "write" /\ c \in used
  BY RowIds DEF Call
<1>. HIDE DEF d
<1>1. deletes' = deletes \cup {d}
  BY DEF d
<1>. USE DEF Ownership
<1>2. \A x : Owned(x)' <=> Owned(x)
  BY DEF Owned
<1>3. OwnerIsAlone'
  BY <1>0, <1>1, <1>2 DEF OwnerIsAlone, Live
<1>4. OneOwner' /\ IdsInUse' /\ TeardownOnlyWhenDeleting'
  BY <1>0, <1>1 DEF OneOwner, IdsInUse, TeardownOnlyWhenDeleting, Live
<1>5. TeardownsAreEarned'
  BY <1>0, <1>1 DEF TeardownsAreEarned, IsCancelled, GoneOrDeleting, Live
<1>6. ReconcilesAlone'
  BY DEF ReconcilesAlone, Live
<1>. QED  BY <1>3, <1>4, <1>5, <1>6

LEMMA DeleteWriteKeepsOwnership ==
  ASSUME TasksOK, Ownership, NEW d \in deletes, DeleteWrite(d)
  PROVE  Ownership'
<1>. DEFINE c == d.cluster.id
            e == [d EXCEPT !.pc = "dispatch"]
<1>0. /\ proc = "serving" /\ restart = {}
      /\ UNCHANGED <<used, launching, tokens, spawns, sweep, teardowns, process>>
  BY Serving DEF DeleteWrite
<1>1. e.cluster = d.cluster /\ d.cluster.id \in Clusters
  BY DeleteCallOK DEF TasksOK, DeleteCall
<1>. USE DEF Ownership, process
<1>2. \A x : Owned(x)' <=> Owned(x)
  BY <1>0 DEF Owned
<1>3. CASE deletes' = Remove(deletes, d) /\ UNCHANGED table
  <2>1. OwnerIsAlone' /\ OneOwner' /\ IdsInUse'
    BY <1>0, <1>2, <1>3 DEF OwnerIsAlone, OneOwner, IdsInUse, Remove, table, Live
  <2>2. TeardownsAreEarned' /\ ReconcilesAlone' /\ TeardownOnlyWhenDeleting'
    BY <1>0, <1>3 DEF TeardownsAreEarned, ReconcilesAlone, TeardownOnlyWhenDeleting,
                      IsCancelled, GoneOrDeleting, Remove, table, Live
  <2>. QED  BY <2>1, <2>2
<1>4. CASE WriteState(c, "Deleting") /\ deletes' = Advance(deletes, d, "dispatch")
  <2>1. /\ Live' = Live /\ c \in Live
        /\ \A x \in Live \ {c} : rows'[x] = rows[x]
    BY <1>4 DEF WriteState, UpdateState, Live
  <2>2. rows'[c].state = "Deleting"
    <3>. DEFINE r == [rows[c] EXCEPT !.state = "Deleting"]
    <3>1. r.state = "Deleting"
      BY DEF Cluster
    <3>. QED  BY <1>4, <3>1 DEF WriteState, UpdateState, Live
  <2>3. deletes' = (deletes \ {d}) \cup {e}
    BY <1>4 DEF Advance, Replace
  <2>. HIDE DEF e
  <2>4. \A x : GoneOrDeleting(x) => GoneOrDeleting(x)'
    BY <2>1, <2>2 DEF GoneOrDeleting
  <2>5. OwnerIsAlone'
    BY <1>0, <1>1, <1>2, <2>1, <2>2, <2>3 DEF OwnerIsAlone
  <2>6. OneOwner' /\ IdsInUse' /\ ReconcilesAlone'
    BY <1>0, <1>1, <2>1, <2>3 DEF OneOwner, IdsInUse, ReconcilesAlone
  <2>7. GoneOrDeleting(c)'
    BY <2>2 DEF GoneOrDeleting
  <2>8. TeardownsAreEarned' /\ TeardownOnlyWhenDeleting'
    BY <1>0, <1>1, <2>1, <2>2, <2>3, <2>4, <2>7
       DEF TeardownsAreEarned, IsCancelled, TeardownOnlyWhenDeleting
  <2>. QED  BY <2>5, <2>6, <2>8
<1>. QED  BY <1>3, <1>4 DEF DeleteWrite, Transition

(* Outcomes acted on: some calls end, and those whose outcome is to start  *)
(* a teardown may start one each.                                          *)
LEMMA TeardownsStartedKeepOwnership ==
  ASSUME TasksOK, Ownership, proc = "serving",
         NEW T, \A t \in T : \E d \in deletes :
                   /\ t.cluster.id = d.cluster.id /\ d.pc = "dispatch"
                   /\ DeleteOutcome(d.cluster.state) = "StartTeardown",
         teardowns' = teardowns \cup T, deletes' \subseteq deletes,
         UNCHANGED <<rows, used, launching, tokens, spawns, sweep, process>>
  PROVE  Ownership'
<1>. USE DEF Ownership, process
<1>1. \A x : Owned(x)' <=> Owned(x)
  BY DEF Owned
<1>2. \A t \in T : /\ GoneOrDeleting(t.cluster.id)
                   /\ t.cluster.id \in used
                   /\ ~Owned(t.cluster.id)
  <2>1. SUFFICES ASSUME NEW d \in deletes, d.pc = "dispatch",
                        DeleteOutcome(d.cluster.state) = "StartTeardown"
                 PROVE  /\ GoneOrDeleting(d.cluster.id)
                        /\ d.cluster.id \in used
                        /\ ~Owned(d.cluster.id)
    OBVIOUS
  <2>2. d.cluster.state \notin {"Spawning", "Deleting"} /\ d.cluster.id \in Clusters
    BY <2>1, DeleteCallOK DEF DeleteOutcome, TasksOK
  <2>. QED  BY <2>1, <2>2 DEF OwnerIsAlone, TeardownsAreEarned, IdsInUse
<1>3. OwnerIsAlone'
  BY <1>1, <1>2 DEF OwnerIsAlone, Live
<1>4. OneOwner' /\ IdsInUse' /\ ReconcilesAlone'
  BY <1>2 DEF OneOwner, IdsInUse, ReconcilesAlone, Live
<1>5. TeardownsAreEarned' /\ TeardownOnlyWhenDeleting'
  BY <1>2 DEF TeardownsAreEarned, TeardownOnlyWhenDeleting, IsCancelled, GoneOrDeleting, Live
<1>. QED  BY <1>3, <1>4, <1>5

LEMMA DeleteDispatchKeepsOwnership ==
  ASSUME TasksOK, Ownership, NEW d \in deletes, DeleteDispatch(d) \/ DeleteDropped(d)
  PROVE  Ownership'
<1>0. proc = "serving" /\ restart = {} /\ d.pc = "dispatch" /\ d \in DeleteCall
  BY Serving DEF DeleteDispatch, DeleteDropped, TasksOK
<1>1. ASSUME UNCHANGED <<rows, used, launching, tokens, spawns, sweep, teardowns, process>>,
             deletes' = Remove(deletes, d)
      PROVE  Ownership'
  <2>. DEFINE T == {}
  <2>1. /\ \A t \in T : \E e \in deletes :
                  /\ t.cluster.id = e.cluster.id /\ e.pc = "dispatch"
                  /\ DeleteOutcome(e.cluster.state) = "StartTeardown"
        /\ teardowns' = teardowns \cup T
        /\ deletes' \subseteq deletes
    BY <1>1 DEF Remove
  <2>. HIDE DEF T
  <2>. QED  BY <1>0, <1>1, <2>1, TeardownsStartedKeepOwnership
<1>2. CASE DeleteDropped(d)
  BY <1>1, <1>2 DEF DeleteDropped, table
<1>3. CASE DeleteDispatch(d) /\ UNCHANGED <<tokens, teardowns>>
  BY <1>1, <1>3 DEF DeleteDispatch, table
<1>4. CASE /\ DeleteDispatch(d) /\ UNCHANGED tokens
           /\ DeleteOutcome(d.cluster.state) = "StartTeardown"
           /\ teardowns' = teardowns \cup {StartTeardown(d.by, d.cluster)}
  <2>1. StartTeardown(d.by, d.cluster).cluster.id = d.cluster.id
    BY <1>0, DeleteCallOK DEF StartTeardown, Cluster
  <2>. DEFINE T == {StartTeardown(d.by, d.cluster)}
  <2>2. /\ \A t \in T : \E e \in deletes :
                  /\ t.cluster.id = e.cluster.id /\ e.pc = "dispatch"
                  /\ DeleteOutcome(e.cluster.state) = "StartTeardown"
        /\ teardowns' = teardowns \cup T
        /\ deletes' \subseteq deletes
    BY <1>0, <1>4, <2>1 DEF DeleteDispatch, Remove
  <2>. HIDE DEF T
  <2>. QED  BY <1>0, <1>4, <2>2, TeardownsStartedKeepOwnership DEF DeleteDispatch, table
<1>5. CASE DeleteDispatch(d) /\ Cancel(d.cluster.id) /\ UNCHANGED teardowns
  <2>. USE DEF Ownership, DeleteDispatch, table, process, Remove
  <2>1. \A x : Owned(x)' <=> Owned(x)
    BY <1>5 DEF Owned
  <2>2. OwnerIsAlone' /\ OneOwner' /\ IdsInUse'
    BY <1>5, <2>1 DEF OwnerIsAlone, OneOwner, IdsInUse, Live
  <2>3. ReconcilesAlone' /\ TeardownOnlyWhenDeleting'
    BY <1>0, <1>5 DEF ReconcilesAlone, TeardownOnlyWhenDeleting, Live
  <2>4. ASSUME NEW s \in spawns, s.pc \in DoSpawn, s.cluster.id = d.cluster.id
        PROVE  GoneOrDeleting(s.cluster.id)
    BY <1>0, <2>4, DeleteCallOK DEF OwnerIsAlone, Owned, UnwrittenPcs, GoneOrDeleting
  <2>5. \A x : x # d.cluster.id /\ IsCancelled(x)' => IsCancelled(x)
    BY <1>5 DEF Cancel, IsCancelled
  <2>6. TeardownsAreEarned'
    BY <1>5, <2>4, <2>5 DEF TeardownsAreEarned, GoneOrDeleting, Live
  <2>. QED  BY <2>2, <2>3, <2>6
<1>. QED  BY <1>2, <1>3, <1>4, <1>5 DEF DeleteDispatch

LEMMA ReaperStepKeepsOwnership ==
  ASSUME TableOK, TasksOK, Ownership, ReaperStep
  PROVE  Ownership'
<1>1. CASE ReaperList
  <2>. USE <1>1 DEF Ownership, ReaperList, table, process
  <2>1. \A x : Owned(x)' <=> Owned(x)
    BY DEF Owned
  <2>2. OwnerIsAlone' /\ OneOwner' /\ IdsInUse'
    BY <2>1 DEF OwnerIsAlone, OneOwner, IdsInUse, Live
  <2>3. TeardownsAreEarned' /\ ReconcilesAlone' /\ TeardownOnlyWhenDeleting'
    BY DEF TeardownsAreEarned, ReconcilesAlone, TeardownOnlyWhenDeleting, IsCancelled,
           GoneOrDeleting, Live
  <2>. QED  BY <2>2, <2>3
<1>2. ASSUME NEW c \in sweep, ReaperRead(c) PROVE Ownership'
  <2>1. proc = "serving"
    BY Serving
  <2>2. sweep' \subseteq sweep
    BY <1>2 DEF ReaperRead, Remove
  <2>3. CASE c \in Live /\ deletes' = deletes \cup {Call("reaper", c)}
    BY <1>2, <2>1, <2>2, <2>3, CallKeepsOwnership DEF ReaperRead, table, process
  <2>4. CASE UNCHANGED deletes
    <3>. USE <1>2, <2>4 DEF Ownership, ReaperRead, table, process
    <3>1. \A x : Owned(x)' <=> Owned(x)
      BY DEF Owned
    <3>2. OwnerIsAlone' /\ OneOwner' /\ IdsInUse'
      BY <3>1 DEF OwnerIsAlone, OneOwner, IdsInUse, Live
    <3>3. TeardownsAreEarned' /\ ReconcilesAlone' /\ TeardownOnlyWhenDeleting'
      BY <2>1 DEF TeardownsAreEarned, ReconcilesAlone, TeardownOnlyWhenDeleting, IsCancelled,
                  GoneOrDeleting, Live
    <3>. QED  BY <3>2, <3>3
  <2>. QED  BY <1>2, <2>3, <2>4 DEF ReaperRead
<1>3. CASE ReaperDispatch
  <2>. DEFINE due_ == {e \in Mine("reaper") : DeleteOutcome(e.cluster.state) = "StartTeardown"}
              T == {StartTeardown("reaper", d.cluster) : d \in due_}
  <2>1. proc = "serving"
    BY <1>3, Serving DEF ReaperDispatch, Mine
  <2>2. \A d \in deletes : StartTeardown("reaper", d.cluster).cluster.id = d.cluster.id
    <3>. SUFFICES ASSUME NEW d \in deletes
                  PROVE  StartTeardown("reaper", d.cluster).cluster.id = d.cluster.id
      OBVIOUS
    <3>1. d.cluster \in Cluster
      BY DeleteCallOK DEF TasksOK
    <3>. QED  BY <3>1 DEF StartTeardown, Cluster
  <2>3. \A d \in due_ : /\ d \in deletes /\ d.pc = "dispatch"
                        /\ DeleteOutcome(d.cluster.state) = "StartTeardown"
    BY <1>3 DEF ReaperDispatch, Mine
  <2>4. /\ \A t \in T : \E d \in deletes :
                  /\ t.cluster.id = d.cluster.id /\ d.pc = "dispatch"
                  /\ DeleteOutcome(d.cluster.state) = "StartTeardown"
        /\ teardowns' = teardowns \cup T
        /\ deletes' \subseteq deletes
    BY <1>3, <2>2, <2>3 DEF ReaperDispatch
  <2>. HIDE DEF T
  <2>. QED  BY <1>3, <2>1, <2>4, TeardownsStartedKeepOwnership DEF ReaperDispatch, table
<1>. QED  BY <1>1, <1>2, <1>3 DEF ReaperStep
-----------------------------------------------------------------------------
(* Create and launch.  A fresh id is in nobody's hands.                    *)
LEMMA CreateKeepsOwnership ==
  ASSUME TableOK, Ownership, NEW c \in Clusters, NEW o \in Owners, Create(c, o)
  PROVE  Ownership'
<1>. DEFINE n == NewCluster(c, o)
<1>0. /\ proc = "serving" /\ restart = {} /\ c \notin used /\ c \notin Live
      /\ launching' = launching \cup {n} /\ used' = used \cup {c}
      /\ UNCHANGED <<tokens, spawns, deletes, sweep, teardowns, process>>
  BY DEF Create, TableOK, Ownership, ReconcilesAlone
<1>1. /\ n.id = c /\ Live' = Live \cup {c} /\ rows'[c].state = "Spawning"
      /\ \A x \in Live : rows'[x] = rows[x]
  BY <1>0 DEF Create, TryInsert, NewCluster, Live
<1>. HIDE DEF n
<1>. USE DEF Ownership, process
<1>2. \A x : x # c => (Owned(x)' <=> Owned(x))
  BY <1>0, <1>1 DEF Owned
<1>3. OwnerIsAlone'
  BY <1>0, <1>1, <1>2 DEF OwnerIsAlone, IdsInUse
<1>4. OneOwner' /\ IdsInUse'
  BY <1>0, <1>1 DEF OneOwner, IdsInUse
<1>5. \A x : x # c /\ GoneOrDeleting(x) => GoneOrDeleting(x)'
  BY <1>1 DEF GoneOrDeleting
<1>6. TeardownsAreEarned'
  BY <1>0, <1>5 DEF TeardownsAreEarned, IdsInUse, IsCancelled
<1>7. ReconcilesAlone' /\ TeardownOnlyWhenDeleting'
  BY <1>0, <1>1 DEF ReconcilesAlone, TeardownOnlyWhenDeleting, IdsInUse
<1>. QED  BY <1>3, <1>4, <1>6, <1>7

LEMMA LaunchKeepsOwnership ==
  ASSUME TasksOK, Ownership, NEW x \in launching, LaunchSpawn(x) \/ CreateDropped(x)
  PROVE  Ownership'
<1>0. /\ proc = "serving" /\ restart = {} /\ launching' = launching \ {x}
      /\ UNCHANGED <<rows, used, deletes, sweep, teardowns, process>>
  BY Serving DEF LaunchSpawn, CreateDropped, Remove, table
<1>. USE DEF Ownership, process
<1>1. CASE CreateDropped(x)
  <2>1. UNCHANGED <<spawns, tokens>>
    BY <1>1 DEF CreateDropped
  <2>2. \A c : Owned(c)' => Owned(c)
    BY <1>0, <2>1 DEF Owned
  <2>3. OwnerIsAlone' /\ OneOwner' /\ IdsInUse'
    BY <1>0, <2>1, <2>2 DEF OwnerIsAlone, OneOwner, IdsInUse, Live
  <2>4. TeardownsAreEarned' /\ ReconcilesAlone' /\ TeardownOnlyWhenDeleting'
    BY <1>0, <2>1 DEF TeardownsAreEarned, ReconcilesAlone, TeardownOnlyWhenDeleting,
                      IsCancelled, GoneOrDeleting, Live
  <2>. QED  BY <2>3, <2>4
<1>2. CASE LaunchSpawn(x)
  <2>. DEFINE n == NewSpawn(x)
  <2>1. /\ n.cluster = x /\ n.pc = "start" /\ spawns' = spawns \cup {n}
        /\ ~IsCancelled(x.id)'
        /\ \A c : IsCancelled(c)' => IsCancelled(c)
    BY <1>2 DEF NewSpawn, LaunchSpawn, IsCancelled
  <2>. HIDE DEF n
  <2>2. \A c : Owned(c)' => Owned(c)
    BY <1>0, <2>1 DEF Owned
  <2>3. OwnerIsAlone'
    BY <1>0, <2>2 DEF OwnerIsAlone, Live
  <2>4. OneOwner' /\ IdsInUse'
    BY <1>0, <2>1 DEF OneOwner, IdsInUse
  <2>5. TeardownsAreEarned'
    BY <1>0, <2>1 DEF TeardownsAreEarned, GoneOrDeleting, Live
  <2>6. ReconcilesAlone' /\ TeardownOnlyWhenDeleting'
    BY <1>0 DEF ReconcilesAlone, TeardownOnlyWhenDeleting, Live
  <2>. QED  BY <2>3, <2>4, <2>5, <2>6
<1>. QED  BY <1>1, <1>2
-----------------------------------------------------------------------------
(* Crash, restart and reconciliation.                                      *)
LEMMA StartKeepsOwnership ==
  ASSUME TableOK, Ownership, Start
  PROVE  Ownership'
<1>. USE DEF Start, ListAll, Ownership, table, tasks
<1>0. launching = {} /\ spawns = {} /\ deletes = {} /\ sweep = {} /\ teardowns = {}
  BY DEF ReconcilesAlone
<1>1. OwnerIsAlone' /\ OneOwner' /\ TeardownsAreEarned' /\ IdsInUse' /\ TeardownOnlyWhenDeleting'
  BY <1>0 DEF OwnerIsAlone, Owned, OneOwner, TeardownsAreEarned, IdsInUse,
              TeardownOnlyWhenDeleting
<1>2. \A x \in restart' : x.id \in Live' /\ rows'[x.id] = x
  BY RowIds DEF ReconcilesAlone, Live
<1>3. ReconcilesAlone'
  BY <1>0, <1>2 DEF ReconcilesAlone
<1>. QED  BY <1>1, <1>3

LEMMA ReconcileKeepsOwnership ==
  ASSUME TableOK, ProcessOK, Ownership, ReconcileStep
  PROVE  Ownership'
<1>. USE DEF Ownership
<1>1. CASE StartServing
  <2>. USE <1>1 DEF StartServing, table, tasks
  <2>1. \A x : Owned(x)' <=> Owned(x)
    BY DEF Owned
  <2>2. OwnerIsAlone' /\ OneOwner' /\ IdsInUse'
    BY <2>1 DEF OwnerIsAlone, OneOwner, IdsInUse, Live
  <2>3. TeardownsAreEarned' /\ ReconcilesAlone' /\ TeardownOnlyWhenDeleting'
    BY DEF TeardownsAreEarned, ReconcilesAlone, TeardownOnlyWhenDeleting, IsCancelled,
           GoneOrDeleting, Live
  <2>. QED  BY <2>2, <2>3
<1>2. ASSUME NEW x \in restart, Reconciling(x, x.state),
             UNCHANGED <<used, launching, tokens, spawns, deletes, sweep, proc>>,
             Live' = Live, \A c \in Live \ {x.id} : rows'[c] = rows[c],
             \/ teardowns' = {}
             \/ rows'[x.id].state = "Deleting" /\ \A t \in teardowns' : t.cluster.id = x.id
      PROVE  Ownership'
  <2>1. /\ proc = "reconciling" /\ x.id \in Live /\ rows[x.id] = x
        /\ launching = {} /\ spawns = {} /\ deletes = {} /\ sweep = {}
        /\ teardowns = {} /\ restart' = restart \ {x}
    BY <1>2 DEF ProcessOK, ReconcilesAlone, Reconciling, Remove
  <2>2. OwnerIsAlone' /\ OneOwner' /\ TeardownsAreEarned'
    BY <1>2, <2>1 DEF OwnerIsAlone, Owned, OneOwner, TeardownsAreEarned
  <2>3. \A y \in restart' : y.id # x.id /\ y.id \in Live' /\ rows'[y.id] = y
    BY <1>2, <2>1 DEF ReconcilesAlone
  <2>4. IdsInUse' /\ ReconcilesAlone' /\ TeardownOnlyWhenDeleting'
    BY <1>2, <2>1, <2>3, RowIds DEF IdsInUse, ReconcilesAlone, TeardownOnlyWhenDeleting
  <2>. QED  BY <2>2, <2>4
<1>3. ASSUME NEW x \in restart, ReconcileFailed(x) PROVE Ownership'
  BY <1>2, <1>3 DEF ReconcileFailed, Reconciling, table, tasks, Live
<1>4. ASSUME NEW c, NEW s \in ClusterStates, WriteState(c, s)
      PROVE  Live' = Live /\ rows'[c].state = s /\ \A x \in Live \ {c} : rows'[x] = rows[x]
  <2>1. [rows[c] EXCEPT !.state = s].state = s
    BY <1>4, RowIds DEF WriteState, UpdateState, TableOK, RowsOK, Cluster
  <2>. QED  BY <1>4, <2>1 DEF WriteState, UpdateState, Live
<1>5. ASSUME NEW x \in restart, ReconcileReady(x) PROVE Ownership'
  BY <1>2, <1>4, <1>5 DEF ReconcileReady, Reconciling, ClusterStates, table, tasks, Live
<1>6. \A x \in restart : StartTeardown("reconcile", x).cluster.id = x.id
  BY DEF ProcessOK, StartTeardown, Cluster
<1>7. ASSUME NEW x \in restart, ReconcileSpawning(x) PROVE Ownership'
  BY <1>2, <1>4, <1>6, <1>7 DEF ReconcileSpawning, Reconciling, ClusterStates, table, Live
<1>8. ASSUME NEW x \in restart, ReconcileDeleting(x) PROVE Ownership'
  <2>1. rows[x.id].state = "Deleting"
    BY <1>8 DEF ReconcileDeleting, Reconciling, ReconcilesAlone
  <2>. QED  BY <1>2, <1>6, <1>8, <2>1 DEF ReconcileDeleting, Reconciling, table, Live
<1>. QED  BY <1>1, <1>3, <1>5, <1>7, <1>8 DEF ReconcileStep
-----------------------------------------------------------------------------
LEMMA StepOwnership ==
  ASSUME TypeOK, Ownership, [Next]_vars
  PROVE  Ownership'
<1>0. TableOK /\ TasksOK /\ ProcessOK
  BY DEF TypeOK
<1>1. ASSUME UNCHANGED <<rows, used, tasks, process>> PROVE Ownership'
  <2>. USE <1>1 DEF Ownership, tasks, process
  <2>1. \A x : Owned(x)' <=> Owned(x)
    BY DEF Owned
  <2>2. OwnerIsAlone' /\ OneOwner' /\ IdsInUse'
    BY <2>1 DEF OwnerIsAlone, OneOwner, IdsInUse, Live
  <2>3. TeardownsAreEarned' /\ ReconcilesAlone' /\ TeardownOnlyWhenDeleting'
    BY DEF TeardownsAreEarned, ReconcilesAlone, TeardownOnlyWhenDeleting, IsCancelled,
           GoneOrDeleting, Live
  <2>. QED  BY <2>2, <2>3
<1>2. CASE UNCHANGED vars
  BY <1>1, <1>2 DEF vars, table
<1>3. ASSUME NEW c \in Clusters, NEW o \in Owners, Create(c, o) PROVE Ownership'
  BY <1>0, <1>3, CreateKeepsOwnership
<1>4. ASSUME NEW x \in launching, LaunchSpawn(x) \/ CreateDropped(x) PROVE Ownership'
  BY <1>0, <1>4, LaunchKeepsOwnership
<1>5. ASSUME NEW s \in spawns, SpawnStep(s) PROVE Ownership'
  BY <1>0, <1>5, SpawnStepKeepsOwnership
<1>6. ASSUME NEW t \in teardowns, TeardownStep(t) PROVE Ownership'
  BY <1>0, <1>6, TeardownStepKeepsOwnership
<1>7. ASSUME NEW r \in Requests, NEW c \in Clusters, DeleteRead(r, c) PROVE Ownership'
  BY <1>0, <1>7, CallKeepsOwnership DEF DeleteRead, table, process
<1>8. ASSUME NEW d \in deletes, DeleteWrite(d) \/ DeleteDispatch(d) \/ DeleteDropped(d)
      PROVE  Ownership'
  BY <1>0, <1>8, DeleteWriteKeepsOwnership, DeleteDispatchKeepsOwnership
<1>9. ASSUME NEW c \in Clusters, BecomesDue(c) \/ ContainerExits(c) PROVE Ownership'
  BY <1>1, <1>9 DEF BecomesDue, ContainerExits, table
<1>10. CASE ReaperStep
  BY <1>0, <1>10, ReaperStepKeepsOwnership
<1>11. CASE Crash
  BY <1>11 DEF Crash, Ownership, OwnerIsAlone, Owned, OneOwner, TeardownsAreEarned, IdsInUse,
               ReconcilesAlone, TeardownOnlyWhenDeleting
<1>12. CASE Start
  BY <1>0, <1>12, StartKeepsOwnership
<1>13. CASE ReconcileStep
  BY <1>0, <1>13, ReconcileKeepsOwnership
<1>14. ASSUME NEW q \in late, LateStep(q) PROVE Ownership'
  BY <1>1, <1>14 DEF LateStep, table
<1>. QED
  BY <1>2, <1>3, <1>4, <1>5, <1>6, <1>7, <1>8, <1>9, <1>10, <1>11, <1>12, <1>13, <1>14
     DEF Next, Background

(* However handlers, tasks, faults and restarts interleave, an owned       *)
(* cluster is torn down by nobody but its owner, and whoever starts a      *)
(* teardown has seen the row made Deleting.                                *)
THEOREM OwnershipHolds == Spec => []Ownership
<1>1. Init => TypeOK /\ Ownership
  BY InitTypeOK, InitOwnership
<1>2. (TypeOK /\ Ownership) /\ [Next]_vars => (TypeOK /\ Ownership)'
  BY StepTypeOK, StepOwnership
<1>. QED  BY <1>1, <1>2, PTL DEF Spec

(* No teardown ever works on a row that is Spawning, Ready or Failed.      *)
THEOREM TeardownsSpareTheLiving == Spec => []TeardownOnlyWhenDeleting
<1>1. Ownership => TeardownOnlyWhenDeleting
  BY DEF Ownership
<1>. QED  BY <1>1, OwnershipHolds, PTL
-----------------------------------------------------------------------------
(* RowStepsLegal: what may happen to the row of a cluster.                 *)

LegalWrite(c, s) ==
  \/ s = rows[c].state
  \/ <<rows[c].state, s>> \in StateSteps
  \/ rows[c].state = "Deleting" /\ SpawnMayWrite(c) /\ s \in {"Ready", "Failed"}

LEMMA WriteIsLegal ==
  ASSUME RowsOK, NEW c, NEW s \in ClusterStates, UpdateState(c, s), LegalWrite(c, s)
  PROVE  \A x \in Clusters : RowStep(x)
<1>1. /\ Live' = Live /\ c \in Live
      /\ rows'[c] = [rows[c] EXCEPT !.state = s]
      /\ \A x \in Live \ {c} : rows'[x] = rows[x]
  BY UpdateStateOK
<1>2. SameCluster(rows[c], rows'[c]) /\ rows'[c].state = s
  BY <1>1 DEF RowsOK, Cluster, SameCluster
<1>. QED  BY <1>1, <1>2 DEF RowStep, LegalWrite, SameCluster

LEMMA StepIsLegal ==
  ASSUME TypeOK, Ownership, [Next]_vars
  PROVE  \A c \in Clusters : RowStep(c)
<1>0. TableOK /\ RowsOK /\ TasksOK /\ ProcessOK
  BY DEF TypeOK, TableOK
<1>1. ASSUME UNCHANGED rows PROVE \A c \in Clusters : RowStep(c)
  BY <1>1 DEF RowStep, SameCluster, Live
<1>2. ASSUME NEW c \in Clusters, NEW o \in Owners, Create(c, o)
      PROVE  \A x \in Clusters : RowStep(x)
  <2>1. /\ c \notin used /\ c \notin Live /\ Live' = Live \cup {c}
        /\ rows'[c].state = "Spawning" /\ \A x \in Live : rows'[x] = rows[x]
    BY <1>0, <1>2 DEF Create, TryInsert, NewCluster, TableOK, Live
  <2>. QED  BY <2>1 DEF RowStep, SameCluster
<1>3. ASSUME NEW s \in spawns, SpawnStep(s) PROVE \A x \in Clusters : RowStep(x)
  <2>. DEFINE c == s.cluster.id
  <2>1. CASE SpawnSetWorker(s) /\ SetWorker(c)
    <3>1. /\ Live' = Live /\ c \in Live
          /\ rows'[c] = [rows[c] EXCEPT !.worker = TRUE]
          /\ \A x \in Live \ {c} : rows'[x] = rows[x]
      BY <1>0, <2>1, SetWorkerOK
    <3>2. SameCluster(rows[c], rows'[c]) /\ rows'[c].state = rows[c].state
      BY <1>0, <3>1 DEF RowsOK, Cluster, SameCluster
    <3>. QED  BY <3>1, <3>2 DEF RowStep, SameCluster
  <2>2. ASSUME SpawnWrite(s), WriteState(c, Transition(SpawnEvent(s)))
        PROVE  \A x \in Clusters : RowStep(x)
    <3>1. rows[c].state \in {"Spawning", "Deleting"} /\ SpawnMayWrite(c)
      BY <1>0, <2>2, SpawnTaskOK
         DEF TasksOK, Ownership, OwnerIsAlone, Owned, UnwrittenPcs, SpawnWrite, SpawnMayWrite
    <3>2. Transition(SpawnEvent(s)) \in {"Ready", "Failed"}
      BY DEF SpawnEvent, Transition
    <3>3. LegalWrite(c, Transition(SpawnEvent(s)))
      BY <3>1, <3>2 DEF LegalWrite, StateSteps
    <3>. QED  BY <1>0, <2>2, <3>2, <3>3, WriteIsLegal DEF WriteState, ClusterStates
  <2>3. UNCHANGED rows \/ (SpawnSetWorker(s) /\ SetWorker(c))
                       \/ (SpawnWrite(s) /\ WriteState(c, Transition(SpawnEvent(s))))
    BY <1>3 DEF SpawnStep, SpawnSetWorker, SpawnPrepare, SpawnCreate, SpawnStart, SpawnHealthy,
                SpawnFails, SpawnCancelled, SpawnRecheck, SpawnWrite, SpawnFinish, table
  <2>. QED  BY <1>1, <2>1, <2>2, <2>3
<1>4. ASSUME NEW t \in teardowns, TeardownStep(t) PROVE \A x \in Clusters : RowStep(x)
  <2>1. CASE DeleteRow(t.cluster.id)
    <3>1. /\ Live' = Live \ {t.cluster.id} /\ \A x \in Live' : rows'[x] = rows[x]
      BY <1>0, <2>1, DeleteRowOK
    <3>2. t.cluster.id \in Live => rows[t.cluster.id].state = "Deleting"
      BY DEF Ownership, TeardownOnlyWhenDeleting
    <3>. QED  BY <3>1, <3>2 DEF RowStep, SameCluster
  <2>2. UNCHANGED rows \/ DeleteRow(t.cluster.id)
    BY <1>4 DEF TeardownStep, TeardownBackend, TeardownWipe, TeardownDelete, table
  <2>. QED  BY <1>1, <2>1, <2>2
<1>5. ASSUME NEW d \in deletes, DeleteWrite(d) PROVE \A x \in Clusters : RowStep(x)
  <2>1. CASE WriteState(d.cluster.id, "Deleting")
    <3>1. LegalWrite(d.cluster.id, "Deleting")
      BY <1>0, <2>1, RowIds DEF LegalWrite, StateSteps, ClusterStates, WriteState, UpdateState
    <3>. QED  BY <1>0, <2>1, <3>1, WriteIsLegal DEF WriteState, ClusterStates
  <2>. QED  BY <1>1, <1>5, <2>1 DEF DeleteWrite, Transition, table
<1>6. ASSUME NEW x \in restart, ReconcileStep, UpdateState(x.id, "Deleting"), x.state = "Spawning"
      PROVE  \A c \in Clusters : RowStep(c)
  <2>1. LegalWrite(x.id, "Deleting")
    BY <1>6 DEF Ownership, ReconcilesAlone, LegalWrite, StateSteps
  <2>. QED  BY <1>0, <1>6, <2>1, WriteIsLegal DEF ClusterStates
<1>7. ASSUME NEW x \in restart, ReconcileStep, UpdateState(x.id, "Failed"), x.state = "Ready"
      PROVE  \A c \in Clusters : RowStep(c)
  <2>1. LegalWrite(x.id, "Failed")
    BY <1>7 DEF Ownership, ReconcilesAlone, LegalWrite, StateSteps
  <2>. QED  BY <1>0, <1>7, <2>1, WriteIsLegal DEF ClusterStates
<1>8. CASE ReconcileStep
  BY <1>1, <1>6, <1>7, <1>8
     DEF ReconcileStep, ReconcileSpawning, ReconcileReady, ReconcileDeleting, ReconcileFailed,
         StartServing, Reconciling, WriteState, table
<1>9. ASSUME NEW x \in launching, LaunchSpawn(x) \/ CreateDropped(x) PROVE UNCHANGED rows
  BY <1>9 DEF LaunchSpawn, CreateDropped, table
<1>10. ASSUME NEW r \in Requests, NEW c \in Clusters, DeleteRead(r, c) PROVE UNCHANGED rows
  BY <1>10 DEF DeleteRead, table
<1>11. ASSUME NEW d \in deletes, DeleteDispatch(d) \/ DeleteDropped(d) PROVE UNCHANGED rows
  BY <1>11 DEF DeleteDispatch, DeleteDropped, table
<1>12. ASSUME NEW c \in Clusters, BecomesDue(c) \/ ContainerExits(c) PROVE UNCHANGED rows
  BY <1>12 DEF BecomesDue, ContainerExits, table
<1>13. CASE ReaperStep \/ Crash \/ Start \/ UNCHANGED vars
  BY <1>1, <1>13 DEF ReaperStep, ReaperList, ReaperRead, ReaperDispatch, Crash, Start, vars, table
<1>14. ASSUME NEW q \in late, LateStep(q) PROVE UNCHANGED rows
  BY <1>14 DEF LateStep, table
<1>. QED
  BY <1>1, <1>2, <1>3, <1>4, <1>5, <1>8, <1>9, <1>10, <1>11, <1>12, <1>13, <1>14
     DEF Next, Background

(* Every step treats every row as the lifecycle allows; the only way out   *)
(* of Deleting is a spawn task that was about to write.                    *)
THEOREM RowsStepLegally == Spec => RowStepsLegal
<1>1. TypeOK /\ Ownership /\ [Next]_vars => [\A c \in Clusters : RowStep(c)]_rows
  BY StepIsLegal
<1>. QED  BY <1>1, TypeCorrect, OwnershipHolds, PTL DEF Spec, RowStepsLegal
-----------------------------------------------------------------------------
SameCopy(x, y) == x.id = y.id /\ x.owner = y.owner /\ x.slot = y.slot

(* What a step of a spawn task does besides moving the task on to y.       *)
SpawnMove(s, y) ==
  LET c == s.cluster.id IN
  \/ /\ s.pc = "start" /\ y.pc = "prepare" /\ y.cluster.worker
     /\ SetWorker(c) /\ UNCHANGED <<teardowns, external>>
  \/ /\ s.pc \in DoSpawn /\ y.pc = "recheck" /\ y.ok = FALSE
     /\ s.cluster.worker => y.cluster.worker
     /\ UNCHANGED <<rows, teardowns, containers, files>>
     /\ late' \in {late, late \cup Awaited(s)}
  \/ /\ y.cluster = s.cluster /\ y.ok = s.ok
     /\ \/ /\ s.pc = "prepare" /\ y.pc = "create"
           /\ files' = files \cup {FileOf(s.cluster)}
           /\ UNCHANGED <<rows, teardowns, containers, late>>
        \/ /\ s.pc = "create" /\ y.pc = "run"
           /\ containers' = [containers EXCEPT ![c] = "exited"]
           /\ UNCHANGED <<rows, teardowns, files, late>>
        \/ /\ s.pc = "run" /\ y.pc = "wait"
           /\ containers' = [containers EXCEPT ![c] = "running"]
           /\ UNCHANGED <<rows, teardowns, files, late>>
        \/ /\ s.pc = "wait" /\ y.pc = "recheck" /\ UNCHANGED <<rows, teardowns, external>>
        \/ /\ s.pc \in DoSpawn \cup {"recheck"} /\ y.pc = "teardown"
           /\ teardowns' = teardowns \cup {StartTeardown("spawn", s.cluster)}
           /\ late' \in {late, late \cup Awaited(s)}
           /\ UNCHANGED <<rows, containers, files>>
        \/ /\ s.pc = "recheck" /\ y.pc = "write" /\ UNCHANGED <<rows, teardowns, external>>
        \/ /\ s.pc = "write" /\ y.pc = "finish" /\ UNCHANGED <<teardowns, external>>
           /\ \/ s.ok /\ WriteState(c, "Ready")
              \/ WriteState(c, "Failed")
              \/ UNCHANGED rows

LEMMA SpawnMoves ==
  ASSUME TasksOK, NEW s \in spawns, SpawnStep(s)
  PROVE  /\ UNCHANGED <<launching, deletes, sweep, process, used>>
         /\ \/ SpawnFinish(s) /\ spawns' = spawns \ {s} /\ UNCHANGED <<rows, teardowns, external>>
            \/ \E y : /\ spawns' = (spawns \ {s}) \cup {y}
                      /\ y.cluster \in Cluster
                      /\ SameCopy(y.cluster, s.cluster)
                      /\ SpawnMove(s, y)
<1>0. s \in SpawnTask /\ s.cluster \in Cluster
  BY SpawnTaskOK DEF TasksOK
<1>1. UNCHANGED <<launching, deletes, sweep, process, used>>
  BY DEF SpawnStep, SpawnSetWorker, SpawnPrepare, SpawnCreate, SpawnStart, SpawnHealthy,
         SpawnFails, SpawnCancelled, SpawnRecheck, SpawnWrite, SpawnFinish
<1>. DEFINE Goal == \E y : /\ spawns' = (spawns \ {s}) \cup {y}
                           /\ y.cluster \in Cluster
                           /\ SameCopy(y.cluster, s.cluster)
                           /\ SpawnMove(s, y)
<1>2. CASE SpawnSetWorker(s)
  <2>. DEFINE x == [s.cluster EXCEPT !.worker = TRUE]
              w == [s EXCEPT !.cluster = x]
              prepared == [w EXCEPT !.pc = "prepare"]
              failing == [w EXCEPT !.ok = FALSE, !.pc = "recheck"]
  <2>1. WithWorker(s) = w /\ x \in Cluster /\ SameCopy(x, s.cluster) /\ x.worker = TRUE
    BY <1>0 DEF WithWorker, SpawnTask, Cluster, SameCopy
  <2>2. \/ spawns' = Replace(spawns, s, prepared) /\ SetWorker(s.cluster.id)
        \/ spawns' = Replace(spawns, s, failing) /\ UNCHANGED rows
    BY <1>2, <2>1 DEF SpawnSetWorker, Failing
  <2>. HIDE DEF x
  <2>3. /\ prepared.cluster = x /\ prepared.pc = "prepare"
        /\ failing.cluster = x /\ failing.pc = "recheck" /\ failing.ok = FALSE
    BY <1>0 DEF SpawnTask
  <2>4. s.pc = "start" /\ UNCHANGED <<teardowns, external>>
    BY <1>2 DEF SpawnSetWorker, Running
  <2>. HIDE DEF prepared, failing
  <2>5. CASE spawns' = Replace(spawns, s, prepared) /\ SetWorker(s.cluster.id)
    <3>1. SpawnMove(s, prepared)
      BY <2>1, <2>3, <2>4, <2>5 DEF SpawnMove
    <3>. QED  BY <1>1, <2>1, <2>3, <2>5, <3>1 DEF Replace
  <2>6. CASE spawns' = Replace(spawns, s, failing) /\ UNCHANGED rows
    <3>1. SpawnMove(s, failing)
      BY <2>1, <2>3, <2>4, <2>6 DEF SpawnMove, DoSpawn, external
    <3>. QED  BY <1>1, <2>1, <2>3, <2>6, <3>1 DEF Replace
  <2>. QED  BY <2>2, <2>5, <2>6
<1>3. ASSUME NEW p \in SpawnPcs, spawns' = Advance(spawns, s, p),
             \A y : y.cluster = s.cluster /\ y.ok = s.ok /\ y.pc = p => SpawnMove(s, y)
      PROVE  Goal
  <2>. DEFINE y == [s EXCEPT !.pc = p]
  <2>1. y.cluster = s.cluster /\ y.ok = s.ok /\ y.pc = p
    BY <1>0 DEF SpawnTask
  <2>2. spawns' = (spawns \ {s}) \cup {y}
    BY <1>3 DEF Advance, Replace
  <2>. HIDE DEF y
  <2>. QED  BY <1>0, <1>3, <2>1, <2>2 DEF SameCopy
<1>4. ASSUME spawns' = Replace(spawns, s, Failing(s)),
             \A y : y.cluster = s.cluster /\ y.ok = FALSE /\ y.pc = "recheck" => SpawnMove(s, y)
      PROVE  Goal
  <2>. DEFINE y == [s EXCEPT !.ok = FALSE, !.pc = "recheck"]
  <2>1. y.cluster = s.cluster /\ y.ok = FALSE /\ y.pc = "recheck"
    BY <1>0 DEF SpawnTask
  <2>2. spawns' = (spawns \ {s}) \cup {y}
    BY <1>4 DEF Failing, Replace
  <2>. HIDE DEF y
  <2>. QED  BY <1>0, <1>4, <2>1, <2>2 DEF SameCopy
<1>5. CASE SpawnPrepare(s)
  BY <1>3, <1>5 DEF SpawnPrepare, Running, SpawnMove, SpawnPcs, table
<1>6. CASE SpawnCreate(s)
  BY <1>3, <1>6 DEF SpawnCreate, Running, SpawnMove, SpawnPcs, table
<1>6a. CASE SpawnStart(s)
  BY <1>3, <1>6a DEF SpawnStart, Running, SpawnMove, SpawnPcs, table
<1>7. CASE SpawnHealthy(s)
  BY <1>3, <1>7 DEF SpawnHealthy, Running, SpawnMove, SpawnPcs, table
<1>8. CASE SpawnFails(s)
  BY <1>4, <1>8 DEF SpawnFails, Running, SpawnMove, table
<1>9. ASSUME TeardownInline(s), s.pc \in DoSpawn \cup {"recheck"},
             UNCHANGED <<rows, containers, files>>, late' \in {late, late \cup Awaited(s)}
      PROVE  Goal
  BY <1>3, <1>9 DEF TeardownInline, SpawnMove, SpawnPcs
<1>10. CASE SpawnCancelled(s)
  BY <1>9, <1>10 DEF SpawnCancelled, table
<1>11. CASE SpawnRecheck(s)
  <2>1. ASSUME NEW st, spawns' = Replace(spawns, s, [s EXCEPT !.pc = "write", !.seen = st]),
               UNCHANGED teardowns
        PROVE  Goal
    <3>. DEFINE y == [s EXCEPT !.pc = "write", !.seen = st]
    <3>1. y.cluster = s.cluster /\ y.ok = s.ok /\ y.pc = "write"
      BY <1>0 DEF SpawnTask
    <3>2. spawns' = (spawns \ {s}) \cup {y}
      BY <2>1 DEF Replace
    <3>. HIDE DEF y
    <3>3. SpawnMove(s, y)
      BY <1>11, <2>1, <3>1 DEF SpawnRecheck, SpawnMove, table
    <3>. QED  BY <1>0, <3>1, <3>2, <3>3 DEF SameCopy
  <2>. QED  BY <1>9, <1>11, <2>1 DEF SpawnRecheck, table, external
<1>12. CASE SpawnWrite(s)
  <2>1. Transition(SpawnEvent(s)) = IF s.ok THEN "Ready" ELSE "Failed"
    BY DEF Transition, SpawnEvent
  <2>. QED  BY <1>3, <1>12, <2>1 DEF SpawnWrite, SpawnMove, SpawnPcs, table
<1>13. CASE SpawnFinish(s)
  BY <1>1, <1>13 DEF SpawnFinish, Remove, table
<1>. QED
  BY <1>1, <1>2, <1>5, <1>6, <1>6a, <1>7, <1>8, <1>10, <1>11, <1>12, <1>13 DEF SpawnStep
-----------------------------------------------------------------------------
Starts(d) == DeleteOutcome(d.cluster.state) = "StartTeardown"

(* The teardown that is started for x.                                     *)
Begun(t, x) == /\ SameCopy(t.cluster, x) /\ t.cluster.worker = x.worker
               /\ t.pc = "backend"

LEMMA StartTeardownIs ==
  ASSUME NEW x \in Cluster, NEW by
  PROVE  Begun(StartTeardown(by, x), x) /\ StartTeardown(by, x).by = by
BY DEF StartTeardown, Cluster, Begun, SameCopy

LEMMA TeardownMoves ==
  ASSUME TasksOK, NEW t \in teardowns, TeardownStep(t)
  PROVE  /\ UNCHANGED <<used, launching, spawns, deletes, sweep, process>>
         /\ \/ /\ t.pc = "delete" /\ teardowns' = teardowns \ {t} /\ UNCHANGED external
               /\ \/ DeleteRow(t.cluster.id) /\ due' = due \ {t.cluster.id}
                  \/ Fault("db") /\ UNCHANGED table
            \/ \E y : /\ teardowns' = (teardowns \ {t}) \cup {y} /\ y.cluster = t.cluster
                      /\ UNCHANGED table
                      /\ \/ /\ t.pc = "backend" /\ y.pc = IF t.cluster.worker THEN "wipe" ELSE "delete"
                            /\ UNCHANGED files
                            /\ \/ /\ containers' = [containers EXCEPT ![t.cluster.id] = "absent"]
                                  /\ UNCHANGED late
                               \/ /\ Fault("backend") /\ UNCHANGED containers
                                  /\ late' \in {late, late \cup Awaited(t)}
                         \/ /\ t.pc = "wipe" /\ y.pc = "delete" /\ UNCHANGED containers
                            /\ \/ files' = files \ FilesAt(t.cluster) /\ UNCHANGED late
                               \/ /\ Fault("exec") /\ UNCHANGED files
                                  /\ late' \in {late, late \cup Awaited(t)}
<1>0. t \in Teardown
  BY DEF TasksOK
<1>1. UNCHANGED <<used, launching, spawns, deletes, sweep, process>>
  BY DEF TeardownStep, TeardownBackend, TeardownWipe, TeardownDelete
<1>2. ASSUME NEW p, teardowns' = Advance(teardowns, t, p)
      PROVE  \E y : teardowns' = (teardowns \ {t}) \cup {y} /\ y.cluster = t.cluster /\ y.pc = p
  <2>. DEFINE y == [t EXCEPT !.pc = p]
  <2>1. y.cluster = t.cluster /\ y.pc = p
    BY <1>0 DEF Teardown
  <2>2. teardowns' = (teardowns \ {t}) \cup {y}
    BY <1>2 DEF Advance, Replace
  <2>. HIDE DEF y
  <2>. QED  BY <2>1, <2>2
<1>3. CASE TeardownDelete(t)
  BY <1>1, <1>3 DEF TeardownDelete, Remove
<1>4. CASE TeardownBackend(t)
  <2>1. PICK y : /\ teardowns' = (teardowns \ {t}) \cup {y} /\ y.cluster = t.cluster
                 /\ y.pc = IF t.cluster.worker THEN "wipe" ELSE "delete"
    BY <1>2, <1>4 DEF TeardownBackend
  <2>. QED  BY <1>1, <1>4, <2>1 DEF TeardownBackend, table
<1>5. CASE TeardownWipe(t)
  <2>1. PICK y : /\ teardowns' = (teardowns \ {t}) \cup {y} /\ y.cluster = t.cluster
                 /\ y.pc = "delete"
    BY <1>2, <1>5 DEF TeardownWipe
  <2>. QED  BY <1>1, <1>5, <2>1 DEF TeardownWipe, table
<1>. QED  BY <1>3, <1>4, <1>5 DEF TeardownStep

LEMMA DeleteMoves ==
  ASSUME TasksOK, NEW d \in deletes, DeleteWrite(d) \/ DeleteDispatch(d) \/ DeleteDropped(d)
  PROVE  /\ UNCHANGED <<used, launching, spawns, sweep, process, external>>
         /\ \/ /\ d.pc = "write" /\ deletes' = deletes \ {d} /\ UNCHANGED <<table, teardowns>>
            \/ /\ d.pc = "dispatch" /\ d.by \in Requests
               /\ deletes' = deletes \ {d} /\ UNCHANGED <<table, teardowns>>
            \/ /\ d.pc = "dispatch" /\ d.by \in Requests /\ Starts(d)
               /\ deletes' = deletes \ {d} /\ UNCHANGED table
               /\ \E t : /\ teardowns' = teardowns \cup {t}
                         /\ Begun(t, d.cluster) /\ t.by = d.by
            \/ /\ d.pc = "write" /\ UNCHANGED teardowns
               /\ WriteState(d.cluster.id, "Deleting")
               /\ \E e : /\ deletes' = (deletes \ {d}) \cup {e}
                         /\ e.cluster = d.cluster /\ e.by = d.by /\ e.pc = "dispatch"
<1>0. d \in DeleteCall /\ d.cluster \in Cluster
  BY DeleteCallOK DEF TasksOK
<1>1. UNCHANGED <<used, launching, spawns, sweep, process, external>>
  BY DEF DeleteWrite, DeleteDispatch, DeleteDropped
<1>2. CASE DeleteDropped(d)
  BY <1>1, <1>2 DEF DeleteDropped, Remove
<1>3. CASE DeleteDispatch(d)
  <2>1. /\ Begun(StartTeardown(d.by, d.cluster), d.cluster)
        /\ StartTeardown(d.by, d.cluster).by = d.by
    BY <1>0, StartTeardownIs
  <2>. QED  BY <1>1, <1>3, <2>1 DEF DeleteDispatch, Remove, Starts
<1>4. CASE DeleteWrite(d)
  <2>. DEFINE e == [d EXCEPT !.pc = "dispatch"]
  <2>1. e.cluster = d.cluster /\ e.by = d.by /\ e.pc = "dispatch"
    BY <1>0 DEF DeleteCall
  <2>2. Transition("DeleteRequested") = "Deleting"
    BY DEF Transition
  <2>3. d.pc = "write"
    BY <1>4 DEF DeleteWrite
  <2>4. CASE deletes' = Remove(deletes, d) /\ UNCHANGED table
    BY <1>1, <1>4, <2>3, <2>4 DEF DeleteWrite, Remove
  <2>5. CASE deletes' = Advance(deletes, d, "dispatch") /\ WriteState(d.cluster.id, "Deleting")
    <3>1. deletes' = (deletes \ {d}) \cup {e} /\ UNCHANGED teardowns
      BY <1>4, <2>5 DEF Advance, Replace, DeleteWrite
    <3>. HIDE DEF e
    <3>. QED  BY <1>1, <2>1, <2>3, <2>5, <3>1
  <2>. QED  BY <1>4, <2>2, <2>4, <2>5 DEF DeleteWrite
<1>. QED  BY <1>2, <1>3, <1>4

LEMMA ReaperMoves ==
  ASSUME TableOK, TasksOK, ReaperStep
  PROVE  /\ UNCHANGED <<table, used, launching, spawns, process, external>>
         /\ \/ /\ sweep = {} /\ Mine("reaper") = {} /\ sweep' = due /\ due # {}
               /\ UNCHANGED <<deletes, teardowns>>
            \/ \E c \in sweep :
                 /\ sweep' = sweep \ {c} /\ UNCHANGED teardowns
                 /\ \/ UNCHANGED deletes
                    \/ /\ c \in Live
                       /\ \E d : /\ deletes' = deletes \cup {d}
                                 /\ d.cluster = rows[c] /\ d.by = "reaper" /\ d.pc = "write"
            \/ /\ sweep = {} /\ sweep' = {}
               /\ deletes' = deletes \ Mine("reaper")
               /\ \A d \in Mine("reaper") : d.pc = "dispatch"
               /\ teardowns \subseteq teardowns'
               /\ \A t \in teardowns' \ teardowns :
                    \E d \in Mine("reaper") : Starts(d) /\ Begun(t, d.cluster)
               /\ \A t, u \in teardowns' \ teardowns :
                    t.cluster.id = u.cluster.id =>
                      \/ t = u
                      \/ \E d, e \in Mine("reaper") : /\ d # e /\ Starts(d) /\ Starts(e)
                                                    /\ d.cluster.id = e.cluster.id
               /\ \A d \in Mine("reaper") : Starts(d) =>
                    \E t \in teardowns' : t.cluster.id = d.cluster.id
<1>1. UNCHANGED <<table, used, launching, spawns, process, external>>
  BY DEF ReaperStep, ReaperList, ReaperRead, ReaperDispatch
<1>2. CASE ReaperList
  BY <1>1, <1>2 DEF ReaperList
<1>3. ASSUME NEW c \in sweep, ReaperRead(c)
      PROVE  /\ sweep' = sweep \ {c} /\ UNCHANGED teardowns
             /\ \/ UNCHANGED deletes
                \/ /\ c \in Live
                   /\ \E d : /\ deletes' = deletes \cup {d}
                             /\ d.cluster = rows[c] /\ d.by = "reaper" /\ d.pc = "write"
  <2>1. /\ Call("reaper", c).cluster = rows[c] /\ Call("reaper", c).by = "reaper"
        /\ Call("reaper", c).pc = "write"
    BY DEF Call
  <2>. QED  BY <1>3, <2>1 DEF ReaperRead, Remove
<1>4. CASE ReaperDispatch
  <2>. DEFINE mine == Mine("reaper")
              begun(d) == StartTeardown("reaper", d.cluster)
  <2>1. /\ sweep = {} /\ sweep' = {} /\ deletes' = deletes \ mine
        /\ \A d \in mine : d.pc = "dispatch"
        /\ teardowns' = teardowns \cup {begun(d) : d \in {e \in mine : Starts(e)}}
    BY <1>4 DEF ReaperDispatch, Starts
  <2>2. \A d \in mine : d.cluster \in Cluster
    BY DeleteCallOK DEF TasksOK, Mine
  <2>3. \A d \in mine : Begun(begun(d), d.cluster)
    BY <2>2, StartTeardownIs
  <2>. HIDE DEF begun, mine
  <2>4. \A t \in teardowns' \ teardowns : \E d \in mine : Starts(d) /\ t = begun(d)
    BY <2>1
  <2>5. \A d \in mine : begun(d).cluster.id = d.cluster.id
    BY <2>3 DEF Begun, SameCopy
  <2>6. ASSUME NEW t \in teardowns' \ teardowns, NEW u \in teardowns' \ teardowns,
               t.cluster.id = u.cluster.id, t # u
        PROVE  \E d, e \in mine : /\ d # e /\ Starts(d) /\ Starts(e)
                                   /\ d.cluster.id = e.cluster.id
    <3>1. PICK d \in mine : Starts(d) /\ t = begun(d)
      BY <2>4
    <3>2. PICK e \in mine : Starts(e) /\ u = begun(e)
      BY <2>4
    <3>. QED  BY <2>5, <2>6, <3>1, <3>2
  <2>7. \A t \in teardowns' \ teardowns : \E d \in mine : Starts(d) /\ Begun(t, d.cluster)
    BY <2>3, <2>4
  <2>8. \A d \in mine : Starts(d) => begun(d) \in teardowns'
    BY <2>1
  <2>9. \A d \in mine : Starts(d) => \E t \in teardowns' : t.cluster.id = d.cluster.id
    BY <2>5, <2>8
  <2>10. teardowns \subseteq teardowns'
    BY <2>1
  <2>. QED  BY <1>1, <2>1, <2>6, <2>7, <2>9, <2>10 DEF mine
<1>. QED  BY <1>1, <1>2, <1>3, <1>4 DEF ReaperStep

(* How reconciliation handles the row it listed as x.                      *)
ReconcileMove(x) ==
  \/ /\ x.state # "Deleting" /\ UNCHANGED <<table, teardowns>>
     /\ x.state \in {"Ready", "Failed"} \/ Fault("db")
  \/ x.state = "Ready" /\ WriteState(x.id, "Failed") /\ UNCHANGED teardowns
  \/ /\ \/ x.state = "Spawning" /\ WriteState(x.id, "Deleting")
        \/ x.state = "Deleting" /\ UNCHANGED table
     /\ \E t : teardowns' = {t} /\ Begun(t, x)

LEMMA ReconcileMoves ==
  ASSUME ProcessOK, Ownership, ReconcileStep
  PROVE  /\ proc = "reconciling" /\ launching = {} /\ spawns = {} /\ deletes = {} /\ sweep = {}
         /\ teardowns = {}
         /\ UNCHANGED <<used, launching, spawns, deletes, sweep, external>>
         /\ \/ restart = {} /\ proc' = "serving" /\ UNCHANGED <<table, teardowns, restart>>
            \/ \E x \in restart :
                 /\ x \in Cluster /\ x.id \in Live /\ rows[x.id] = x
                 /\ restart' = restart \ {x} /\ proc' = proc
                 /\ ReconcileMove(x)
<1>1. CASE StartServing
  BY <1>1 DEF StartServing, Ownership, ReconcilesAlone, tasks
<1>2. ASSUME NEW x \in restart,
             \/ ReconcileSpawning(x) \/ ReconcileReady(x)
             \/ ReconcileDeleting(x) \/ ReconcileFailed(x)
      PROVE  /\ proc = "reconciling" /\ proc' = proc
             /\ launching = {} /\ spawns = {} /\ deletes = {} /\ sweep = {} /\ teardowns = {}
             /\ UNCHANGED <<used, launching, spawns, deletes, sweep, external>>
             /\ x \in Cluster /\ x.id \in Live /\ rows[x.id] = x
             /\ restart' = restart \ {x}
             /\ ReconcileMove(x)
  <2>1. x \in Cluster /\ Begun(StartTeardown("reconcile", x), x)
    BY StartTeardownIs DEF ProcessOK
  <2>2. /\ proc = "reconciling" /\ proc' = proc
        /\ launching = {} /\ spawns = {} /\ deletes = {} /\ sweep = {}
        /\ UNCHANGED <<used, launching, spawns, deletes, sweep, external>>
        /\ x.id \in Live /\ rows[x.id] = x
    BY <1>2 DEF ProcessOK, Ownership, ReconcilesAlone, ReconcileSpawning, ReconcileReady,
                ReconcileDeleting, ReconcileFailed, tasks
  <2>3. teardowns = {} /\ restart' = restart \ {x}
    BY <1>2 DEF ReconcileSpawning, ReconcileReady, ReconcileDeleting, ReconcileFailed,
                Reconciling, Remove
  <2>4. CASE ReconcileSpawning(x)
    BY <2>1, <2>2, <2>3, <2>4 DEF ReconcileSpawning, Reconciling, ReconcileMove
  <2>5. CASE ReconcileReady(x)
    BY <2>1, <2>2, <2>3, <2>5 DEF ReconcileReady, Reconciling, tasks, ReconcileMove
  <2>6. CASE ReconcileDeleting(x)
    BY <2>1, <2>2, <2>3, <2>6 DEF ReconcileDeleting, Reconciling, ReconcileMove
  <2>7. CASE ReconcileFailed(x)
    BY <2>1, <2>2, <2>3, <2>7 DEF ReconcileFailed, Reconciling, tasks, ReconcileMove
  <2>. QED  BY <1>2, <2>4, <2>5, <2>6, <2>7
<1>. QED  BY <1>1, <1>2 DEF ReconcileStep
-----------------------------------------------------------------------------
(* Every value that names a cluster and its place, but the rows themselves.*)
Copies == launching \cup {s.cluster : s \in spawns} \cup {d.cluster : d \in deletes}
            \cup {t.cluster : t \in teardowns} \cup {q.cluster : q \in late} \cup files

SamePlace(x) == x.id \in Live => x.owner = rows[x.id].owner /\ x.slot = rows[x.id].slot

CopiesAgree == \A x \in Copies : x.id \in used /\ SamePlace(x)

LEMMA CopiesStayRight ==
  ASSUME CopiesAgree, TableOK, TableOK', used \subseteq used',
         \A c \in Clusters : RowStep(c),
         \A y \in Copies' : \/ \E x \in Copies : SameCopy(y, x)
                            \/ \E c \in Live : SameCopy(y, rows[c])
                            \/ \E c \in Live' : SameCopy(y, rows'[c])
  PROVE  CopiesAgree'
<1>. SUFFICES ASSUME NEW y \in Copies' PROVE y.id \in used' /\ SamePlace(y)'
  BY DEF CopiesAgree
<1>1. /\ \A c \in Live : rows[c].id = c /\ c \in Clusters /\ c \in used
      /\ \A c \in Live' : rows'[c].id = c /\ c \in Clusters /\ c \in used'
  BY DEF TableOK, RowsOK
<1>2. \A c \in Live' : c \in Live \/ c \notin used
  BY <1>1 DEF RowStep
<1>3. \A c \in Live' : c \in Live => rows'[c].owner = rows[c].owner /\ rows'[c].slot = rows[c].slot
  BY <1>1 DEF RowStep, SameCluster
<1>4. CASE \E x \in Copies : SameCopy(y, x)
  BY <1>2, <1>3, <1>4 DEF CopiesAgree, SamePlace, SameCopy
<1>5. CASE \E c \in Live : SameCopy(y, rows[c])
  BY <1>1, <1>3, <1>5 DEF SamePlace, SameCopy
<1>6. CASE \E c \in Live' : SameCopy(y, rows'[c])
  BY <1>1, <1>6 DEF SamePlace, SameCopy
<1>. QED  BY <1>4, <1>5, <1>6

LEMMA StepCopies ==
  ASSUME TypeOK, Ownership, CopiesAgree, [Next]_vars
  PROVE  CopiesAgree'
<1>0. TableOK /\ TasksOK /\ ProcessOK /\ TableOK' /\ \A c \in Clusters : RowStep(c)
  BY StepTypeOK, StepIsLegal DEF TypeOK
<1>1. used \subseteq used'
  BY StepIsTableStep DEF TableStep
<1>. DEFINE Known(y) == \/ \E x \in Copies : SameCopy(y, x)
                        \/ \E c \in Live : SameCopy(y, rows[c])
                        \/ \E c \in Live' : SameCopy(y, rows'[c])
<1>. SUFFICES \A y \in Copies' : Known(y)
  BY <1>0, <1>1, CopiesStayRight
<1>2. \A x \in Copies : Known(x)
  BY DEF SameCopy
<1>3. ASSUME \A x \in launching' : Known(x), \A s \in spawns' : Known(s.cluster),
             \A d \in deletes' : Known(d.cluster), \A t \in teardowns' : Known(t.cluster),
             \A f \in files' : Known(f), \A q \in late' : Known(q.cluster)
      PROVE  \A y \in Copies' : Known(y)
  BY <1>3 DEF Copies
<1>4. /\ \A x \in launching : x \in Copies
      /\ \A s \in spawns : s.cluster \in Copies
      /\ \A d \in deletes : d.cluster \in Copies
      /\ \A t \in teardowns : t.cluster \in Copies
      /\ \A f \in files : f \in Copies
      /\ \A q \in late : q.cluster \in Copies
      /\ \A s \in spawns : \A q \in Awaited(s) : q.cluster \in Copies
      /\ \A t \in teardowns : \A q \in Awaited(t) : q.cluster \in Copies
  BY DEF Copies, Awaited
<1>5. \A y : \A x \in Copies : SameCopy(y, x) => Known(y)
  OBVIOUS
<1>6. \A y : \A c \in Live : SameCopy(y, rows[c]) \/ y = rows[c] => Known(y)
  BY DEF SameCopy
<1>. HIDE DEF Known
<1>7. ASSUME UNCHANGED <<launching, spawns, deletes, teardowns, files>>, late' \subseteq late
      PROVE  \A y \in Copies' : Known(y)
  BY <1>2, <1>7 DEF Copies
<1>8. CASE UNCHANGED vars
  BY <1>7, <1>8 DEF vars, tasks, external
<1>9. ASSUME NEW c \in Clusters, NEW o \in Owners, Create(c, o)
      PROVE  \A y \in Copies' : Known(y)
  <2>1. /\ launching' = launching \cup {NewCluster(c, o)}
        /\ UNCHANGED <<spawns, deletes, teardowns, files, late>>
    BY <1>9 DEF Create, external
  <2>2. c \in Live' /\ NewCluster(c, o) = rows'[c]
    BY <1>9 DEF Create, TryInsert, Live
  <2>3. Known(NewCluster(c, o))
    BY <2>2 DEF Known, SameCopy
  <2>. QED  BY <1>2, <1>3, <1>4, <2>1, <2>3
<1>10. ASSUME NEW x \in launching, LaunchSpawn(x) \/ CreateDropped(x)
       PROVE  \A y \in Copies' : Known(y)
  <2>1. NewSpawn(x).cluster = x
    BY DEF NewSpawn
  <2>2. /\ launching' \subseteq launching /\ spawns' \subseteq spawns \cup {NewSpawn(x)}
        /\ UNCHANGED <<deletes, teardowns, files, late>>
    BY <1>10 DEF LaunchSpawn, CreateDropped, Remove, external
  <2>3. \A s \in spawns' : Known(s.cluster)
    BY <1>2, <1>4, <2>1, <2>2
  <2>. QED  BY <1>2, <1>3, <1>4, <2>2, <2>3
<1>11. ASSUME NEW s \in spawns, SpawnStep(s) PROVE \A y \in Copies' : Known(y)
  <2>1. UNCHANGED <<launching, deletes>>
    BY <1>0, <1>11, SpawnMoves
  <2>2. CASE SpawnFinish(s)
    BY <1>2, <1>3, <1>4, <2>1, <2>2 DEF SpawnFinish, Remove, external
  <2>3. ASSUME NEW y, spawns' = (spawns \ {s}) \cup {y}, SameCopy(y.cluster, s.cluster),
               SpawnMove(s, y)
        PROVE  \A z \in Copies' : Known(z)
    <3>1. Known(y.cluster)
      BY <1>4, <1>5, <2>3
    <3>2. FileOf(s.cluster) \in Copies \/ Known(FileOf(s.cluster))
      BY <1>4, <1>5 DEF FileOf, SameCopy
    <3>3. s.cluster \in Cluster
      BY <1>0, SpawnTaskOK DEF TasksOK
    <3>4. StartTeardown("spawn", s.cluster).cluster.id = s.cluster.id
          /\ Known(StartTeardown("spawn", s.cluster).cluster)
      BY <1>4, <1>5, <3>3, StartTeardownIs DEF Begun, SameCopy
    <3>5. /\ \A f \in files' : f \in files \/ f = FileOf(s.cluster)
          /\ \A q \in late' : q \in late \/ q \in Awaited(s)
      BY <2>3 DEF SpawnMove, external
    <3>10. \A q \in late' : Known(q.cluster)
      BY <1>2, <1>4, <3>5
    <3>6. \A t \in teardowns' : t \in teardowns \/ t = StartTeardown("spawn", s.cluster)
      BY <2>3 DEF SpawnMove
    <3>7. \A f \in files' : Known(f)
      BY <1>2, <1>4, <3>2, <3>5
    <3>8. \A t \in teardowns' : Known(t.cluster)
      BY <1>2, <1>4, <3>4, <3>6
    <3>9. \A r \in spawns' : Known(r.cluster)
      BY <1>2, <1>4, <2>3, <3>1
    <3>. QED  BY <1>2, <1>3, <1>4, <2>1, <3>7, <3>8, <3>9, <3>10
  <2>. QED  BY <1>0, <1>11, <2>2, <2>3, SpawnMoves
<1>12. ASSUME NEW t \in teardowns, TeardownStep(t) PROVE \A y \in Copies' : Known(y)
  <2>1. /\ UNCHANGED <<launching, spawns, deletes>>
        /\ files' \subseteq files
        /\ \A q \in late' : q \in late \/ q \in Awaited(t)
        /\ \A u \in teardowns' : \E v \in teardowns : u.cluster = v.cluster
    BY <1>0, <1>12, TeardownMoves DEF external
  <2>. QED  BY <1>2, <1>3, <1>4, <2>1
<1>13. ASSUME NEW r \in Requests, NEW c \in Clusters, DeleteRead(r, c)
       PROVE  \A y \in Copies' : Known(y)
  <2>1. /\ c \in Live /\ deletes' = deletes \cup {Call(r, c)}
        /\ UNCHANGED <<launching, spawns, teardowns, files, late>>
    BY <1>13 DEF DeleteRead, external
  <2>2. Known(Call(r, c).cluster)
    BY <1>6, <2>1 DEF Call
  <2>. QED  BY <1>2, <1>3, <1>4, <2>1, <2>2
<1>14. ASSUME NEW d \in deletes, DeleteWrite(d) \/ DeleteDispatch(d) \/ DeleteDropped(d)
       PROVE  \A y \in Copies' : Known(y)
  <2>1. /\ UNCHANGED <<launching, spawns, files, late>>
        /\ \A e \in deletes' : \E g \in deletes : e.cluster = g.cluster
        /\ \A t \in teardowns' : t \in teardowns \/ Begun(t, d.cluster)
    BY <1>0, <1>14, DeleteMoves DEF external
  <2>2. \A t \in teardowns' : Known(t.cluster)
    BY <1>2, <1>4, <1>5, <2>1 DEF Begun
  <2>. QED  BY <1>2, <1>3, <1>4, <2>1, <2>2
<1>15. ASSUME NEW c \in Clusters, BecomesDue(c) \/ ContainerExits(c)
       PROVE  \A y \in Copies' : Known(y)
  BY <1>7, <1>15 DEF BecomesDue, ContainerExits, tasks, external
<1>16. CASE ReaperStep
  <2>1. /\ UNCHANGED <<launching, spawns, files, late>>
        /\ \A e \in deletes' : e \in deletes \/ \E c \in Live : e.cluster = rows[c]
        /\ \A t \in teardowns' : t \in teardowns \/ \E d \in deletes : Begun(t, d.cluster)
    BY <1>0, <1>16, ReaperMoves DEF external, Mine
  <2>2. \A e \in deletes' : Known(e.cluster)
    BY <1>2, <1>4, <1>6, <2>1
  <2>3. \A t \in teardowns' : Known(t.cluster)
    BY <1>2, <1>4, <1>5, <2>1 DEF Begun
  <2>. QED  BY <1>2, <1>3, <1>4, <2>1, <2>2, <2>3
<1>17. CASE Crash
  <2>1. /\ launching' = {} /\ spawns' = {} /\ deletes' = {} /\ teardowns' = {}
        /\ UNCHANGED files
        /\ \A q \in late' : q \in late \/ \E task \in spawns \cup teardowns : q \in Awaited(task)
    BY <1>17 DEF Crash
  <2>2. \A q \in late' : Known(q.cluster)
    BY <1>2, <1>4, <2>1
  <2>. QED  BY <1>2, <1>3, <1>4, <2>1, <2>2
<1>18. CASE Start
  BY <1>7, <1>18 DEF Start, tasks, external
<1>19. CASE ReconcileStep
  <2>1. UNCHANGED <<launching, spawns, deletes, files, late>>
    BY <1>0, <1>19, ReconcileMoves DEF external
  <2>2. \A t \in teardowns' : t \in teardowns \/ \E c \in Live : Begun(t, rows[c])
    BY <1>0, <1>19, ReconcileMoves DEF ReconcileMove
  <2>3. \A t \in teardowns' : Known(t.cluster)
    BY <1>2, <1>4, <1>6, <2>2 DEF Begun
  <2>. QED  BY <1>2, <1>3, <1>4, <2>1, <2>3
<1>20. ASSUME NEW q \in late, LateStep(q) PROVE \A y \in Copies' : Known(y)
  <2>1. Known(FileOf(q.cluster))
    BY <1>4, <1>5 DEF FileOf, SameCopy
  <2>2. /\ UNCHANGED <<launching, spawns, deletes, teardowns>>
        /\ late' \subseteq late /\ files' \subseteq files \cup {FileOf(q.cluster)}
    BY <1>20 DEF LateStep, LateCreate, LateRun, LateRemove, LatePrepare, LateWipe, Remove, tasks
  <2>. QED  BY <1>2, <1>3, <1>4, <2>1, <2>2
<1>. QED
  BY <1>8, <1>9, <1>10, <1>11, <1>12, <1>13, <1>14, <1>15, <1>16, <1>17, <1>18, <1>19, <1>20
     DEF Next, Background
-----------------------------------------------------------------------------
(* Orders that nobody waits for any more.  What a spawn left behind is not *)
(* overtaken by another attempt to build the cluster, and what a teardown  *)
(* left behind removes nothing from a cluster that is not Deleting.        *)
SpawnOrders    == {"prepare", "create", "run"}
TeardownOrders == {"backend", "wipe"}

Builds(s) == s.pc \in DoSpawn \/ (s.pc \in {"recheck", "write"} /\ s.ok)

Building(c) == \/ \E x \in launching : x.id = c
               \/ \E s \in spawns : s.cluster.id = c /\ Builds(s)

Done(c) == c \in used /\ ~Owned(c) /\ GoneOrDeleting(c)

LateOrders ==
  /\ \A q \in late : q.op \in SpawnOrders => q.cluster.id \in used /\ ~Building(q.cluster.id)
  /\ \A q, r \in late :
       (q.op \in SpawnOrders /\ r.op \in SpawnOrders /\ q.cluster.id = r.cluster.id) => q.op = r.op
  /\ \A q \in late : q.op \in TeardownOrders => Done(q.cluster.id)

(* A container that was created late: nobody builds on it or starts it.    *)
Orphans ==
  \A c \in Clusters : containers[c] = "orphan" =>
    /\ c \in used /\ ~Building(c)
    /\ \A q \in late : q.op = "run" => q.cluster.id # c

LEMMA InitLate == Init => LateOrders /\ Orphans
BY DEF Init, LateOrders, Orphans

(* Nobody becomes an owner, and nobody begins to build, but the handler of *)
(* a new id and the task it launches.                                      *)
LEMMA BuildersAreOld ==
  ASSUME TypeOK, Ownership, [Next]_vars
  PROVE  \A c : /\ Building(c)' => Building(c) \/ c \notin used
                /\ Owned(c)' => Owned(c) \/ c \notin used
<1>0. TableOK /\ TasksOK /\ ProcessOK
  BY DEF TypeOK
<1>. USE DEF Building, Builds, Owned
<1>1. ASSUME launching' \subseteq launching, spawns' \subseteq spawns
      PROVE  \A c : (Building(c)' => Building(c)) /\ (Owned(c)' => Owned(c))
  BY <1>1
<1>2. ASSUME NEW c \in Clusters, NEW o \in Owners, Create(c, o)
      PROVE  \A x : /\ Building(x)' => Building(x) \/ x \notin used
                    /\ Owned(x)' => Owned(x) \/ x \notin used
  <2>1. launching' = launching \cup {NewCluster(c, o)} /\ spawns' = spawns /\ c \notin used
    BY <1>2 DEF Create
  <2>2. NewCluster(c, o).id = c
    BY DEF NewCluster
  <2>. QED  BY <2>1, <2>2
<1>3. ASSUME NEW x \in launching, LaunchSpawn(x)
      PROVE  \A c : (Building(c)' => Building(c)) /\ (Owned(c)' => Owned(c))
  <2>1. launching' \subseteq launching /\ spawns' = spawns \cup {NewSpawn(x)}
    BY <1>3 DEF LaunchSpawn, Remove
  <2>2. NewSpawn(x).cluster.id = x.id
    BY DEF NewSpawn
  <2>. QED  BY <2>1, <2>2
<1>4. ASSUME NEW s \in spawns, SpawnStep(s)
      PROVE  \A c : (Building(c)' => Building(c)) /\ (Owned(c)' => Owned(c))
  <2>1. UNCHANGED launching
    BY <1>0, <1>4, SpawnMoves
  <2>2. ASSUME NEW y, spawns' = (spawns \ {s}) \cup {y}, SameCopy(y.cluster, s.cluster),
               SpawnMove(s, y)
        PROVE  \A c : (Building(c)' => Building(c)) /\ (Owned(c)' => Owned(c))
    <3>1. y.cluster.id = s.cluster.id
      BY <2>2 DEF SameCopy
    <3>2. /\ Builds(y) => Builds(s)
          /\ y.pc \in UnwrittenPcs => s.pc \in UnwrittenPcs
      BY <2>2 DEF SpawnMove, UnwrittenPcs, DoSpawn
    <3>. QED  BY <2>1, <2>2, <3>1, <3>2
  <2>. QED  BY <1>0, <1>1, <1>4, <2>1, <2>2, SpawnMoves
<1>5. ASSUME \/ UNCHANGED vars
             \/ \E x \in launching : CreateDropped(x)
             \/ \E t \in teardowns : TeardownStep(t)
             \/ \E r \in Requests, c \in Clusters : DeleteRead(r, c)
             \/ \E d \in deletes : DeleteWrite(d) \/ DeleteDispatch(d) \/ DeleteDropped(d)
             \/ \E c \in Clusters : BecomesDue(c) \/ ContainerExits(c)
             \/ \E q \in late : LateStep(q)
             \/ Crash \/ Start
      PROVE  launching' \subseteq launching /\ spawns' \subseteq spawns
  BY <1>0, <1>5, TeardownMoves, DeleteMoves
     DEF vars, tasks, CreateDropped, Remove, DeleteRead, BecomesDue, ContainerExits, LateStep,
         Crash, Start
<1>6. CASE ReaperStep \/ ReconcileStep
  BY <1>0, <1>1, <1>6, ReaperMoves, ReconcileMoves
<1>. QED  BY <1>1, <1>2, <1>3, <1>4, <1>5, <1>6 DEF Next, Background

(* A cluster that has no owner and is gone or Deleting stays like that.    *)
LEMMA DoneStaysDone ==
  ASSUME TypeOK, Ownership, [Next]_vars, NEW c \in Clusters, Done(c)
  PROVE  Done(c)'
<1>1. c \in used' /\ ~Owned(c)'
  BY BuildersAreOld, StepIsTableStep DEF Done, TableStep
<1>2. ~SpawnMayWrite(c)
  BY DEF Done, Owned, SpawnMayWrite, UnwrittenPcs
<1>3. RowStep(c)
  BY StepIsLegal
<1>4. GoneOrDeleting(c)'
  BY <1>2, <1>3 DEF Done, GoneOrDeleting, RowStep, StateSteps
<1>. QED  BY <1>1, <1>4 DEF Done

(* Where orders come from, and what a step may do while there are some.    *)
LEMMA LateMoves ==
  ASSUME TypeOK, Ownership, [Next]_vars
  PROVE  \/ /\ UNCHANGED late
            /\ \A c \in Clusters : containers'[c] = "orphan" => containers[c] = "orphan"
         \/ \E s \in spawns : /\ s.pc \in DoSpawn /\ late' \in {late, late \cup Awaited(s)}
                              /\ ~Building(s.cluster.id)'
                              /\ UNCHANGED containers
         \/ \E t \in teardowns : /\ t.pc \in TeardownOrders
                                 /\ late' \in {late, late \cup Awaited(t)}
                                 /\ UNCHANGED containers
         \/ Crash
         \/ \E q \in late : LateStep(q)
<1>0. TableOK /\ TasksOK /\ ProcessOK /\ ExternalOK
  BY DEF TypeOK
<1>. DEFINE Quiet == /\ UNCHANGED late
                     /\ \A c \in Clusters : containers'[c] = "orphan" => containers[c] = "orphan"
<1>1. UNCHANGED external => Quiet
  BY DEF external
<1>2. ASSUME NEW s \in spawns, SpawnStep(s)
      PROVE  \/ Quiet
             \/ /\ s.pc \in DoSpawn /\ late' \in {late, late \cup Awaited(s)}
                /\ ~Building(s.cluster.id)' /\ UNCHANGED containers
  <2>1. UNCHANGED launching /\ s.cluster.id \in Clusters
    BY <1>0, <1>2, SpawnMoves, SpawnTaskOK DEF TasksOK
  <2>2. ASSUME NEW y, spawns' = (spawns \ {s}) \cup {y}, SameCopy(y.cluster, s.cluster),
               SpawnMove(s, y)
        PROVE  \/ Quiet
               \/ /\ s.pc \in DoSpawn /\ late' \in {late, late \cup Awaited(s)}
                  /\ ~Building(s.cluster.id)' /\ UNCHANGED containers
    <3>1. ASSUME s.pc \in DoSpawn, ~Builds(y) PROVE ~Building(s.cluster.id)'
      <4>1. y.cluster.id = s.cluster.id
        BY <2>2 DEF SameCopy
      <4>2. /\ \A r \in spawns : r # s => r.cluster.id # s.cluster.id
            /\ \A x \in launching : x.id # s.cluster.id
        BY DEF Ownership, OneOwner
      <4>3. /\ \A r \in spawns' : r.cluster.id = s.cluster.id => r = y
            /\ \A x \in launching' : x.id # s.cluster.id
        BY <2>1, <2>2, <4>2
      <4>. QED  BY <3>1, <4>3 DEF Building, Builds
    <3>2. CASE /\ s.pc \in DoSpawn
               /\ y.pc = "teardown" \/ (y.pc = "recheck" /\ y.ok = FALSE)
               /\ late' \in {late, late \cup Awaited(s)} /\ UNCHANGED containers
      <4>1. ~Builds(y)
        BY <3>2 DEF Builds, DoSpawn
      <4>2. ~Building(s.cluster.id)'
        BY <3>1, <3>2, <4>1
      <4>. QED  BY <3>2, <4>2
    <3>3. CASE UNCHANGED <<containers, late>>
      BY <3>3
    <3>4. CASE /\ s.pc = "recheck" /\ late' \in {late, late \cup Awaited(s)}
               /\ UNCHANGED containers
      <4>1. Awaited(s) = {}
        BY <3>4 DEF Awaited, Outside
      <4>. QED  BY <3>4, <4>1
    <3>5. ASSUME NEW st \in {"exited", "running"}, UNCHANGED late,
                 containers' = [containers EXCEPT ![s.cluster.id] = st]
          PROVE  Quiet
      BY <1>0, <2>1, <3>5 DEF ExternalOK
    <3>. QED  BY <2>2, <3>2, <3>3, <3>4, <3>5 DEF SpawnMove, external
  <2>. QED  BY <1>0, <1>1, <1>2, <2>2, SpawnMoves
<1>3. ASSUME NEW t \in teardowns, TeardownStep(t)
      PROVE  \/ Quiet
             \/ /\ t.pc \in TeardownOrders /\ late' \in {late, late \cup Awaited(t)}
                /\ UNCHANGED containers
  <2>1. t.cluster.id \in Clusters
    BY <1>0, TeardownTaskOK DEF TasksOK
  <2>. QED  BY <1>0, <1>1, <1>3, <2>1, TeardownMoves DEF ExternalOK, TeardownOrders
<1>4. ASSUME NEW c \in Clusters, ContainerExits(c) PROVE Quiet
  BY <1>0, <1>4 DEF ContainerExits, ExternalOK
<1>5. ASSUME \/ UNCHANGED vars
             \/ \E c \in Clusters, o \in Owners : Create(c, o)
             \/ \E x \in launching : LaunchSpawn(x) \/ CreateDropped(x)
             \/ \E r \in Requests, c \in Clusters : DeleteRead(r, c)
             \/ \E c \in Clusters : BecomesDue(c)
             \/ \E d \in deletes : DeleteWrite(d) \/ DeleteDispatch(d) \/ DeleteDropped(d)
             \/ ReaperStep \/ Start \/ ReconcileStep
      PROVE  UNCHANGED external
  <2>1. CASE \/ UNCHANGED vars
             \/ \E c \in Clusters, o \in Owners : Create(c, o)
             \/ \E x \in launching : LaunchSpawn(x) \/ CreateDropped(x)
             \/ \E r \in Requests, c \in Clusters : DeleteRead(r, c)
             \/ \E c \in Clusters : BecomesDue(c)
             \/ Start
    BY <2>1 DEF vars, Create, LaunchSpawn, CreateDropped, DeleteRead, BecomesDue, Start
  <2>2. CASE \E d \in deletes : DeleteWrite(d) \/ DeleteDispatch(d) \/ DeleteDropped(d)
    BY <1>0, <2>2, DeleteMoves
  <2>3. CASE ReaperStep \/ ReconcileStep
    BY <1>0, <2>3, ReaperMoves, ReconcileMoves
  <2>. QED  BY <1>5, <2>1, <2>2, <2>3
<1>. HIDE DEF Quiet
<1>6. CASE Quiet
  BY <1>6 DEF Quiet
<1>. QED  BY <1>1, <1>2, <1>3, <1>4, <1>5, <1>6 DEF Next, Background

(* A step that adds orders of one task only.                               *)
LEMMA OldOrdersStay ==
  ASSUME TypeOK, Ownership, LateOrders, [Next]_vars, NEW q \in late
  PROVE  /\ q.op \in SpawnOrders => q.cluster.id \in used' /\ ~Building(q.cluster.id)'
         /\ q.op \in TeardownOrders => Done(q.cluster.id)'
<1>1. used \subseteq used' /\ q.cluster.id \in Clusters
  BY StepIsTableStep DEF TableStep, TypeOK, ExternalOK, Order, Cluster
<1>. QED  BY <1>1, BuildersAreOld, DoneStaysDone DEF LateOrders

(* What a task that gives up leaves behind.                                *)
LEMMA NewOrders ==
  ASSUME TasksOK, Ownership, [Next]_vars, TypeOK
  PROVE  /\ \A s \in spawns : \A q \in Awaited(s) :
              /\ q.op \in SpawnOrders /\ q.cluster.id = s.cluster.id /\ q.op = s.pc
              /\ q.cluster.id \in used' /\ Building(q.cluster.id)
         /\ \A t \in teardowns : \A q \in Awaited(t) :
              q.op \in TeardownOrders /\ Done(q.cluster.id)'
<1>0. used \subseteq used'
  BY StepIsTableStep DEF TableStep
<1>1. ASSUME NEW s \in spawns, NEW q \in Awaited(s)
      PROVE  /\ q.op \in SpawnOrders /\ q.cluster.id = s.cluster.id /\ q.op = s.pc
             /\ q.cluster.id \in used' /\ Building(q.cluster.id)
  <2>1. q.op = s.pc /\ q.cluster = s.cluster /\ q.op \in Outside /\ s.pc \in SpawnPcs
    BY <1>1 DEF Awaited, TasksOK, SpawnTask
  <2>2. s.pc \in SpawnOrders
    BY <2>1 DEF Outside, SpawnPcs, SpawnOrders
  <2>3. Building(s.cluster.id)
    BY <2>2 DEF Building, Builds, SpawnOrders, DoSpawn
  <2>. QED  BY <1>0, <2>1, <2>2, <2>3 DEF Ownership, IdsInUse
<1>2. ASSUME NEW t \in teardowns, NEW q \in Awaited(t)
      PROVE  q.op \in TeardownOrders /\ Done(q.cluster.id)'
  <2>1. q.op = t.pc /\ q.cluster = t.cluster /\ q.op \in Outside
    BY <1>2 DEF Awaited
  <2>2. t.pc \in TeardownOrders /\ t.cluster.id \in Clusters
    BY <2>1, TeardownTaskOK DEF Outside, TeardownOrders, TasksOK, Teardown
  <2>3. Done(t.cluster.id)
    BY <2>2 DEF Done, Ownership, IdsInUse, OwnerIsAlone, TeardownOnlyWhenDeleting, GoneOrDeleting
  <2>. QED  BY <2>1, <2>2, <2>3, DoneStaysDone
<1>. QED  BY <1>1, <1>2

LEMMA StepLate ==
  ASSUME TypeOK, Ownership, LateOrders, Orphans, [Next]_vars
  PROVE  LateOrders' /\ Orphans'
<1>. DEFINE Spent(q) == /\ q.op \in SpawnOrders => q.cluster.id \in used' /\ ~Building(q.cluster.id)'
                        /\ q.op \in TeardownOrders => Done(q.cluster.id)'
            Rivals(q, r) == /\ q.op \in SpawnOrders /\ r.op \in SpawnOrders
                            /\ q.cluster.id = r.cluster.id
<1>0. /\ TasksOK /\ ExternalOK /\ used \subseteq used'
      /\ \A c : Building(c)' => Building(c) \/ c \notin used
      /\ \A q \in late : Spent(q)
      /\ \A q, r \in late : Rivals(q, r) => q.op = r.op
  BY BuildersAreOld, StepIsTableStep, OldOrdersStay DEF TypeOK, TableStep, LateOrders
<1>1. ASSUME \A q \in late' : Spent(q),
             \A q, r \in late' : Rivals(q, r) => q.op = r.op
      PROVE  LateOrders'
  BY <1>1 DEF LateOrders
<1>2. ASSUME NEW c \in Clusters, containers[c] = "orphan",
             \A q \in late' : q.op = "run" /\ q.cluster.id = c => q \in late
      PROVE  /\ c \in used' /\ ~Building(c)'
             /\ \A q \in late' : q.op = "run" => q.cluster.id # c
  BY <1>0, <1>2 DEF Orphans
<1>3. ASSUME late' \subseteq late,
             \A c \in Clusters : containers'[c] = "orphan" => containers[c] = "orphan"
      PROVE  LateOrders' /\ Orphans'
  <2>1. LateOrders'
    BY <1>0, <1>1, <1>3
  <2>2. Orphans'
    BY <1>2, <1>3 DEF Orphans
  <2>. QED  BY <2>1, <2>2
<1>4. ASSUME NEW s \in spawns, s.pc \in DoSpawn, late' \in {late, late \cup Awaited(s)},
             ~Building(s.cluster.id)', UNCHANGED containers
      PROVE  LateOrders' /\ Orphans'
  <2>1. \A q \in Awaited(s) : /\ q.op = s.pc /\ q.cluster.id = s.cluster.id
                              /\ q.op \in SpawnOrders /\ Spent(q) /\ Building(q.cluster.id)
    <3>1. \A q \in Awaited(s) : /\ q.op \in SpawnOrders /\ q.cluster.id = s.cluster.id
                                /\ q.op = s.pc /\ q.cluster.id \in used' /\ Building(q.cluster.id)
      BY <1>0, NewOrders
    <3>. QED  BY <1>4, <3>1 DEF SpawnOrders, TeardownOrders
  <2>2. \A q \in late : q.op \in SpawnOrders => ~Building(q.cluster.id)
    BY DEF LateOrders
  <2>. HIDE DEF Spent
  <2>3. \A q \in late' : Spent(q)
    BY <1>0, <1>4, <2>1
  <2>4. \A q, r \in late' : Rivals(q, r) => q.op = r.op
    BY <1>0, <1>4, <2>1, <2>2
  <2>5. LateOrders'
    BY <1>1, <2>3, <2>4
  <2>6. Orphans'
    <3>1. \A c \in Clusters : containers[c] = "orphan" =>
            \A q \in late' : q.op = "run" /\ q.cluster.id = c => q \in late
      BY <1>4, <2>1 DEF Orphans
    <3>. QED  BY <1>2, <1>4, <3>1 DEF Orphans
  <2>. QED  BY <2>5, <2>6
<1>5. ASSUME NEW t \in teardowns, late' \in {late, late \cup Awaited(t)}, UNCHANGED containers
      PROVE  LateOrders' /\ Orphans'
  <2>1. \A q \in Awaited(t) : q.op \in TeardownOrders /\ Done(q.cluster.id)'
    BY <1>0, NewOrders
  <2>2. \A q \in Awaited(t) : q.op \notin SpawnOrders /\ q.op # "run" /\ Spent(q)
    BY <2>1 DEF SpawnOrders, TeardownOrders
  <2>3. LateOrders'
    BY <1>0, <1>1, <1>5, <2>2
  <2>4. Orphans'
    BY <1>2, <1>5, <2>2 DEF Orphans
  <2>. QED  BY <2>3, <2>4
<1>6. CASE Crash
  <2>1. /\ launching' = {} /\ spawns' = {} /\ UNCHANGED containers
        /\ \A q \in late' : q \in late \/ \E task \in spawns \cup teardowns : q \in Awaited(task)
    BY <1>6 DEF Crash
  <2>2. \A c : ~Building(c)'
    BY <2>1 DEF Building
  <2>3. ASSUME NEW q \in late' \ late
        PROVE  /\ Spent(q)
               /\ \/ q.op \in TeardownOrders
                  \/ \E s \in spawns : q.op = s.pc /\ q.cluster.id = s.cluster.id
               /\ q.op \in SpawnOrders => Building(q.cluster.id)
    BY <1>0, <2>1, <2>2, <2>3, NewOrders DEF SpawnOrders, TeardownOrders
  <2>4. \A q \in late : q.op \in SpawnOrders => ~Building(q.cluster.id)
    BY DEF LateOrders
  <2>5. \A s, r \in spawns : s.cluster.id = r.cluster.id => s = r
    BY DEF Ownership, OneOwner
  <2>. HIDE DEF Spent
  <2>6. \A q, r \in late' : Rivals(q, r) => q.op = r.op
    <3>. SUFFICES ASSUME NEW q \in late', NEW r \in late', Rivals(q, r) PROVE q.op = r.op
      OBVIOUS
    <3>1. q.op \notin TeardownOrders /\ r.op \notin TeardownOrders
      BY DEF SpawnOrders, TeardownOrders
    <3>2. q \in late <=> r \in late
      BY <2>3, <2>4
    <3>3. CASE q \in late
      BY <1>0, <3>2, <3>3
    <3>4. CASE q \notin late
      BY <2>3, <2>5, <3>1, <3>2, <3>4
    <3>. QED  BY <3>3, <3>4
  <2>7. LateOrders'
    BY <1>0, <1>1, <2>3, <2>6
  <2>8. Orphans'
    <3>1. \A c \in Clusters : containers[c] = "orphan" =>
            \A q \in late' : q.op = "run" /\ q.cluster.id = c => q \in late
      BY <2>3 DEF Orphans, SpawnOrders
    <3>. QED  BY <1>2, <2>1, <3>1 DEF Orphans
  <2>. QED  BY <2>7, <2>8
<1>7. ASSUME NEW q \in late, LateStep(q) PROVE LateOrders' /\ Orphans'
  <2>. DEFINE c == q.cluster.id
  <2>0. c \in Clusters /\ late' \subseteq late
    BY <1>0, <1>7 DEF ExternalOK, Order, Cluster, LateStep, LateCreate, LateRun, LateRemove,
                      LatePrepare, LateWipe, Remove
  <2>1. CASE LateCreate(q)
    <3>1. \A x \in Clusters : containers'[x] = "orphan" => containers[x] = "orphan" \/ x = c
      BY <1>0, <2>0, <2>1 DEF LateCreate, ExternalOK
    <3>2. q.op = "create" /\ q.op \in SpawnOrders
      BY <2>1 DEF LateCreate, SpawnOrders
    <3>3. /\ c \in used' /\ ~Building(c)'
          /\ \A r \in late : r.op = "run" => r.cluster.id # c
      BY <1>0, <3>2 DEF SpawnOrders
    <3>4. Orphans'
      BY <1>2, <2>0, <3>1, <3>3 DEF Orphans
    <3>5. LateOrders'
      BY <1>0, <1>1, <2>0
    <3>. QED  BY <3>4, <3>5
  <2>2. CASE LateRun(q) \/ LateRemove(q) \/ LatePrepare(q) \/ LateWipe(q)
    <3>1. \A x \in Clusters : containers'[x] = "orphan" => containers[x] = "orphan"
      BY <1>0, <2>0, <2>2 DEF LateRun, LateRemove, LatePrepare, LateWipe, ExternalOK
    <3>. QED  BY <1>3, <2>0, <3>1
  <2>. QED  BY <1>7, <2>1, <2>2 DEF LateStep
<1>. QED  BY <1>3, <1>4, <1>5, <1>6, <1>7, LateMoves

LEMMA LateHolds == Spec => [](LateOrders /\ Orphans)
<1>1. TypeOK /\ Ownership /\ LateOrders /\ Orphans /\ [Next]_vars => (LateOrders /\ Orphans)'
  BY StepLate
<1>. QED  BY <1>1, InitLate, TypeCorrect, OwnershipHolds, PTL DEF Spec
=============================================================================
