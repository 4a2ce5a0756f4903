----------------------------- MODULE HttpProofs -----------------------------
(***************************************************************************)
(* What a client is told is never taken back, and no cluster is given up   *)
(* without a reason.  Both rest on the ownership argument: the spawn task  *)
(* is the only one that writes a row that is not its reader's any more,    *)
(* and once it has written, nobody makes the row spawn or be Ready again.  *)
(***************************************************************************)
EXTENDS Http, ClusterOwnershipProofs

LEMMA HttpStepIsStep == [HttpNext]_httpVars => [Next]_vars
BY DEF HttpNext, httpVars, Post, Get, List, Delete, Deleted, Next
-----------------------------------------------------------------------------
(* NoNewsIsUndone                                                          *)

Known(o, c) == told[o][c] # "nothing"

(* Of a cluster a client was told Ready or Failed, the spawn has written   *)
(* its outcome.                                                            *)
GoodNews(o, c) == Known(o, c) =>
  /\ c \in used
  /\ c \in Live => rows[c].owner = o
  /\ MayFollow(told[o][c], Answer(o, c))
  /\ told[o][c] \in {"Ready", "Failed"} => ~Owned(c)

NewsInv == \A o \in Owners, c \in Clusters : GoodNews(o, c)

(* A DELETE call is about its client's own cluster, which no longer spawns *)
(* once the call has written the row.                                      *)
CallsInv ==
  \A d \in deletes : d.cluster.id \in Live =>
    /\ rows[d.cluster.id].owner = d.cluster.owner
    /\ d.pc = "dispatch" => rows[d.cluster.id].state # "Spawning"

ToldOK == told \in [Owners -> [Clusters -> Answers \cup {"nothing"}]]

LEMMA NewsSuffices == ToldOK /\ NewsInv /\ TypeOK => NoNewsIsUndone
<1>. SUFFICES ASSUME ToldOK, NewsInv, TypeOK, NEW o \in Owners, NEW c \in Clusters
              PROVE  /\ MayFollow(told[o][c], Answer(o, c))
                     /\ told[o][c] # "nothing" => c \in used /\ (c \in Live => rows[c].owner = o)
  BY DEF NoNewsIsUndone, ToldOK
<1>1. Answer(o, c) \in Answers
  BY DEF TypeOK, TableOK, RowsOK, Cluster, Answer, Visible, Answers
<1>2. CASE told[o][c] = "nothing"
  BY <1>1, <1>2 DEF MayFollow, Answers, ClusterStates
<1>3. CASE told[o][c] # "nothing"
  BY <1>3 DEF NewsInv, GoodNews, Known
<1>. QED  BY <1>2, <1>3

(* What a step does to a row that somebody knows of.                       *)
LEMMA KnownRow ==
  ASSUME TypeOK, Ownership, [Next]_vars, NEW c \in used, NEW o \in Owners,
         c \in Live => rows[c].owner = o
  PROVE  /\ c \in used'
         /\ c \in Live' => c \in Live /\ rows'[c].owner = o
         /\ c \in Live' => \/ rows'[c].state = rows[c].state
                           \/ <<rows[c].state, rows'[c].state>> \in StateSteps
                           \/ /\ rows[c].state = "Deleting" /\ Owned(c)
                              /\ rows'[c].state \in {"Ready", "Failed"}
<1>1. c \in Clusters /\ RowStep(c)
  BY StepIsLegal DEF TypeOK, TableOK
<1>2. SpawnMayWrite(c) => Owned(c)
  BY DEF SpawnMayWrite, Owned, UnwrittenPcs
<1>3. c \in used'
  BY StepIsTableStep DEF TableStep
<1>. QED  BY <1>1, <1>2, <1>3 DEF RowStep, SameCluster

(* An answer that could follow what was said can move on with the row.     *)
LEMMA FollowsOn ==
  ASSUME NEW said \in Answers, NEW a \in ClusterStates, NEW b, MayFollow(said, a),
         \/ b = a
         \/ <<a, b>> \in StateSteps
         \/ a = "Deleting" /\ b \in {"Ready", "Failed"} /\ said \notin {"Ready", "Failed"}
  PROVE  MayFollow(said, b)
<1>1. CASE said = "Spawning"
  BY <1>1 DEF MayFollow, StateSteps, ClusterStates
<1>2. CASE said = "Ready"
  BY <1>2 DEF MayFollow, StateSteps, ClusterStates
<1>3. CASE said = "Failed"
  BY <1>3 DEF MayFollow, StateSteps, ClusterStates
<1>4. CASE said = "Deleting"
  BY <1>4 DEF MayFollow, StateSteps, ClusterStates
<1>5. CASE said = "NotFound"
  BY <1>5 DEF MayFollow, ClusterStates
<1>. QED  BY <1>1, <1>2, <1>3, <1>4, <1>5 DEF Answers, ClusterStates

(* An answer that could follow what was said still can after a step.       *)
LEMMA NewsLast ==
  ASSUME TypeOK, Ownership, [Next]_vars, ToldOK, NewsInv,
         NEW o \in Owners, NEW c \in Clusters, told'[o][c] = told[o][c]
  PROVE  GoodNews(o, c)'
<1>. SUFFICES ASSUME Known(o, c)
              PROVE  /\ c \in used'
                     /\ c \in Live' => rows'[c].owner = o
                     /\ MayFollow(told[o][c], Answer(o, c)')
                     /\ told[o][c] \in {"Ready", "Failed"} => ~Owned(c)'
  BY DEF GoodNews, Known, MayFollow
<1>1. /\ c \in used /\ (c \in Live => rows[c].owner = o)
      /\ MayFollow(told[o][c], Answer(o, c))
      /\ told[o][c] \in {"Ready", "Failed"} => ~Owned(c)
      /\ told[o][c] \in Answers
  BY DEF NewsInv, GoodNews, Known, ToldOK
<1>2. c \in used' /\ (c \in Live' => rows'[c].owner = o)
  BY <1>1, KnownRow
<1>3. told[o][c] \in {"Ready", "Failed"} => ~Owned(c)'
  BY <1>1, BuildersAreOld
<1>4. MayFollow(told[o][c], Answer(o, c)')
  <2>1. CASE c \notin Live'
    <3>1. Answer(o, c)' = "NotFound"
      BY <2>1 DEF Answer, Visible
    <3>2. MayFollow(told[o][c], "NotFound")
      BY <1>1 DEF MayFollow, Answers, ClusterStates
    <3>. QED  BY <3>1, <3>2
  <2>2. CASE c \in Live'
    <3>1. /\ c \in Live /\ Answer(o, c) = rows[c].state /\ Answer(o, c)' = rows'[c].state
          /\ rows[c].state \in ClusterStates
      BY <1>1, <1>2, <2>2, KnownRow, RowIds DEF Answer, Visible, TypeOK
    <3>2. \/ rows'[c].state = rows[c].state
          \/ <<rows[c].state, rows'[c].state>> \in StateSteps
          \/ /\ rows[c].state = "Deleting" /\ Owned(c)
             /\ rows'[c].state \in {"Ready", "Failed"}
      BY <1>1, <2>2, KnownRow
    <3>3. told[o][c] \in {"Ready", "Failed"} => ~Owned(c)
      BY <1>1
    <3>. QED  BY <1>1, <3>1, <3>2, <3>3, FollowsOn
  <2>. QED  BY <2>1, <2>2
<1>. QED  BY <1>2, <1>3, <1>4

(* A client that reads the table hears good news.                          *)
LEMMA ReadingIsGood ==
  ASSUME TypeOK, Ownership, ToldOK, NewsInv, UNCHANGED vars,
         NEW o \in Owners, NEW c \in Clusters, told'[o][c] = News(o, c)
  PROVE  GoodNews(o, c)'
<1>1. UNCHANGED <<rows, used, launching, spawns>>
  BY DEF vars, table, tasks
<1>2. Answer(o, c)' = Answer(o, c) /\ Owned(c)' = Owned(c) /\ Live' = Live
  BY <1>1 DEF Answer, Visible, Live, Owned
<1>3. CASE Visible(o, c)
  <2>1. /\ told'[o][c] = rows[c].state /\ Answer(o, c) = rows[c].state
        /\ c \in Live /\ c \in used /\ rows[c].owner = o /\ rows[c].state \in ClusterStates
    BY <1>3, RowIds DEF News, Answer, Visible, TypeOK, ClusterStates
  <2>2. MayFollow(rows[c].state, rows[c].state)
    BY <2>1 DEF MayFollow, ClusterStates
  <2>3. rows[c].state \in {"Ready", "Failed"} => ~Owned(c)
    BY DEF Ownership, OwnerIsAlone
  <2>. QED  BY <1>1, <1>2, <2>1, <2>2, <2>3 DEF GoodNews, MayFollow
<1>4. CASE ~Visible(o, c)
  <2>1. Answer(o, c) = "NotFound" /\ Answer(o, c)' = "NotFound"
    BY <1>2, <1>4 DEF Answer
  <2>2. CASE Known(o, c)
    <3>1. told'[o][c] = "NotFound" /\ c \in used /\ c \notin Live
      BY <1>4, <2>1, <2>2 DEF News, Known, NewsInv, GoodNews, Visible
    <3>. QED  BY <1>1, <1>2, <2>1, <3>1 DEF GoodNews, MayFollow
  <2>3. CASE ~Known(o, c)
    BY <2>1, <2>3 DEF News, Known, GoodNews
  <2>. QED  BY <2>2, <2>3
<1>. QED  BY <1>3, <1>4
-----------------------------------------------------------------------------
(* The steps that tell a client something.                                 *)

LEMMA PostIsGood ==
  ASSUME TypeOK, Ownership, ToldOK, NewsInv,
         NEW c \in Clusters, NEW o \in Owners, Post(c, o)
  PROVE  ToldOK' /\ NewsInv'
<1>1. /\ Create(c, o) /\ c \notin used /\ c \notin Live /\ [Next]_vars
      /\ told' = [told EXCEPT ![o][c] = "Spawning"]
  BY DEF Post, Create, Next, TypeOK, TableOK
<1>2. /\ ToldOK'
      /\ told'[o][c] = "Spawning"
      /\ \A p \in Owners, d \in Clusters :
           <<p, d>> # <<o, c>> => told'[p][d] = told[p][d]
  BY <1>1 DEF ToldOK, Answers, ClusterStates
<1>3. ASSUME NEW p \in Owners, NEW d \in Clusters, <<p, d>> # <<o, c>>
      PROVE  GoodNews(p, d)'
  BY <1>1, <1>2, <1>3, NewsLast
<1>4. GoodNews(o, c)'
  <2>1. /\ c \in used' /\ c \in Live'
        /\ rows'[c].owner = o /\ rows'[c].state = "Spawning"
    BY <1>1 DEF Create, TryInsert, NewCluster, Live
  <2>2. Answer(o, c)' = "Spawning"
    BY <2>1 DEF Answer, Visible
  <2>. QED  BY <1>2, <2>1, <2>2 DEF GoodNews, MayFollow
<1>. QED  BY <1>2, <1>3, <1>4 DEF NewsInv

LEMMA ReadIsGood ==
  ASSUME TypeOK, Ownership, ToldOK, NewsInv, UNCHANGED vars,
         told' \in [Owners -> [Clusters -> Answers \cup {"nothing"}]],
         \A o \in Owners, c \in Clusters :
           told'[o][c] = told[o][c] \/ told'[o][c] = News(o, c)
  PROVE  ToldOK' /\ NewsInv'
<1>1. ASSUME NEW o \in Owners, NEW c \in Clusters PROVE GoodNews(o, c)'
  <2>1. CASE told'[o][c] = told[o][c]
    BY <2>1, NewsLast
  <2>2. CASE told'[o][c] = News(o, c)
    BY <2>2, ReadingIsGood
  <2>. QED  BY <2>1, <2>2
<1>. QED  BY <1>1 DEF ToldOK, NewsInv

LEMMA NewsOK ==
  ASSUME TypeOK, NEW o \in Owners, NEW c \in Clusters
  PROVE  News(o, c) \in Answers \cup {"nothing"}
BY RowIds DEF News, Answer, Visible, Answers, TypeOK

LEMMA GetIsGood ==
  ASSUME TypeOK, Ownership, ToldOK, NewsInv,
         NEW o \in Owners, NEW c \in Clusters, Get(o, c)
  PROVE  ToldOK' /\ NewsInv'
<1>1. /\ UNCHANGED vars
      /\ told' = [told EXCEPT ![o][c] = News(o, c)]
      /\ News(o, c) \in Answers \cup {"nothing"}
  BY NewsOK DEF Get
<1>2. told' \in [Owners -> [Clusters -> Answers \cup {"nothing"}]]
  BY <1>1 DEF ToldOK
<1>3. \A p \in Owners, d \in Clusters :
        told'[p][d] = told[p][d] \/ told'[p][d] = News(p, d)
  BY <1>1 DEF ToldOK
<1>. QED  BY <1>1, <1>2, <1>3, ReadIsGood

LEMMA ListIsGood ==
  ASSUME TypeOK, Ownership, ToldOK, NewsInv, NEW o \in Owners, List(o)
  PROVE  ToldOK' /\ NewsInv'
<1>. DEFINE heard == [c \in Clusters |-> News(o, c)]
<1>1. UNCHANGED vars /\ told' = [told EXCEPT ![o] = heard]
  BY DEF List
<1>2. heard \in [Clusters -> Answers \cup {"nothing"}]
  BY NewsOK
<1>3. \A c \in Clusters : heard[c] = News(o, c)
  OBVIOUS
<1>. HIDE DEF heard
<1>4. told' \in [Owners -> [Clusters -> Answers \cup {"nothing"}]]
  BY <1>1, <1>2 DEF ToldOK
<1>5. \A p \in Owners, d \in Clusters :
        told'[p][d] = told[p][d] \/ told'[p][d] = News(p, d)
  BY <1>1, <1>3 DEF ToldOK
<1>. QED  BY <1>1, <1>4, <1>5, ReadIsGood

LEMMA DeletedIsGood ==
  ASSUME TypeOK, Ownership, ToldOK, NewsInv, CallsInv, NEW d \in deletes, Deleted(d)
  PROVE  ToldOK' /\ NewsInv'
<1>. DEFINE o == d.cluster.owner
            c == d.cluster.id
            heard == IF told[o][c] = "NotFound" THEN told[o][c] ELSE "Deleting"
<1>1. /\ d \in DeleteCall /\ o \in Owners /\ c \in Clusters /\ c \in used
      /\ d.pc = "dispatch" /\ [Next]_vars /\ UNCHANGED <<rows, used, launching, spawns>>
  <2>1. d \in DeleteCall
    BY DEF TypeOK, TasksOK
  <2>2. o \in Owners /\ c \in Clusters
    BY <2>1, DeleteCallOK DEF Cluster
  <2>. QED  BY <2>1, <2>2 DEF Deleted, DeleteDispatch, Next, Ownership, IdsInUse, table
<1>2. told' = [told EXCEPT ![o][c] = heard] /\ heard \in Answers \cup {"nothing"}
  BY DEF Deleted, Answers, ClusterStates
<1>. HIDE DEF o, c, heard
<1>3. /\ ToldOK'
      /\ told'[o][c] = heard
      /\ \A p \in Owners, e \in Clusters :
           <<p, e>> # <<o, c>> => told'[p][e] = told[p][e]
  BY <1>1, <1>2 DEF ToldOK
<1>4. ASSUME NEW p \in Owners, NEW e \in Clusters, <<p, e>> # <<o, c>>
      PROVE  GoodNews(p, e)'
  BY <1>1, <1>3, <1>4, NewsLast
<1>5. GoodNews(o, c)'
  <2>1. CASE told[o][c] = "NotFound"
    <3>1. told'[o][c] = told[o][c]
      BY <1>3, <2>1 DEF heard
    <3>. QED  BY <1>1, <3>1, NewsLast
  <2>2. CASE told[o][c] # "NotFound"
    <3>1. told'[o][c] = "Deleting"
      BY <1>3, <2>2 DEF heard
    <3>2. /\ c \in Live => rows[c].owner = o /\ rows[c].state # "Spawning"
          /\ c \in Live => rows[c].state \in ClusterStates
          /\ rows' = rows /\ Live' = Live
      BY <1>1, RowIds DEF CallsInv, o, c, TypeOK, Live
    <3>3. Answer(o, c)' \in {"Ready", "Failed", "Deleting", "NotFound"}
      BY <3>2 DEF Answer, Visible, ClusterStates
    <3>. QED  BY <1>1, <3>1, <3>2, <3>3 DEF GoodNews, MayFollow
  <2>. QED  BY <2>1, <2>2
<1>. QED  BY <1>3, <1>4, <1>5 DEF NewsInv

LEMMA StepNews ==
  ASSUME TypeOK, Ownership, ToldOK, NewsInv, CallsInv, [HttpNext]_httpVars
  PROVE  ToldOK' /\ NewsInv'
<1>1. [Next]_vars
  BY HttpStepIsStep
<1>2. ASSUME UNCHANGED told PROVE ToldOK' /\ NewsInv'
  BY <1>1, <1>2, NewsLast DEF ToldOK, NewsInv
<1>3. ASSUME NEW r \in Requests, NEW o \in Owners, NEW c \in Clusters, Delete(r, o, c)
      PROVE  UNCHANGED told
  BY <1>3 DEF Delete
<1>. QED  BY <1>2, <1>3, PostIsGood, GetIsGood, ListIsGood, DeletedIsGood DEF HttpNext, httpVars
-----------------------------------------------------------------------------
(* The calls of DELETE and of the reaper.                                  *)

GoodCall(d) == d.cluster.id \in Live =>
  /\ rows[d.cluster.id].owner = d.cluster.owner
  /\ d.pc = "dispatch" => rows[d.cluster.id].state # "Spawning"

(* A call that nothing was done to stays good.                             *)
LEMMA CallLasts ==
  ASSUME TypeOK, Ownership, CallsInv, [Next]_vars, NEW d \in deletes
  PROVE  GoodCall(d)'
<1>. DEFINE o == d.cluster.owner
            c == d.cluster.id
<1>1. d \in DeleteCall /\ o \in Owners /\ c \in used
  <2>1. d \in DeleteCall
    BY DEF TypeOK, TasksOK
  <2>. QED  BY <2>1, DeleteCallOK DEF Cluster, Ownership, IdsInUse
<1>2. c \in Live => rows[c].owner = o /\ (d.pc = "dispatch" => rows[c].state # "Spawning")
  BY DEF CallsInv
<1>3. c \in Live' => c \in Live /\ rows'[c].owner = o
  BY <1>1, <1>2, KnownRow
<1>4. c \in Live' => \/ rows'[c].state = rows[c].state
                     \/ <<rows[c].state, rows'[c].state>> \in StateSteps
                     \/ rows'[c].state \in {"Ready", "Failed"}
  BY <1>1, <1>2, KnownRow
<1>5. c \in Live' /\ d.pc = "dispatch" => rows'[c].state # "Spawning"
  BY <1>2, <1>3, <1>4 DEF StateSteps
<1>. QED  BY <1>3, <1>5 DEF GoodCall

(* A call that appears other than with a request is one of the reaper or   *)
(* one that has just written its row.                                      *)
ReaperCalls(d) == UNCHANGED rows /\ \E c \in Live : d = Call("reaper", c)

CallWrites(d) == \E e \in deletes : /\ d = [e EXCEPT !.pc = "dispatch"]
                                    /\ WriteState(e.cluster.id, "Deleting")

LEMMA NewCalls ==
  ASSUME TypeOK, NEW d \in deletes', d \notin deletes,
         \/ \E c \in Clusters, o \in Owners : Create(c, o)
         \/ \E e \in deletes : DeleteDispatch(e)
         \/ Background
         \/ UNCHANGED vars
  PROVE  ReaperCalls(d) \/ CallWrites(d)
<1>1. CASE \E c \in sweep : ReaperRead(c)
  BY <1>1 DEF ReaperRead, ReaperCalls, table
<1>2. CASE \E e \in deletes : DeleteWrite(e)
  BY <1>2 DEF DeleteWrite, Transition, Advance, Replace, Remove, CallWrites
<1>3. \/ deletes' \subseteq deletes
      \/ \E c \in sweep : ReaperRead(c)
      \/ \E e \in deletes : DeleteWrite(e)
  <2>1. CASE \E s \in spawns : SpawnStep(s)
    BY <2>1 DEF SpawnStep, SpawnSetWorker, SpawnPrepare, SpawnCreate, SpawnStart, SpawnHealthy,
                SpawnFails, SpawnCancelled, SpawnRecheck, SpawnWrite, SpawnFinish
  <2>2. CASE \E t \in teardowns : TeardownStep(t)
    BY <2>2 DEF TeardownStep, TeardownBackend, TeardownWipe, TeardownDelete
  <2>3. CASE ReaperList \/ ReaperDispatch
    BY <2>3 DEF ReaperList, ReaperDispatch
  <2>4. CASE ReconcileStep
    BY <2>4 DEF ReconcileStep, ReconcileSpawning, ReconcileReady, ReconcileDeleting,
                ReconcileFailed, StartServing, tasks
  <2>5. CASE \/ \E c \in Clusters, o \in Owners : Create(c, o)
             \/ \E x \in launching : LaunchSpawn(x) \/ CreateDropped(x)
             \/ \E c \in Clusters : BecomesDue(c) \/ ContainerExits(c)
             \/ \E q \in late : LateStep(q)
             \/ Crash \/ Start \/ UNCHANGED vars
    BY <2>5 DEF Create, LaunchSpawn, CreateDropped, BecomesDue, ContainerExits, LateStep, Crash,
                Start, tasks, vars
  <2>6. CASE \E e \in deletes : DeleteDispatch(e) \/ DeleteDropped(e)
    BY <2>6 DEF DeleteDispatch, DeleteDropped, Remove
  <2>. QED  BY <2>1, <2>2, <2>3, <2>4, <2>5, <2>6 DEF Background, ReaperStep
<1>. QED  BY <1>1, <1>2, <1>3

LEMMA StepCalls ==
  ASSUME TypeOK, Ownership, CallsInv, [Next]_vars
  PROVE  CallsInv'
<1>1. SUFFICES ASSUME NEW d \in deletes' PROVE GoodCall(d)'
  BY DEF CallsInv, GoodCall
<1>2. CASE d \in deletes
  BY <1>2, CallLasts
<1>3. ASSUME UNCHANGED rows, NEW by, NEW c \in Live, d = Call(by, c) PROVE GoodCall(d)'
  <2>1. d.cluster = rows[c] /\ d.pc = "write" /\ rows[c].id = c
    BY <1>3, RowIds DEF Call, TypeOK
  <2>. QED  BY <1>3, <2>1 DEF GoodCall
<1>4. CASE CallWrites(d)
  <2>0. PICK e \in deletes : /\ d = [e EXCEPT !.pc = "dispatch"]
                             /\ WriteState(e.cluster.id, "Deleting")
    BY <1>4 DEF CallWrites
  <2>1. e \in DeleteCall
    BY DEF TypeOK, TasksOK
  <2>2. d.cluster = e.cluster
    BY <2>0, <2>1 DEF DeleteCall
  <2>3. RowsOK /\ UpdateState(e.cluster.id, "Deleting") /\ "Deleting" \in ClusterStates
    BY <2>0 DEF TypeOK, TableOK, WriteState, ClusterStates
  <2>4. /\ e.cluster.id \in Live
        /\ rows'[e.cluster.id] = [rows[e.cluster.id] EXCEPT !.state = "Deleting"]
    BY <2>3, UpdateStateOK
  <2>5. rows[e.cluster.id] \in Cluster /\ rows[e.cluster.id].owner = e.cluster.owner
    BY <2>3, <2>4 DEF CallsInv, RowsOK
  <2>6. /\ rows'[e.cluster.id].owner = e.cluster.owner
        /\ rows'[e.cluster.id].state = "Deleting"
    BY <2>4, <2>5 DEF Cluster
  <2>. QED  BY <2>2, <2>6 DEF GoodCall
<1>5. ASSUME NEW r \in Requests, NEW c \in Clusters, DeleteRead(r, c), d \notin deletes
      PROVE  GoodCall(d)'
  BY <1>3, <1>5 DEF DeleteRead, table
<1>6. ReaperCalls(d) => GoodCall(d)'
  BY <1>3 DEF ReaperCalls
<1>. QED  BY <1>2, <1>4, <1>5, <1>6, NewCalls DEF Next

(* Whatever a client has been told, no later answer takes it back, and a   *)
(* client is only ever told of its own clusters.                           *)
THEOREM NewsIsNeverUndone == HttpSpec => []NoNewsIsUndone
<1>. DEFINE IInv == TypeOK /\ Ownership /\ ToldOK /\ NewsInv /\ CallsInv
<1>1. HttpInit => IInv
  <2>1. HttpInit => TypeOK /\ Ownership
    BY InitTypeOK, InitOwnership DEF HttpInit
  <2>2. HttpInit => ToldOK /\ NewsInv /\ CallsInv
    BY DEF HttpInit, Init, ToldOK, NewsInv, GoodNews, Known, CallsInv
  <2>. QED  BY <2>1, <2>2
<1>2. IInv /\ [HttpNext]_httpVars => IInv'
  BY HttpStepIsStep, StepTypeOK, StepOwnership, StepNews, StepCalls
<1>3. IInv => NoNewsIsUndone
  BY NewsSuffices
<1>. HIDE DEF IInv
<1>. QED  BY <1>1, <1>2, <1>3, PTL DEF HttpSpec
-----------------------------------------------------------------------------
(* OnlyForAReason                                                          *)

(* A step that writes no state and makes no deadline go away.              *)
Quiet == \A c \in Live \cap Live' :
  rows'[c].state = rows[c].state /\ (c \in due => c \in due')

(* The three writers of a row's state.                                     *)
LEMMA Writers ==
  ASSUME TypeOK, Ownership, [Next]_vars
  PROVE  \/ Quiet
         \/ \E d \in deletes : DeleteWrite(d) /\ WriteState(d.cluster.id, "Deleting")
         \/ \E s \in spawns : /\ SpawnWrite(s)
                              /\ WriteState(s.cluster.id, Transition(SpawnEvent(s)))
         \/ proc = "reconciling"
<1>0. RowsOK
  BY DEF TypeOK, TableOK
<1>1. ASSUME UNCHANGED <<rows, due>> PROVE Quiet
  BY <1>1 DEF Quiet
<1>2. ASSUME NEW c \in Clusters, NEW o \in Owners, Create(c, o) PROVE Quiet
  <2>1. c \notin Live /\ \A x \in Live : rows'[x] = rows[x]
    BY <1>2 DEF Create, TryInsert, Live, TypeOK, TableOK
  <2>. QED  BY <1>2, <2>1 DEF Create, Quiet
<1>3. ASSUME NEW s \in spawns, SpawnStep(s)
      PROVE  \/ Quiet
             \/ SpawnWrite(s) /\ WriteState(s.cluster.id, Transition(SpawnEvent(s)))
  <2>1. CASE SpawnSetWorker(s) /\ SetWorker(s.cluster.id)
    <3>1. /\ rows'[s.cluster.id] = [rows[s.cluster.id] EXCEPT !.worker = TRUE]
          /\ \A x \in Live \ {s.cluster.id} : rows'[x] = rows[x]
          /\ s.cluster.id \in Live
      BY <1>0, <2>1, SetWorkerOK
    <3>2. rows'[s.cluster.id].state = rows[s.cluster.id].state
      BY <1>0, <3>1 DEF RowsOK, Cluster
    <3>3. due' = due
      BY <2>1 DEF SpawnSetWorker
    <3>. QED  BY <3>1, <3>2, <3>3 DEF Quiet
  <2>. QED  BY <1>1, <1>3, <2>1
       DEF SpawnStep, SpawnSetWorker, SpawnPrepare, SpawnCreate, SpawnStart, SpawnHealthy,
           SpawnFails, SpawnCancelled, SpawnRecheck, SpawnWrite, SpawnFinish, table
<1>4. ASSUME NEW t \in teardowns, TeardownStep(t) PROVE Quiet
  <2>1. CASE DeleteRow(t.cluster.id) /\ due' = due \ {t.cluster.id}
    <3>1. Live' = Live \ {t.cluster.id} /\ \A x \in Live' : rows'[x] = rows[x]
      BY <1>0, <2>1, DeleteRowOK
    <3>. QED  BY <2>1, <3>1 DEF Quiet
  <2>. QED  BY <1>1, <1>4, <2>1
       DEF TeardownStep, TeardownBackend, TeardownWipe, TeardownDelete, table
<1>5. ASSUME NEW d \in deletes, DeleteWrite(d)
      PROVE  Quiet \/ WriteState(d.cluster.id, "Deleting")
  BY <1>1, <1>5 DEF DeleteWrite, Transition, table
<1>6. CASE \/ \E c \in Clusters : BecomesDue(c) \/ ContainerExits(c)
           \/ \E q \in late : LateStep(q)
  BY <1>6 DEF BecomesDue, ContainerExits, LateStep, Quiet, table
<1>7. CASE ReconcileStep
  <2>1. proc = "reconciling"
    BY <1>7 DEF ReconcileStep, StartServing, Ownership, ReconcilesAlone
  <2>. QED  BY <2>1
<1>8. ASSUME NEW x \in launching, LaunchSpawn(x) \/ CreateDropped(x) PROVE Quiet
  BY <1>1, <1>8 DEF LaunchSpawn, CreateDropped, table
<1>9. ASSUME NEW d \in deletes, DeleteDispatch(d) \/ DeleteDropped(d) PROVE Quiet
  BY <1>1, <1>9 DEF DeleteDispatch, DeleteDropped, table
<1>10. ASSUME NEW r \in Requests, NEW c \in Clusters, DeleteRead(r, c) PROVE Quiet
  BY <1>1, <1>10 DEF DeleteRead, table
<1>11. CASE ReaperStep \/ Crash \/ Start \/ UNCHANGED vars
  BY <1>1, <1>11 DEF ReaperStep, ReaperList, ReaperRead, ReaperDispatch, Crash, Start, vars, table
<1>. QED  BY <1>2, <1>3, <1>4, <1>5, <1>6, <1>7, <1>8, <1>9, <1>10, <1>11 DEF Next, Background

(* What the reaper has listed, and its calls.  Nobody owns such a cluster, *)
(* and until the reaper has made it Deleting its time is over.             *)
Reaped == sweep \cup {d.cluster.id : d \in Mine("reaper")}

GoodReap(c) ==
  /\ c \in used /\ ~Owned(c)
  /\ c \in Live => rows[c].state = "Deleting" \/ c \in due

ReapedInv == \A c \in Reaped : GoodReap(c)

(* The call of a request is one that its client has asked for.             *)
AskedInv ==
  /\ asked \in [Owners -> SUBSET Clusters]
  /\ \A d \in deletes : d.by \in Requests => d.cluster.id \in asked[d.cluster.owner]

LEMMA ReapLasts ==
  ASSUME TypeOK, Ownership, [Next]_vars, NEW c \in Reaped, GoodReap(c)
  PROVE  GoodReap(c)'
<1>1. c \in used /\ ~Owned(c) /\ (c \in Live => rows[c].state = "Deleting" \/ c \in due)
  BY DEF GoodReap
<1>2. c \in used' /\ ~Owned(c)'
  BY <1>1, BuildersAreOld, StepIsTableStep DEF TableStep
<1>3. c \in Clusters /\ c \in Live' => c \in Live
  BY <1>1, StepIsLegal DEF RowStep, TypeOK, TableOK
<1>4. proc # "reconciling"
  BY DEF Reaped, Mine, Ownership, ReconcilesAlone
<1>5. CASE Quiet
  BY <1>1, <1>2, <1>3, <1>5 DEF Quiet, GoodReap, TypeOK, TableOK
<1>6. ASSUME NEW x, NEW s \in ClusterStates, WriteState(x, s), x = c => s = "Deleting"
      PROVE  GoodReap(c)'
  <2>1. RowsOK /\ UpdateState(x, s) /\ due' = due \ {x}
    BY <1>6 DEF TypeOK, TableOK, WriteState
  <2>2. /\ Live' = Live /\ x \in Live
        /\ rows'[x] = [rows[x] EXCEPT !.state = s]
        /\ \A y \in Live \ {x} : rows'[y] = rows[y]
    BY <2>1, UpdateStateOK
  <2>3. rows'[x].state = s
    BY <2>1, <2>2 DEF RowsOK, Cluster
  <2>. QED  BY <1>1, <1>2, <1>6, <2>1, <2>2, <2>3 DEF GoodReap
<1>7. ASSUME NEW d \in deletes, WriteState(d.cluster.id, "Deleting") PROVE GoodReap(c)'
  BY <1>6, <1>7 DEF ClusterStates
<1>8. ASSUME NEW s \in spawns, SpawnWrite(s),
             WriteState(s.cluster.id, Transition(SpawnEvent(s)))
      PROVE  GoodReap(c)'
  <2>1. s.cluster.id # c
    BY <1>1, <1>8 DEF SpawnWrite, Owned, UnwrittenPcs
  <2>. QED  BY <1>6, <1>8, <2>1, TransitionsAreStates
<1>. QED  BY <1>4, <1>5, <1>7, <1>8, Writers

(* A step makes the reaper responsible for nothing but what is due.        *)
LEMMA NewReaps ==
  ASSUME TypeOK, [Next]_vars
  PROVE  \A c \in Reaped' : c \in Reaped \/ (c \in due /\ UNCHANGED table)
<1>. USE DEF Reaped, Mine
<1>1. CASE UNCHANGED <<sweep, deletes>>
  BY <1>1
<1>2. ASSUME NEW s \in spawns, SpawnStep(s) PROVE UNCHANGED <<sweep, deletes>>
  BY <1>2 DEF SpawnStep, SpawnSetWorker, SpawnPrepare, SpawnCreate, SpawnStart, SpawnHealthy,
              SpawnFails, SpawnCancelled, SpawnRecheck, SpawnWrite, SpawnFinish
<1>3. ASSUME NEW t \in teardowns, TeardownStep(t) PROVE UNCHANGED <<sweep, deletes>>
  BY <1>3 DEF TeardownStep, TeardownBackend, TeardownWipe, TeardownDelete
<1>4. CASE ReconcileStep
  BY <1>1, <1>4 DEF ReconcileStep, ReconcileSpawning, ReconcileReady, ReconcileDeleting,
                    ReconcileFailed, StartServing, tasks
<1>5. ASSUME NEW r \in Requests, NEW c \in Clusters, DeleteRead(r, c)
      PROVE  Reaped' = Reaped
  <2>1. Call(r, c).by = r /\ r # "reaper"
    BY ServiceAssumption DEF Call, System
  <2>. QED  BY <1>5, <2>1 DEF DeleteRead
<1>6. ASSUME NEW d \in deletes, DeleteWrite(d) PROVE Reaped' \subseteq Reaped
  <2>1. d \in DeleteCall
    BY DEF TypeOK, TasksOK
  <2>. DEFINE e == [d EXCEPT !.pc = "dispatch"]
  <2>2. e.by = d.by /\ e.cluster = d.cluster
    BY <2>1 DEF DeleteCall
  <2>3. sweep' = sweep /\ deletes' \subseteq deletes \cup {e}
    BY <1>6 DEF DeleteWrite, Advance, Replace, Remove
  <2>. HIDE DEF e
  <2>. QED  BY <2>2, <2>3
<1>7. ASSUME NEW d \in deletes, DeleteDispatch(d) \/ DeleteDropped(d)
      PROVE  Reaped' \subseteq Reaped
  BY <1>7 DEF DeleteDispatch, DeleteDropped, Remove
<1>8. CASE ReaperList
  BY <1>8 DEF ReaperList
<1>9. ASSUME NEW c \in sweep, ReaperRead(c) PROVE Reaped' \subseteq Reaped
  <2>1. c \in Live => Call("reaper", c).cluster.id = c
    BY RowIds DEF Call, TypeOK
  <2>2. sweep' \subseteq sweep
    BY <1>9 DEF ReaperRead, Remove
  <2>3. deletes' = deletes \/ (c \in Live /\ deletes' = deletes \cup {Call("reaper", c)})
    BY <1>9 DEF ReaperRead
  <2>. QED  BY <2>1, <2>2, <2>3
<1>10. CASE ReaperDispatch
  BY <1>10 DEF ReaperDispatch
<1>11. CASE Crash
  BY <1>11 DEF Crash
<1>12. CASE Start \/ UNCHANGED vars
  BY <1>1, <1>12 DEF Start, tasks, vars
<1>13. CASE \/ \E c \in Clusters : BecomesDue(c) \/ ContainerExits(c)
            \/ \E q \in late : LateStep(q)
  BY <1>1, <1>13 DEF BecomesDue, ContainerExits, LateStep, tasks
<1>14. ASSUME NEW x \in launching, LaunchSpawn(x) \/ CreateDropped(x)
       PROVE  UNCHANGED <<sweep, deletes>>
  BY <1>14 DEF LaunchSpawn, CreateDropped
<1>15. ASSUME NEW c \in Clusters, NEW o \in Owners, Create(c, o)
       PROVE  UNCHANGED <<sweep, deletes>>
  BY <1>15 DEF Create
<1>. QED
  BY <1>1, <1>2, <1>3, <1>4, <1>5, <1>6, <1>7, <1>8, <1>9, <1>10, <1>11, <1>12, <1>13, <1>14,
     <1>15 DEF Next, Background, ReaperStep, table

LEMMA StepReaped ==
  ASSUME TypeOK, Ownership, ReapedInv, [Next]_vars
  PROVE  ReapedInv'
<1>1. SUFFICES ASSUME NEW c \in Reaped' PROVE GoodReap(c)'
  BY DEF ReapedInv
<1>2. CASE c \in Reaped
  BY <1>2, ReapLasts DEF ReapedInv
<1>3. CASE c \in due /\ UNCHANGED table
  <2>1. c \in Live /\ c \in used /\ rows[c].state \in {"Ready", "Failed"} /\ c \in Clusters
    BY <1>3 DEF TypeOK, TableOK
  <2>2. ~Owned(c)
    BY <2>1 DEF Ownership, OwnerIsAlone
  <2>3. ~Owned(c)' /\ c \in used'
    BY <2>1, <2>2, BuildersAreOld, StepIsTableStep DEF TableStep
  <2>. QED  BY <1>3, <2>3 DEF GoodReap, table
<1>. QED  BY <1>2, <1>3, NewReaps

LEMMA StepAsked ==
  ASSUME TypeOK, Ownership, AskedInv, [HttpNext]_httpVars
  PROVE  AskedInv'
<1>1. CASE UNCHANGED deletes /\ UNCHANGED asked
  BY <1>1 DEF AskedInv
<1>2. ASSUME NEW r \in Requests, NEW o \in Owners, NEW c \in Clusters, Delete(r, o, c)
      PROVE  AskedInv'
  <2>1. /\ deletes' = deletes \cup {Call(r, c)}
        /\ asked' = [asked EXCEPT ![o] = @ \cup {c}]
        /\ c \in Live /\ rows[c].owner = o
    BY <1>2 DEF Delete, DeleteRead, Visible
  <2>2. Call(r, c).cluster.id = c /\ Call(r, c).cluster.owner = o
    BY <2>1, RowIds DEF Call, TypeOK
  <2>3. /\ asked' \in [Owners -> SUBSET Clusters]
        /\ \A p \in Owners : asked[p] \subseteq asked'[p]
        /\ c \in asked'[o]
    BY <2>1 DEF AskedInv
  <2>4. \A d \in deletes : d.cluster.owner \in Owners
    BY DEF TypeOK, TasksOK, DeleteCall, Cluster
  <2>. QED  BY <2>1, <2>2, <2>3, <2>4 DEF AskedInv
<1>3. ASSUME UNCHANGED asked,
             \/ \E c \in Clusters, o \in Owners : Create(c, o)
             \/ \E e \in deletes : DeleteDispatch(e)
             \/ Background
             \/ UNCHANGED vars
      PROVE  AskedInv'
  <2>1. ASSUME NEW d \in deletes', d \notin deletes, ReaperCalls(d) PROVE d.by \notin Requests
    BY <2>1, ServiceAssumption DEF ReaperCalls, Call, System
  <2>2. ASSUME NEW d \in deletes', CallWrites(d), d.by \in Requests
        PROVE  d.cluster.id \in asked[d.cluster.owner]
    <3>1. PICK e \in deletes : d = [e EXCEPT !.pc = "dispatch"]
      BY <2>2 DEF CallWrites
    <3>2. e \in DeleteCall
      BY DEF TypeOK, TasksOK
    <3>3. d.by = e.by /\ d.cluster = e.cluster
      BY <3>1, <3>2 DEF DeleteCall
    <3>. QED  BY <2>2, <3>3 DEF AskedInv
  <2>3. ASSUME NEW d \in deletes', d.by \in Requests PROVE d.cluster.id \in asked[d.cluster.owner]
    BY <1>3, <2>1, <2>2, <2>3, NewCalls DEF AskedInv
  <2>. QED  BY <1>3, <2>3 DEF AskedInv
<1>4. ASSUME NEW c \in Clusters, NEW o \in Owners, Post(c, o) \/ Get(o, c) PROVE AskedInv'
  BY <1>3, <1>4 DEF Post, Get
<1>5. ASSUME NEW o \in Owners, List(o) PROVE AskedInv'
  BY <1>3, <1>5 DEF List
<1>6. ASSUME NEW d \in deletes, Deleted(d) PROVE AskedInv'
  BY <1>3, <1>6 DEF Deleted
<1>7. CASE (Background /\ UNCHANGED <<told, asked>>) \/ UNCHANGED httpVars
  BY <1>3, <1>7 DEF httpVars
<1>. QED  BY <1>2, <1>4, <1>5, <1>6, <1>7 DEF HttpNext

(* The step that makes a row Deleting has one of the three reasons.        *)
LEMMA GivingUpHasAReason ==
  ASSUME TypeOK, Ownership, CallsInv, ReapedInv, AskedInv, [Next]_vars,
         NEW c \in Live, rows[c].state # "Deleting",
         c \in Live' => rows'[c].state = "Deleting"
  PROVE  c \in asked[rows[c].owner] \/ c \in due \/ proc = "reconciling"
<1>1. c \in Clusters /\ c \in Live'
  BY StepIsLegal DEF RowStep, TypeOK, TableOK, RowsOK
<1>2. ~Quiet
  BY <1>1 DEF Quiet
<1>3. ASSUME NEW x, NEW s \in ClusterStates, WriteState(x, s) PROVE x = c /\ s = "Deleting"
  <2>1. RowsOK /\ UpdateState(x, s)
    BY <1>3 DEF TypeOK, TableOK, WriteState
  <2>2. /\ x \in Live /\ rows'[x] = [rows[x] EXCEPT !.state = s]
        /\ \A y \in Live \ {x} : rows'[y] = rows[y]
    BY <2>1, UpdateStateOK
  <2>3. rows'[x].state = s
    BY <2>1, <2>2 DEF RowsOK, Cluster
  <2>. QED  BY <1>1, <2>2, <2>3
<1>4. ASSUME NEW d \in deletes, DeleteWrite(d), WriteState(d.cluster.id, "Deleting")
      PROVE  c \in asked[rows[c].owner] \/ c \in due
  <2>1. d.cluster.id = c /\ rows[c].owner = d.cluster.owner
    BY <1>3, <1>4 DEF ClusterStates, CallsInv
  <2>2. d.by \in Requests \cup {"reaper"}
    BY DEF TypeOK, TasksOK, DeleteCall
  <2>3. CASE d.by \in Requests
    BY <2>1, <2>3 DEF AskedInv
  <2>4. CASE d.by = "reaper"
    BY <2>1, <2>4 DEF ReapedInv, Reaped, Mine, GoodReap
  <2>. QED  BY <2>2, <2>3, <2>4
<1>5. ASSUME NEW s \in spawns, WriteState(s.cluster.id, Transition(SpawnEvent(s))) PROVE FALSE
  <2>1. Transition(SpawnEvent(s)) \in {"Ready", "Failed"}
    BY DEF SpawnEvent, Transition
  <2>. QED  BY <1>3, <1>5, <2>1 DEF ClusterStates
<1>. QED  BY <1>2, <1>4, <1>5, Writers

(* No cluster is given up but for a reason that its owner, its clock or a  *)
(* restart gave: one owner's requests never end another owner's clusters.  *)
THEOREM NothingGoesWithoutReason == HttpSpec => OnlyForAReason
<1>. DEFINE IInv == TypeOK /\ Ownership /\ CallsInv /\ ReapedInv /\ AskedInv
            Given == \A c \in Live :
                       rows[c].state # "Deleting" /\ (c \in Live' => rows'[c].state = "Deleting") =>
                         \/ c \in asked[rows[c].owner]
                         \/ c \in due
                         \/ proc = "reconciling"
<1>1. HttpInit => IInv
  <2>1. HttpInit => TypeOK /\ Ownership
    BY InitTypeOK, InitOwnership DEF HttpInit
  <2>2. HttpInit => CallsInv /\ ReapedInv /\ AskedInv
    BY DEF HttpInit, Init, CallsInv, ReapedInv, Reaped, Mine, AskedInv
  <2>. QED  BY <2>1, <2>2
<1>2. IInv /\ [HttpNext]_httpVars => IInv'
  BY HttpStepIsStep, StepTypeOK, StepOwnership, StepCalls, StepReaped, StepAsked
<1>3. IInv /\ [HttpNext]_httpVars => [Given]_httpVars
  BY HttpStepIsStep, GivingUpHasAReason
<1>4. HttpSpec => [][Given]_httpVars
  <2>. HIDE DEF IInv, Given
  <2>. QED  BY <1>1, <1>2, <1>3, PTL DEF HttpSpec
<1>. QED  BY <1>4 DEF OnlyForAReason
=============================================================================
