--------------------------- MODULE BackendsProofs ---------------------------
(***************************************************************************)
(* What holds of the two backends whatever the timeouts, the faults and    *)
(* their number.  Inv is inductive: to what the runs check it adds, for    *)
(* every step of a call, which resources are there by then, and which      *)
(* requests of a call that was cut short may still be on their way.        *)
(***************************************************************************)
EXTENDS Backends, FiniteSetTheorems, TLAPS

-----------------------------------------------------------------------------
(* The inductive invariant                                                 *)

(* The steps of each call, and how long a health wait has lasted at each.  *)
StepsInv ==
  /\ call.at <= Len(Sequence)
  /\ call.op = "spawn" =>
       /\ call.step \in {"createNetwork", "writeConfig", "create", "start", "poll",
                         "sleep", "extension", "ports"}
       /\ call.step \in {"createNetwork", "writeConfig"} => Stack /\ call.at = 1
       /\ call.step = "ports" => Stack /\ IsLast
       /\ call.step = "extension" => IsLast
       /\ call.step \in {"createNetwork", "writeConfig", "create", "start"} => call.now = 0
       /\ call.step = "sleep" => call.now < HealthTimeout
       /\ call.step = "poll" => call.now <= (HealthTimeout - 1) + PollInterval
  /\ call.op = "teardown" =>
       /\ call.step \in {"remove", "removeNetwork", "removeConfig"}
       /\ call.step \in {"removeNetwork", "removeConfig"} => Stack /\ IsLast
  /\ call.op = "is_alive" => call.step = "inspect"

(* The requests of this cluster name its own resources.                    *)
Own(q) ==
  \/ q.verb \in {"create", "start", "remove"} /\ q.on \in Mine
  \/ q.verb \in {"createNetwork", "removeNetwork"} /\ q.on = "network" /\ Stack
  \/ q.verb \in FileVerbs /\ q.on = "config" /\ Stack

(* Nothing exists that is not of this cluster's kind.                      *)
DaemonInv ==
  /\ \A n \in Names \ Mine : StatusOf(n) = "absent"
  /\ ~Stack => ~network /\ ~config
  /\ \A n \in Names : containers[n].health = "healthy" => n \in wasHealthy
  /\ \A q \in late : Own(q)

(* The k-th service came up.                                               *)
Built(k) == /\ StatusOf(Sequence[k]) \in {"running", "exited"}
            /\ SpecOf(Sequence[k]).health_check => Sequence[k] \in wasHealthy
Whole    == (\A k \in 1 .. Len(Sequence) : Built(k)) /\ (Stack => network /\ config)

(* Before and during the spawn: the services before this one came up, the  *)
(* ones after it are not there, and this one is as far as the step says.   *)
SpawnInv ==
  /\ answer = "none" => late = {} /\ orphans = {}
  /\ answer = "none" /\ Idle => /\ ~network /\ ~config
                                /\ \A n \in Names : StatusOf(n) = "absent"
  /\ call.op = "spawn" =>
       /\ answer = "none"
       /\ \A k \in 1 .. Len(Sequence) : /\ k < call.at => Built(k)
                                        /\ k > call.at => StatusOf(Sequence[k]) = "absent"
       /\ call.step \in {"createNetwork", "writeConfig", "create"} => StatusOf(Name) = "absent"
       /\ call.step = "start" => StatusOf(Name) = "created"
       /\ call.step \in {"poll", "sleep"} => StatusOf(Name) \in {"running", "exited"}
       /\ call.step \in {"ports", "extension"} => Built(call.at)
       /\ call.step = "createNetwork" => ~network
       /\ Stack /\ call.step # "createNetwork" => network
       /\ Stack /\ call.step \notin {"createNetwork", "writeConfig"} => config

(* What an answer says of the cluster, as long as it stands.               *)
AnswerInv ==
  /\ call.op = "is_alive" => answer \in Delivered
  /\ answer \in Delivered => late = {} /\ orphans = {} /\ (call.op # "teardown" => Whole)
  /\ Idle /\ answer \in {"gone", "deadline"} => late = {}
  /\ FailureIsHonest
  /\ call.op = "is_alive" /\ ~call.up =>
       \E k \in call.at .. Len(Sequence) : StatusOf(Sequence[k]) # "running"

(* At most one request of the spawn is late, and while it is, nothing was  *)
(* orphaned: so a late start never finds an orphan to start.               *)
Making == {"create", "start", "createNetwork", "writeConfig"}
OrphanInv ==
  /\ \A p, q \in late : p.verb \in Making /\ q.verb \in Making => p = q
  /\ \A q \in late : q.verb \in Making => orphans \subseteq {"config"}
  /\ \A r, s \in orphans \ {"config"} : r = s
  /\ \A n \in orphans \cap Names : StatusOf(n) # "running"

(* Behind a teardown only orphans are left.                                *)
TeardownInv ==
  call.op = "teardown" =>
    /\ \A k \in 1 .. Len(Sequence) : k < call.at \/ call.step # "remove" =>
         (StatusOf(Sequence[k]) # "absent" => Sequence[k] \in orphans)
    /\ call.step = "removeConfig" => (network => "network" \in orphans)

Inv == /\ TypeOK /\ StepsInv /\ DaemonInv /\ SpawnInv
       /\ AnswerInv /\ OrphanInv /\ TeardownInv
-----------------------------------------------------------------------------
(* The operators                                                           *)

(* What the proofs need of the containers' fields.                         *)
LEMMA SpecsAre ==
  /\ ~SpecOf("postgres").network /\ ~SpecOf("postgres").config /\ SpecOf("postgres").dials = {}
  /\ SpecOf("db").network /\ SpecOf("db").dials = {} /\ SpecOf("db").health_check
  /\ SpecOf("rest").network /\ SpecOf("rest").dials = {"db"}
  /\ SpecOf("auth").network /\ SpecOf("auth").dials = {"db"}
  /\ SpecOf("kong").network /\ SpecOf("kong").dials = {} /\ SpecOf("kong").health_check
  /\ SpecOf("functions").network /\ SpecOf("functions").dials = {"kong", "db"}
BY DEF SpecOf, Specs, PostgresSpec, DbSpec, RestSpec, AuthSpec, KongSpec, FunctionsSpec

(* One container or five, each with a name of its own, and each dialling   *)
(* only services that come before it and have a health check.              *)
InOrder(S, kind) ==
  /\ Len(S) = IF kind = "supabase" THEN 5 ELSE 1
  /\ Len(S) \in Nat
  /\ DOMAIN S = 1 .. Len(S)
  /\ \A k \in 1 .. Len(S) : S[k] \in Names
  /\ \A j, k \in 1 .. Len(S) : S[j] = S[k] => j = k
  /\ \A k \in 1 .. Len(S) : SpecOf(S[k]).network <=> kind = "supabase"
  /\ \A k \in 1 .. Len(S) : SpecOf(S[k]).config => kind = "supabase"
  /\ \A k \in 1 .. Len(S) : \A d \in SpecOf(S[k]).dials :
       \E j \in 1 .. k - 1 : S[j] = d /\ SpecOf(d).health_check

LEMMA ServicesInOrder ==
  ASSUME NEW kind
  PROVE  InOrder(Services(kind), kind)
<1> DEFINE S == Services(kind)
<1>1. CASE kind = "supabase"
  <2>1. S = <<"db", "rest", "auth", "kong", "functions">>
    BY <1>1 DEF Services
  <2>2. Len(S) = 5 /\ DOMAIN S = 1 .. 5
        /\ S[1] = "db" /\ S[2] = "rest" /\ S[3] = "auth"
        /\ S[4] = "kong" /\ S[5] = "functions"
    BY <2>1
  <2> HIDE DEF S
  <2>3. \A k \in 1 .. 5 : k = 1 \/ k = 2 \/ k = 3 \/ k = 4 \/ k = 5
    OBVIOUS
  <2>4. \A k \in 1 .. 5 : S[k] \in Names /\ SpecOf(S[k]).network
    BY <2>2, <2>3, SpecsAre DEF Names
  <2>5. \A j, k \in 1 .. 5 : S[j] = S[k] => j = k
    BY <2>2, <2>3
  <2>6. ASSUME NEW k \in 1 .. 5, NEW d \in SpecOf(S[k]).dials
        PROVE  \E j \in 1 .. k - 1 : S[j] = d /\ SpecOf(d).health_check
    <3>1. CASE k = 1 \/ k = 4
      BY <2>2, <2>6, <3>1, SpecsAre
    <3>2. CASE k = 2 \/ k = 3
      <4>1. d = "db" /\ 1 \in 1 .. k - 1
        BY <2>2, <2>6, <3>2, SpecsAre
      <4> QED BY <2>2, <4>1, SpecsAre
    <3>3. CASE k = 5
      <4>1. (d = "db" \/ d = "kong") /\ 1 \in 1 .. k - 1 /\ 4 \in 1 .. k - 1
        BY <2>2, <2>6, <3>3, SpecsAre
      <4> QED BY <2>2, <4>1, SpecsAre
    <3> QED BY <2>3, <3>1, <3>2, <3>3
  <2>7. InOrder(S, kind)
    BY <1>1, <2>2, <2>4, <2>5, <2>6 DEF InOrder
  <2> QED BY <2>7 DEF S
<1>2. CASE kind # "supabase"
  <2>1. S = <<"postgres">>
    BY <1>2 DEF Services
  <2>2. Len(S) = 1 /\ DOMAIN S = 1 .. 1 /\ S[1] = "postgres"
    BY <2>1
  <2> HIDE DEF S
  <2>3. \A k \in 1 .. 1 : k = 1
    OBVIOUS
  <2>4. InOrder(S, kind)
    BY <1>2, <2>2, <2>3, SpecsAre DEF InOrder, Names
  <2> QED BY <2>4 DEF S
<1> QED BY <1>1, <1>2

LEMMA SequenceInOrder == InOrder(Sequence, service)
BY ServicesInOrder DEF Sequence

(* The container a call is at is one of the cluster's own.                 *)
LEMMA NameIsOne ==
  ASSUME TypeOK, StepsInv
  PROVE  /\ call.at \in 1 .. Len(Sequence) /\ Len(Sequence) \in 1 .. 5
         /\ Name \in Names /\ Name \in Mine
         /\ Mine \subseteq Names
         /\ \A n \in Mine : \E k \in 1 .. Len(Sequence) : Sequence[k] = n
<1>1. InOrder(Sequence, service) /\ call.at \in 1 .. 5 /\ call.at <= Len(Sequence)
  BY SequenceInOrder DEF TypeOK, Call, StepsInv
<1>2. call.at \in 1 .. Len(Sequence) /\ Len(Sequence) \in 1 .. 5
  BY <1>1 DEF InOrder
<1> QED BY <1>1, <1>2 DEF InOrder, Mine, Name

LEMMA NextIsOne ==
  ASSUME TypeOK, StepsInv, ~IsLast
  PROVE  call.at + 1 \in 1 .. Len(Sequence) /\ call.at + 1 \in 1 .. 5
<1>1. call.at \in 1 .. Len(Sequence) /\ Len(Sequence) \in 1 .. 5 /\ call.at # Len(Sequence)
  BY NameIsOne DEF IsLast
<1>2. \A at, last : last \in 1 .. 5 /\ at \in 1 .. last /\ at # last
                    => at + 1 \in 1 .. last /\ at + 1 \in 1 .. 5
  OBVIOUS
<1> QED BY <1>1, <1>2, Zenon

LEMMA WhatExists ==
  /\ \A n \in Names : Exists(n) <=> StatusOf(n) # "absent"
  /\ Exists("network") <=> network
  /\ Exists("config") <=> config
  /\ "network" \notin Names /\ "config" \notin Names
<1>1. "network" \notin Names /\ "config" \notin Names
  BY DEF Names
<1>2. ASSUME NEW n \in Names PROVE Exists(n) <=> StatusOf(n) # "absent"
  <2>1. n # "network" /\ n # "config"
    BY <1>1
  <2> QED BY <2>1 DEF Exists
<1>3. (Exists("network") <=> network) /\ (Exists("config") <=> config)
  BY DEF Exists
<1> QED BY <1>1, <1>2, <1>3

(* What an answered request does.                                          *)
LEMMA AnsweredFrame ==
  ASSUME Answered
  PROVE  UNCHANGED <<wasHealthy, late, service, faults>>
BY DEF Answered, NoFault

LEMMA AwaitedIs ==
  /\ Awaited.verb = call.step
  /\ call.step \in {"create", "start", "remove"} => Awaited.on = Name
  /\ call.step \in {"createNetwork", "removeNetwork"} => Awaited.on = "network"
  /\ call.step \in FileVerbs => Awaited.on = "config"
BY DEF Awaited, FileVerbs

LEMMA DoCreate ==
  ASSUME Answered, call.step = "create", Name \in Names
  PROVE  /\ StatusOf(Name) = "absent"
         /\ containers' = [containers EXCEPT ![Name] = Created(Name)]
         /\ UNCHANGED <<network, config>> /\ orphans' = orphans \ {Name}
<1>1. Awaited.verb = "create" /\ Awaited.on = Name
  BY AwaitedIs
<1>2. ~Refused(Awaited) /\ Perform(Awaited) /\ orphans' = orphans \ {Name}
  BY <1>1 DEF Answered
<1>3. ~Exists(Name)
  BY <1>1, <1>2 DEF Refused
<1> QED BY <1>1, <1>2, <1>3, WhatExists DEF Perform, SetContainer, FileVerbs

LEMMA DoStart ==
  ASSUME Answered, call.step = "start", Name \in Names
  PROVE  /\ containers' = [containers EXCEPT ![Name] = IF StatusOf(Name) = "running"
                                             THEN containers[Name] ELSE Started(Name)]
         /\ UNCHANGED <<network, config>> /\ orphans' = orphans \ {Name}
<1>1. Awaited.verb = "start" /\ Awaited.on = Name
  BY AwaitedIs
<1>2. Perform(Awaited) /\ orphans' = orphans \ {Name}
  BY <1>1 DEF Answered
<1> QED BY <1>1, <1>2 DEF Perform, SetContainer, FileVerbs

LEMMA DoRemove ==
  ASSUME Answered, call.step = "remove", Name \in Names
  PROVE  /\ containers' = [containers EXCEPT ![Name] = Absent]
         /\ UNCHANGED <<network, config>> /\ orphans' = orphans \ {Name}
<1>1. Awaited.verb = "remove" /\ Awaited.on = Name
  BY AwaitedIs
<1>2. Perform(Awaited) /\ orphans' = orphans \ {Name}
  BY <1>1 DEF Answered
<1> QED BY <1>1, <1>2 DEF Perform, SetContainer, FileVerbs

LEMMA DoNetwork ==
  ASSUME Answered, call.step \in {"createNetwork", "removeNetwork"}
  PROVE  /\ network' <=> call.step = "createNetwork"
         /\ network' \in BOOLEAN
         /\ UNCHANGED <<containers, config>> /\ orphans' = orphans \ {"network"}
<1>1. Awaited.verb = call.step /\ Awaited.on = "network"
  BY AwaitedIs
<1>2. Perform(Awaited) /\ orphans' = orphans \ {"network"}
  BY <1>1 DEF Answered
<1>3. network' = (call.step = "createNetwork") /\ UNCHANGED <<containers, config>>
  BY <1>1, <1>2 DEF Perform, FileVerbs
<1> QED BY <1>2, <1>3

LEMMA DoConfig ==
  ASSUME Answered, call.step \in FileVerbs
  PROVE  /\ config' <=> call.step = "writeConfig"
         /\ config' \in BOOLEAN
         /\ UNCHANGED <<containers, network>> /\ orphans' = orphans \ {"config"}
<1>1. Awaited.verb = call.step /\ Awaited.on = "config"
  BY AwaitedIs
<1>2. Perform(Awaited) /\ orphans' = orphans \ {"config"}
  BY <1>1 DEF Answered
<1>3. config' = (call.step = "writeConfig") /\ UNCHANGED <<containers, network>>
  BY <1>1, <1>2 DEF Perform, FileVerbs
<1> QED BY <1>2, <1>3

(* What a look at a container leads to.                                    *)
LEMMA VerdictIs ==
  ASSUME NEW status, NEW requires, NEW now
  PROVE  /\ Verdict(status, requires, now) \in {"ready", "gone", "deadline", "again"}
         /\ Verdict(status, requires, now) = "ready" =>
              status.is = "Running" /\ (requires => status.health = "healthy")
         /\ Verdict(status, requires, now) = "gone" => status.is # "Running"
         /\ Verdict(status, requires, now) \in {"deadline", "again"} => status.is = "Running"
         /\ Verdict(status, requires, now) = "deadline" => now >= HealthTimeout
         /\ Verdict(status, requires, now) = "again" => ~(now >= HealthTimeout)
BY DEF Verdict, Ready

LEMMA InspectIs ==
  ASSUME NEW n
  PROVE  /\ Inspect(n).is = "Running" <=> StatusOf(n) = "running"
         /\ StatusOf(n) = "running" => Inspect(n).health = containers[n].health
<1> DEFINE s == Inspect(n)
<1>1. CASE StatusOf(n) = "running"
  <2>1. s = [is |-> "Running", health |-> containers[n].health, port |-> SpecOf(n).publish]
    <3>1. StatusOf(n) # "absent"
      BY <1>1
    <3> QED BY <1>1, <3>1, Zenon DEF Inspect
  <2> QED BY <1>1, <2>1
<1>2. CASE StatusOf(n) # "running"
  <2>1. s = [is |-> "NotFound"] \/ s = [is |-> "Exited"]
    BY <1>2, Zenon DEF Inspect
  <2> QED BY <1>2, <2>1
<1> QED BY <1>1, <1>2

LEMMA SeenIs ==
  ASSUME NEW now
  PROVE  /\ Seen(now) \in {"ready", "gone", "deadline", "again"}
         /\ Seen(now) = "ready" =>
              /\ StatusOf(Name) = "running"
              /\ SpecOf(Name).health_check => containers[Name].health = "healthy"
         /\ Seen(now) = "gone" => StatusOf(Name) # "running"
         /\ Seen(now) = "deadline" => now >= HealthTimeout
         /\ Seen(now) = "again" => ~(now >= HealthTimeout)
BY VerdictIs, InspectIs DEF Seen
-----------------------------------------------------------------------------
(* The calls begin                                                         *)

LEMMA InitInv == Init => Inv
<1> SUFFICES ASSUME Init PROVE Inv
  OBVIOUS
<1>1. InOrder(Sequence, service)
  BY SequenceInOrder
<1>2. TypeOK
  <2>1. 0 \in 0 .. MaxWait /\ 0 \in 0 .. MaxFaults /\ 1 \in 1 .. 5
    BY WaitAssumption, BackendsAssumption DEF MaxWait
  <2> QED BY <2>1, Zenon DEF Init, DaemonInit, TypeOK, DaemonTypeOK, Call, Ops, Steps, DockerVerbs,
               Answers, Container, Absent, Health
<1> QED
  BY <1>1, <1>2 DEF Init, DaemonInit, Inv, InOrder, StepsInv, DaemonInv, SpawnInv, AnswerInv,
       OrphanInv, TeardownInv, FailureIsHonest, Idle, StatusOf, Absent, Delivered

(* A call begins with a record of its kind.                                *)
LEMMA BeginType ==
  ASSUME TypeOK, NEW op \in Ops, NEW s \in Steps, Begin(op, s), UNCHANGED <<daemon, service, faults>>
  PROVE  TypeOK'
<1>1. 0 \in 0 .. MaxWait /\ 1 \in 1 .. 5 /\ FALSE \in BOOLEAN
  BY WaitAssumption DEF MaxWait
<1>2. PICK u \in BOOLEAN : call' = [op |-> op, step |-> s, at |-> 1, now |-> 0, port |-> FALSE, up |-> u]
  BY Zenon DEF Begin
<1>3. call' \in Call
  BY <1>1, <1>2, Zenon DEF Call
<1> QED BY <1>3 DEF TypeOK, DaemonTypeOK, daemon, Begin

LEMMA CallSpawnInv == ASSUME Inv, CallSpawn PROVE Inv'
<1> USE DEF Inv
<1>1. InOrder(Sequence, service)
  BY SequenceInOrder
<1>2. /\ Idle /\ answer = "none" /\ UNCHANGED <<daemon, service, answer, faults>>
      /\ call'.op = "spawn" /\ call'.at = 1 /\ call'.now = 0
      /\ call'.step = IF Stack THEN "createNetwork" ELSE "create"
  BY DEF CallSpawn, Begin, NoFault
<1>3. TypeOK'
  BY <1>2, BeginType DEF CallSpawn, Ops, Steps, DockerVerbs
<1>4. StepsInv'
  BY <1>1, <1>2 DEF StepsInv, InOrder, Sequence, Stack
<1>5. DaemonInv'
  BY <1>2 DEF DaemonInv, daemon, Sequence, Stack, Mine, Own, StatusOf
<1>6. SpawnInv'
  BY <1>1, <1>2 DEF SpawnInv, InOrder, daemon, Sequence, Stack, Idle, StatusOf, Built, Name
<1>7. AnswerInv'
  BY <1>2 DEF AnswerInv, FailureIsHonest, Idle, Delivered
<1>8. OrphanInv' /\ TeardownInv'
  BY <1>2 DEF OrphanInv, TeardownInv, daemon, StatusOf
<1> QED BY <1>3, <1>4, <1>5, <1>6, <1>7, <1>8

LEMMA CallTeardownInv == ASSUME Inv, CallTeardown PROVE Inv'
<1> USE DEF Inv
<1>1. InOrder(Sequence, service)
  BY SequenceInOrder
<1>2. /\ Idle /\ UNCHANGED <<daemon, service, answer, faults>>
      /\ call'.op = "teardown" /\ call'.at = 1 /\ call'.now = 0 /\ call'.step = "remove"
  BY DEF CallTeardown, Begin, NoFault
<1>3. TypeOK'
  BY <1>2, BeginType DEF CallTeardown, Ops, Steps, DockerVerbs
<1>4. StepsInv'
  BY <1>1, <1>2 DEF StepsInv, InOrder, Sequence, Stack
<1>5. DaemonInv'
  BY <1>2 DEF DaemonInv, daemon, Sequence, Stack, Mine, Own, StatusOf
<1>6. SpawnInv'
  BY <1>2 DEF SpawnInv, daemon, Idle, StatusOf
<1>7. AnswerInv'
  BY <1>2 DEF AnswerInv, FailureIsHonest, Idle, Delivered, daemon
<1>8. OrphanInv'
  BY <1>2 DEF OrphanInv, daemon, StatusOf
<1>9. TeardownInv'
  BY <1>1, <1>2 DEF TeardownInv, daemon, StatusOf, Sequence, InOrder
<1> QED BY <1>3, <1>4, <1>5, <1>6, <1>7, <1>8, <1>9

(* up is whether every service ran: if not, some service does not run.     *)
LEMMA CallIsAliveInv == ASSUME Inv, CallIsAlive PROVE Inv'
<1> USE DEF Inv
<1>1. InOrder(Sequence, service)
  BY SequenceInOrder
<1>2. /\ Idle /\ answer \in Delivered /\ UNCHANGED <<daemon, service, answer, faults>>
      /\ call'.op = "is_alive" /\ call'.at = 1 /\ call'.now = 0 /\ call'.step = "inspect"
  BY DEF CallIsAlive, Begin, NoFault
<1>3. TypeOK'
  BY <1>2, BeginType DEF CallIsAlive, Ops, Steps, DockerVerbs
<1>4. StepsInv'
  BY <1>1, <1>2 DEF StepsInv, InOrder, Sequence, Stack
<1>5. DaemonInv'
  BY <1>2 DEF DaemonInv, daemon, Sequence, Stack, Mine, Own, StatusOf
<1>6. SpawnInv'
  BY <1>2 DEF SpawnInv, daemon, Idle, StatusOf, Delivered
<1>7. AnswerInv'
  <2>1. call'.up <=> IsUp
    BY <1>2, Zenon DEF CallIsAlive, Begin
  <2>2. IsUp \/ \E k \in 1 .. Len(Sequence) : StatusOf(Sequence[k]) # "running"
    BY NameIsOne DEF IsUp
  <2>3. call'.op = "is_alive" /\ ~call'.up =>
          \E k \in call'.at .. Len(Sequence)' : containers'[Sequence'[k]].status # "running"
    BY <1>2, <2>1, <2>2 DEF Sequence, daemon, StatusOf
  <2> QED
    BY <1>2, <2>3 DEF AnswerInv, FailureIsHonest, Idle, Whole, Built, Stack, Sequence,
                      StatusOf, daemon, Delivered
<1>8. OrphanInv' /\ TeardownInv'
  BY <1>2 DEF OrphanInv, TeardownInv, daemon, StatusOf
<1> QED BY <1>3, <1>4, <1>5, <1>6, <1>7, <1>8
-----------------------------------------------------------------------------
(* The steps of spawn                                                      *)

LEMMA CreateNetworkInv == ASSUME Inv, CreateNetwork PROVE Inv'
<1> USE DEF Inv
<1>1. InOrder(Sequence, service)
  BY SequenceInOrder
<1>2. /\ call.op = "spawn" /\ call.step = "createNetwork" /\ Stack /\ call.at = 1 /\ call.now = 0
      /\ answer = "none" /\ late = {} /\ orphans = {}
  BY DEF CreateNetwork, At, StepsInv, SpawnInv
<1>3. /\ call' = [call EXCEPT !.step = "writeConfig"]
      /\ network' /\ network' \in BOOLEAN /\ orphans' = {}
      /\ UNCHANGED <<containers, config, wasHealthy, late, service, answer, faults>>
  BY <1>2, DoNetwork, AnsweredFrame DEF CreateNetwork, Goto
<1>4. /\ call' \in Call /\ call'.op = "spawn" /\ call'.step = "writeConfig"
      /\ call'.at = 1 /\ call'.now = 0
  BY <1>2, <1>3 DEF TypeOK, Call, Steps, FileVerbs
<1>5. TypeOK'
  BY <1>3, <1>4 DEF TypeOK, DaemonTypeOK
<1>6. StepsInv'
  BY <1>1, <1>2, <1>3, <1>4 DEF StepsInv, InOrder, Sequence, Stack
<1>7. DaemonInv'
  BY <1>2, <1>3 DEF DaemonInv, Sequence, Stack, Mine, Own, StatusOf
<1>8. SpawnInv'
  <2>1. \A k \in 1 .. Len(Sequence) : (k > 1 => StatusOf(Sequence[k]) = "absent") /\ ~(k < 1)
    BY <1>1, <1>2 DEF SpawnInv, InOrder
  <2>2. StatusOf(Sequence[1]) = "absent"
    BY <1>2 DEF SpawnInv, Name
  <2> QED
    BY <1>2, <1>3, <1>4, <2>1, <2>2 DEF SpawnInv, Sequence, Stack, Idle, StatusOf, Name
<1>9. AnswerInv' /\ OrphanInv' /\ TeardownInv'
  BY <1>2, <1>3, <1>4 DEF AnswerInv, OrphanInv, TeardownInv, FailureIsHonest, Idle, Delivered
<1> QED BY <1>5, <1>6, <1>7, <1>8, <1>9

LEMMA WriteConfigInv == ASSUME Inv, WriteConfig PROVE Inv'
<1> USE DEF Inv
<1>1. InOrder(Sequence, service)
  BY SequenceInOrder
<1>2. /\ call.op = "spawn" /\ call.step = "writeConfig" /\ Stack /\ call.at = 1 /\ call.now = 0
      /\ answer = "none" /\ late = {} /\ orphans = {} /\ network
  BY DEF WriteConfig, At, StepsInv, SpawnInv
<1>3. /\ call' = [call EXCEPT !.step = "create"]
      /\ config' /\ config' \in BOOLEAN /\ orphans' = {}
      /\ UNCHANGED <<containers, network, wasHealthy, late, service, answer, faults>>
  BY <1>2, DoConfig, AnsweredFrame DEF WriteConfig, Goto, FileVerbs
<1>4. /\ call' \in Call /\ call'.op = "spawn" /\ call'.step = "create"
      /\ call'.at = 1 /\ call'.now = 0
  BY <1>2, <1>3 DEF TypeOK, Call, Steps, DockerVerbs
<1>5. TypeOK'
  BY <1>3, <1>4 DEF TypeOK, DaemonTypeOK
<1>6. StepsInv'
  BY <1>1, <1>2, <1>3, <1>4 DEF StepsInv, InOrder, Sequence, Stack
<1>7. DaemonInv'
  BY <1>2, <1>3 DEF DaemonInv, Sequence, Stack, Mine, Own, StatusOf
<1>8. SpawnInv'
  BY <1>1, <1>2, <1>3, <1>4 DEF SpawnInv, InOrder, Sequence, Stack, Idle, StatusOf, Built, Name
<1>9. AnswerInv' /\ OrphanInv' /\ TeardownInv'
  BY <1>2, <1>3, <1>4 DEF AnswerInv, OrphanInv, TeardownInv, FailureIsHonest, Idle, Delivered
<1> QED BY <1>5, <1>6, <1>7, <1>8, <1>9

(* Creating and starting change one container: the others keep what they   *)
(* had.                                                                    *)
LEMMA CreateContainerInv == ASSUME Inv, CreateContainer PROVE Inv'
<1> USE DEF Inv
<1>1. InOrder(Sequence, service) /\ call.at \in 1 .. Len(Sequence) /\ Name \in Names /\ Name \in Mine
  BY SequenceInOrder, NameIsOne
<1>2. /\ call.op = "spawn" /\ call.step = "create" /\ call.now = 0
      /\ answer = "none" /\ late = {} /\ orphans = {}
  BY DEF CreateContainer, At, StepsInv, SpawnInv
<1>3. /\ call' = [call EXCEPT !.step = "start"]
      /\ containers' = [containers EXCEPT ![Name] = Created(Name)] /\ orphans' = {}
      /\ UNCHANGED <<network, config, wasHealthy, late, service, answer, faults>>
  BY <1>1, <1>2, DoCreate, AnsweredFrame DEF CreateContainer, Goto
<1>4. /\ call' \in Call /\ call'.op = "spawn" /\ call'.step = "start"
      /\ call'.at = call.at /\ call'.now = 0
  BY <1>2, <1>3 DEF TypeOK, Call, Steps, DockerVerbs
<1>5. /\ containers' \in [Names -> Container]
      /\ containers'[Name].status = "created" /\ containers'[Name].health = "none"
      /\ \A n \in Names \ {Name} : containers'[n] = containers[n]
  BY <1>1, <1>3 DEF TypeOK, DaemonTypeOK, Container, Health, Created
<1>6. TypeOK'
  BY <1>3, <1>4, <1>5 DEF TypeOK, DaemonTypeOK
<1>7. StepsInv'
  BY <1>1, <1>2, <1>3, <1>4 DEF StepsInv, InOrder, Sequence, Stack
<1>8. DaemonInv'
  BY <1>1, <1>2, <1>3, <1>5 DEF DaemonInv, Sequence, Stack, Mine, Own, StatusOf
<1>9. SpawnInv'
  BY <1>1, <1>2, <1>3, <1>4, <1>5
  DEF SpawnInv, InOrder, Sequence, Stack, Idle, StatusOf, Built, Name
<1>10. AnswerInv' /\ OrphanInv' /\ TeardownInv'
  BY <1>2, <1>3, <1>4 DEF AnswerInv, OrphanInv, TeardownInv, FailureIsHonest, Idle, Delivered
<1> QED BY <1>6, <1>7, <1>8, <1>9, <1>10

LEMMA StartContainerInv == ASSUME Inv, StartContainer PROVE Inv'
<1> USE DEF Inv
<1>1. InOrder(Sequence, service) /\ call.at \in 1 .. Len(Sequence) /\ Name \in Names /\ Name \in Mine
  BY SequenceInOrder, NameIsOne
<1>2. /\ call.op = "spawn" /\ call.step = "start" /\ call.now = 0
      /\ answer = "none" /\ late = {} /\ orphans = {} /\ StatusOf(Name) = "created"
  BY DEF StartContainer, At, StepsInv, SpawnInv
<1>3. /\ call' = [call EXCEPT !.step = "poll"]
      /\ containers' = [containers EXCEPT ![Name] = Started(Name)] /\ orphans' = {}
      /\ UNCHANGED <<network, config, wasHealthy, late, service, answer, faults>>
  BY <1>1, <1>2, DoStart, AnsweredFrame DEF StartContainer, Goto
<1>4. /\ call' \in Call /\ call'.op = "spawn" /\ call'.step = "poll"
      /\ call'.at = call.at /\ call'.now = 0 /\ 0 <= (HealthTimeout - 1) + PollInterval
  BY <1>2, <1>3, WaitAssumption DEF TypeOK, Call, Steps
<1>5. /\ containers' \in [Names -> Container]
      /\ containers'[Name].status = "running" /\ containers'[Name].health # "healthy"
      /\ \A n \in Names \ {Name} : containers'[n] = containers[n]
  BY <1>1, <1>3 DEF TypeOK, DaemonTypeOK, Container, Health, Started
<1>6. TypeOK'
  BY <1>3, <1>4, <1>5 DEF TypeOK, DaemonTypeOK
<1>7. StepsInv'
  BY <1>1, <1>2, <1>3, <1>4 DEF StepsInv, InOrder, Sequence, Stack
<1>8. DaemonInv'
  BY <1>1, <1>2, <1>3, <1>5 DEF DaemonInv, Sequence, Stack, Mine, Own, StatusOf
<1>9. SpawnInv'
  BY <1>1, <1>2, <1>3, <1>4, <1>5
  DEF SpawnInv, InOrder, Sequence, Stack, Idle, StatusOf, Built, Name
<1>10. AnswerInv' /\ OrphanInv' /\ TeardownInv'
  BY <1>2, <1>3, <1>4 DEF AnswerInv, OrphanInv, TeardownInv, FailureIsHonest, Idle, Delivered
<1> QED BY <1>6, <1>7, <1>8, <1>9, <1>10
-----------------------------------------------------------------------------
(* The end of a call that failed or was cut short                          *)

LEMMA FaultType ==
  ASSUME TypeOK, NoFault \/ \E kind \in FaultKinds : Fault(kind)
  PROVE  faults' \in 0 .. MaxFaults
BY BackendsAssumption DEF TypeOK, NoFault, Fault

LEMMA ReturnType ==
  ASSUME TypeOK, NEW a, Return(a)
  PROVE  /\ call' \in Call /\ answer' = a
         /\ call'.op = "none" /\ call'.step = call.step /\ call'.at = call.at
         /\ call'.now = call.now /\ call'.up = call.up
BY DEF TypeOK, Call, Ops, Return

(* What the call awaits is a request of the cluster's own; a teardown      *)
(* awaits none that makes something.                                       *)
LEMMA OutstandingIs ==
  ASSUME Inv
  PROVE  /\ \A q \in Outstanding : q = Awaited
         /\ Outstanding \subseteq Request
         /\ \A q \in Outstanding : Own(q)
         /\ call.op = "teardown" => \A q \in Outstanding : q.verb \notin Making
         /\ call.op = "is_alive" => Outstanding = {}
<1> USE DEF Inv
<1>1. Name \in Names /\ Name \in Mine
  BY NameIsOne
<1>2. \A q \in Outstanding : q = Awaited /\ call.step \in DockerVerbs \cup FileVerbs /\ call.op # "none"
  BY DEF Outstanding
<1>3. call.op = "is_alive" => Outstanding = {}
  BY DEF Outstanding, StepsInv, DockerVerbs, FileVerbs
<1>4. call.op = "teardown" => call.step \notin Making
  BY DEF StepsInv, Making
<1>5. ASSUME call.step \in DockerVerbs \cup FileVerbs, call.op # "none"
      PROVE  Awaited \in Request /\ Own(Awaited)
  <2>1. Awaited = [verb |-> Awaited.verb, on |-> Awaited.on]
    BY DEF Awaited
  <2>2. Awaited.verb = call.step /\ Awaited.on \in Resources
    BY <1>1, <1>5, AwaitedIs DEF Resources, DockerVerbs, FileVerbs
  <2>3. call.step \in {"createNetwork", "removeNetwork"} \cup FileVerbs => Stack
    BY <1>5 DEF StepsInv, TypeOK, Call, Ops, FileVerbs
  <2> QED
    BY <1>1, <1>5, <2>1, <2>2, <2>3, AwaitedIs DEF Request, Own, DockerVerbs, FileVerbs
<1> QED BY <1>2, <1>3, <1>4, <1>5, AwaitedIs

LEMMA SpawnEndsInv ==
  ASSUME Inv, call.op = "spawn",
         NEW a \in {"daemon", "no port", "no extension", "cut"}, Return(a),
         late' \subseteq late \cup Outstanding, config' \in BOOLEAN, config' => config \/ Stack,
         UNCHANGED <<containers, network, wasHealthy, orphans, service>>, faults' \in 0 .. MaxFaults
  PROVE  Inv'
<1> USE DEF Inv
<1>1. answer = "none" /\ late = {} /\ orphans = {}
  BY DEF SpawnInv
<1>2. /\ call' \in Call /\ answer' = a /\ call'.op = "none" /\ call'.step = call.step
      /\ call'.at = call.at /\ call'.now = call.now
  BY ReturnType
<1>3. /\ \A p, q \in late' : p = q
      /\ late' \subseteq Request /\ \A q \in late' : Own(q)
  BY <1>1, OutstandingIs
<1>4. TypeOK'
  BY <1>2, <1>3 DEF TypeOK, DaemonTypeOK, Answers, SpawnErrors
<1>5. StepsInv'
  BY <1>2 DEF StepsInv, Sequence, Stack, IsLast
<1>6. DaemonInv'
  BY <1>3 DEF DaemonInv, Sequence, Stack, Mine, Own, StatusOf
<1>7. SpawnInv' /\ AnswerInv' /\ TeardownInv'
  BY <1>2 DEF SpawnInv, AnswerInv, TeardownInv, FailureIsHonest, Idle, Delivered
<1>8. OrphanInv'
  BY <1>1, <1>3 DEF OrphanInv, StatusOf
<1> QED BY <1>4, <1>5, <1>6, <1>7, <1>8

LEMMA TeardownEndsInv ==
  ASSUME Inv, call.op = "teardown",
         NEW a \in {"not torn down", "cut"}, Return(a),
         late' \subseteq late \cup Outstanding,
         UNCHANGED <<containers, network, config, wasHealthy, orphans, service>>,
         faults' \in 0 .. MaxFaults
  PROVE  Inv'
<1> USE DEF Inv
<1>2. /\ call' \in Call /\ answer' = a /\ call'.op = "none" /\ call'.step = call.step
      /\ call'.at = call.at /\ call'.now = call.now
  BY ReturnType
<1>3. /\ \A q \in late' : q.verb \in Making => q \in late
      /\ late' \subseteq Request /\ \A q \in late' : Own(q)
  BY OutstandingIs DEF TypeOK, DaemonTypeOK, DaemonInv
<1>4. TypeOK'
  BY <1>2, <1>3 DEF TypeOK, DaemonTypeOK, Answers
<1>5. StepsInv'
  BY <1>2 DEF StepsInv, Sequence, Stack, IsLast
<1>6. DaemonInv'
  BY <1>3 DEF DaemonInv, Sequence, Stack, Mine, Own, StatusOf
<1>7. SpawnInv' /\ AnswerInv' /\ TeardownInv'
  BY <1>2 DEF SpawnInv, AnswerInv, TeardownInv, FailureIsHonest, Idle, Delivered
<1>8. OrphanInv'
  BY <1>3 DEF OrphanInv, StatusOf
<1> QED BY <1>4, <1>5, <1>6, <1>7, <1>8

LEMMA IsAliveEndsInv ==
  ASSUME Inv, call.op = "is_alive",
         NEW a \in {"dead", "alive", "unknown"}, Return(a), late' \subseteq late \cup Outstanding,
         UNCHANGED <<containers, network, config, wasHealthy, orphans, service>>,
         faults' \in 0 .. MaxFaults
  PROVE  Inv'
<1> USE DEF Inv
<1>1. answer \in Delivered /\ late = {} /\ orphans = {} /\ Whole
  BY DEF AnswerInv
<1>2. /\ call' \in Call /\ answer' = a /\ call'.op = "none" /\ call'.step = call.step
      /\ call'.at = call.at /\ call'.now = call.now
  BY ReturnType
<1>3. late' = {}
  BY <1>1, OutstandingIs
<1>4. TypeOK'
  BY <1>2, <1>3 DEF TypeOK, DaemonTypeOK, Answers, Delivered
<1>5. StepsInv'
  BY <1>2 DEF StepsInv, Sequence, Stack, IsLast
<1>6. DaemonInv'
  BY <1>3 DEF DaemonInv, Sequence, Stack, Mine, Own, StatusOf
<1>7. SpawnInv' /\ TeardownInv'
  BY <1>2 DEF SpawnInv, TeardownInv, Idle
<1>8. AnswerInv'
  BY <1>1, <1>2, <1>3
  DEF AnswerInv, FailureIsHonest, Idle, Delivered, Whole, Built, Sequence, Stack, StatusOf
<1>9. OrphanInv'
  BY <1>1, <1>3 DEF OrphanInv
<1> QED BY <1>4, <1>5, <1>6, <1>7, <1>8, <1>9

LEMMA RequestFailsInv == ASSUME Inv, RequestFails PROVE Inv'
<1>1. /\ call.op # "none" /\ Return(Error) /\ UNCHANGED <<daemon, service>>
      /\ NoFault \/ Fault("error")
  BY DEF RequestFails, Idle
<1>2. faults' \in 0 .. MaxFaults
  BY <1>1, FaultType DEF Inv, FaultKinds
<1>3. call.op \in {"spawn", "teardown", "is_alive"}
  BY <1>1 DEF Inv, TypeOK, Call, Ops
<1>4. config \in BOOLEAN
  BY DEF Inv, TypeOK, DaemonTypeOK
<1>5. CASE call.op = "spawn"
  BY <1>1, <1>2, <1>4, <1>5, SpawnEndsInv DEF daemon, Error
<1>6. CASE call.op = "teardown"
  BY <1>1, <1>2, <1>6, TeardownEndsInv DEF daemon, Error
<1>7. CASE call.op = "is_alive"
  BY <1>1, <1>2, <1>7, IsAliveEndsInv DEF daemon, Error
<1> QED BY <1>3, <1>5, <1>6, <1>7

LEMMA RequestTimesOutInv == ASSUME Inv, RequestTimesOut PROVE Inv'
<1>1. /\ call.op # "none" /\ Return(Error) /\ Fault("timeout") /\ late' = late \cup Outstanding
      /\ UNCHANGED <<containers, network, config, wasHealthy, orphans, service>>
  BY DEF RequestTimesOut, Idle
<1>2. faults' \in 0 .. MaxFaults
  BY <1>1, FaultType DEF Inv, FaultKinds
<1>3. call.op \in {"spawn", "teardown", "is_alive"}
  BY <1>1 DEF Inv, TypeOK, Call, Ops
<1>4. config \in BOOLEAN
  BY DEF Inv, TypeOK, DaemonTypeOK
<1>5. CASE call.op = "spawn"
  BY <1>1, <1>2, <1>4, <1>5, SpawnEndsInv DEF Error
<1>6. CASE call.op = "teardown"
  BY <1>1, <1>2, <1>6, TeardownEndsInv DEF Error
<1>7. CASE call.op = "is_alive"
  BY <1>1, <1>2, <1>7, IsAliveEndsInv DEF Error
<1> QED BY <1>3, <1>5, <1>6, <1>7

LEMMA CancelInv == ASSUME Inv, Cancel PROVE Inv'
<1>1. faults' \in 0 .. MaxFaults /\ config \in BOOLEAN
  BY FaultType DEF Cancel, Inv, TypeOK, DaemonTypeOK
<1> QED BY <1>1, SpawnEndsInv DEF Cancel

LEMMA CrashInv == ASSUME Inv, Crash PROVE Inv'
<1>1. /\ call.op # "none" /\ Fault("crash") /\ late' \subseteq late \cup Outstanding
      /\ Return(IF call.op = "is_alive" THEN "unknown" ELSE "cut")
      /\ UNCHANGED <<containers, network, config, wasHealthy, orphans, service>>
  BY DEF Crash, Idle
<1>2. faults' \in 0 .. MaxFaults
  BY <1>1, FaultType DEF Inv, FaultKinds
<1>3. call.op \in {"spawn", "teardown", "is_alive"}
  BY <1>1 DEF Inv, TypeOK, Call, Ops
<1>4. config \in BOOLEAN
  BY DEF Inv, TypeOK, DaemonTypeOK
<1>5. CASE call.op = "spawn"
  BY <1>1, <1>2, <1>4, <1>5, SpawnEndsInv
<1>6. CASE call.op = "teardown"
  BY <1>1, <1>2, <1>6, TeardownEndsInv
<1>7. CASE call.op = "is_alive"
  BY <1>1, <1>2, <1>7, IsAliveEndsInv
<1> QED BY <1>3, <1>5, <1>6, <1>7
-----------------------------------------------------------------------------
(* The rest of spawn                                                       *)

LEMMA WriteConfigFailsInv == ASSUME Inv, WriteConfigFails PROVE Inv'
<1>1. /\ call.op = "spawn" /\ call.step = "writeConfig" /\ Return("daemon")
      /\ Fault("error") /\ config' \in {config, TRUE}
      /\ UNCHANGED <<containers, network, wasHealthy, late, orphans, service>>
  BY DEF WriteConfigFails, At
<1>2. faults' \in 0 .. MaxFaults
  BY <1>1, FaultType DEF Inv, FaultKinds
<1>3. Stack /\ config' \in BOOLEAN
  BY <1>1 DEF Inv, StepsInv, TypeOK, DaemonTypeOK
<1> QED BY <1>1, <1>2, <1>3, SpawnEndsInv

(* A ready service came up: what it needed for it was seen, now or before. *)
LEMMA ReadyIsBuilt ==
  ASSUME Inv, At("spawn", "poll"), NEW now, Seen(now) = "ready"
  PROVE  Built(call.at)
BY SeenIs, NameIsOne DEF Inv, DaemonInv, Built, Name

(* The record of the next service.                                         *)
NextCall(c, known) == [c EXCEPT !.at = @ + 1, !.step = "create", !.now = 0, !.port = known]

LEMMA NextCallIs ==
  ASSUME NEW c \in Call, NEW known \in BOOLEAN, c.at + 1 \in 1 .. 5
  PROVE  /\ NextCall(c, known) \in Call
         /\ NextCall(c, known).op = c.op /\ NextCall(c, known).step = "create"
         /\ NextCall(c, known).now = 0 /\ NextCall(c, known).at = c.at + 1
         /\ NextCall(c, known).up = c.up
<1> DEFINE c1 == [c EXCEPT !.at = @ + 1]
           c2 == [c1 EXCEPT !.step = "create"]
           c3 == [c2 EXCEPT !.now = 0]
           c4 == [c3 EXCEPT !.port = known]
<1>1. c1 \in Call /\ c1.at = c.at + 1 /\ c1.op = c.op /\ c1.up = c.up
  BY DEF Call
<1>2. /\ c2 \in Call /\ c2.at = c.at + 1 /\ c2.op = c.op /\ c2.step = "create"
      /\ c2.up = c.up
  <2> HIDE DEF c1
  <2> QED BY <1>1 DEF Call, Steps, DockerVerbs
<1>3. /\ c3 \in Call /\ c3.at = c.at + 1 /\ c3.op = c.op /\ c3.step = "create" /\ c3.now = 0
      /\ c3.up = c.up
  <2>1. 0 \in 0 .. MaxWait
    BY WaitAssumption DEF MaxWait
  <2> HIDE DEF c2
  <2> QED BY <2>1, <1>2 DEF Call
<1>4. /\ c4 \in Call /\ c4.at = c.at + 1 /\ c4.op = c.op /\ c4.step = "create" /\ c4.now = 0
      /\ c4.up = c.up
  <2> HIDE DEF c3
  <2> QED BY <1>3 DEF Call
<1>5. NextCall(c, known) = c4
  BY Zenon DEF NextCall
<1> QED BY <1>4, <1>5, Zenon

LEMMA SpawnMovesOn ==
  ASSUME Inv, At("spawn", "poll"), Built(call.at), ~IsLast,
         call' \in Call, call'.op = "spawn", call'.step = "create", call'.now = 0,
         call'.at = call.at + 1,
         UNCHANGED <<daemon, service, answer>>, faults' \in 0 .. MaxFaults
  PROVE  Inv'
<1> USE DEF Inv
<1>1. InOrder(Sequence, service) /\ call.at \in 1 .. Len(Sequence) /\ Len(Sequence) \in 1 .. 5
  BY SequenceInOrder, NameIsOne
<1>2. call.at + 1 \in 1 .. Len(Sequence)
  BY <1>1 DEF IsLast
<1>3. answer = "none" /\ late = {} /\ orphans = {} /\ (Stack => network /\ config)
  BY DEF SpawnInv, At
<1>4. TypeOK'
  BY DEF TypeOK, DaemonTypeOK, daemon
<1>5. StepsInv'
  BY <1>1, <1>2 DEF StepsInv, Sequence
<1>6. DaemonInv'
  BY DEF DaemonInv, daemon, Sequence, Stack, Mine, Own, StatusOf
<1>7. SpawnInv'
  <2>1. \A k \in 1 .. Len(Sequence) : /\ k < call.at + 1 => Built(k)
                                      /\ k > call.at => StatusOf(Sequence[k]) = "absent"
    BY <1>1 DEF SpawnInv, At
  <2> QED BY <1>1, <1>2, <1>3, <2>1
          DEF SpawnInv, Sequence, Stack, Idle, StatusOf, Name, Built, daemon
<1>8. AnswerInv' /\ OrphanInv' /\ TeardownInv'
  BY <1>3 DEF AnswerInv, OrphanInv, TeardownInv, FailureIsHonest, Idle, Delivered, daemon
<1> QED BY <1>4, <1>5, <1>6, <1>7, <1>8

(* What follows the last service.                                          *)
LEMMA SpawnGoesOn ==
  ASSUME Inv, At("spawn", "poll"), Built(call.at), IsLast, NEW s \in {"ports", "extension"},
         s = "ports" => Stack, Goto(s),
         UNCHANGED <<daemon, service>>, faults' \in 0 .. MaxFaults
  PROVE  Inv'
<1> USE DEF Inv
<1>1. InOrder(Sequence, service) /\ call.at \in 1 .. Len(Sequence)
  BY SequenceInOrder, NameIsOne
<1>2. answer = "none" /\ late = {} /\ orphans = {} /\ (Stack => network /\ config)
  BY DEF SpawnInv, At
<1>3. /\ call'.op = "spawn" /\ call'.step = s /\ call'.now = call.now
      /\ call'.at = call.at /\ call' \in Call /\ answer' = answer
  BY DEF At, TypeOK, Call, Goto, Steps
<1>4. TypeOK'
  BY <1>3 DEF TypeOK, DaemonTypeOK, daemon
<1>5. StepsInv'
  BY <1>3 DEF StepsInv, Sequence, IsLast, Stack
<1>6. DaemonInv'
  BY DEF DaemonInv, daemon, Sequence, Stack, Mine, Own, StatusOf
<1>7. SpawnInv'
  BY <1>1, <1>2, <1>3 DEF SpawnInv, At, Sequence, Stack, Idle, StatusOf, Name, Built, daemon
<1>8. AnswerInv' /\ OrphanInv' /\ TeardownInv'
  BY <1>2, <1>3 DEF AnswerInv, OrphanInv, TeardownInv, FailureIsHonest, Idle, Delivered, daemon
<1> QED BY <1>4, <1>5, <1>6, <1>7, <1>8

(* A cluster that is delivered is whole.                                   *)
LEMMA SpawnDelivers ==
  ASSUME Inv, call.op = "spawn", call.step \in {"poll", "ports", "extension"},
         Built(call.at), IsLast, Return("spawned"),
         UNCHANGED <<daemon, service>>, faults' \in 0 .. MaxFaults
  PROVE  Inv' /\ Whole
<1> USE DEF Inv
<1>1. InOrder(Sequence, service) /\ call.at \in 1 .. Len(Sequence)
  BY SequenceInOrder, NameIsOne
<1>2. late = {} /\ orphans = {} /\ (Stack => network /\ config)
  BY DEF SpawnInv
<1>3. Whole
  BY <1>1, <1>2 DEF SpawnInv, Whole, IsLast
<1>4. /\ call' \in Call /\ answer' = "spawned" /\ call'.op = "none" /\ call'.step = call.step
      /\ call'.at = call.at /\ call'.now = call.now
  BY ReturnType
<1>5. TypeOK'
  BY <1>4 DEF TypeOK, DaemonTypeOK, daemon, Answers, Delivered
<1>6. StepsInv'
  BY <1>4 DEF StepsInv, Sequence
<1>7. DaemonInv'
  BY DEF DaemonInv, daemon, Sequence, Stack, Mine, Own, StatusOf
<1>8. SpawnInv' /\ OrphanInv' /\ TeardownInv'
  BY <1>2, <1>4 DEF SpawnInv, OrphanInv, TeardownInv, Idle, daemon
<1>9. AnswerInv'
  BY <1>2, <1>3, <1>4
  DEF AnswerInv, FailureIsHonest, Idle, Delivered, Whole, Built, Sequence, Stack, StatusOf, daemon
<1> QED BY <1>3, <1>5, <1>6, <1>7, <1>8, <1>9

LEMMA NextServiceIs ==
  ASSUME NEW port \in BOOLEAN, call.port \in BOOLEAN, NextService(port)
  PROVE  \/ /\ ~IsLast /\ UNCHANGED answer
            /\ \E known \in BOOLEAN : call' = NextCall(call, known)
         \/ IsLast /\ Return("no port")
         \/ IsLast /\ Stack /\ Goto("ports")
         \/ IsLast /\ ~Stack /\ Goto("extension")
         \/ IsLast /\ ~Stack /\ Return("spawned")
<1> DEFINE known == IF Name \in {"kong", "postgres"} THEN port ELSE call.port
<1>1. known \in BOOLEAN
  OBVIOUS
<1>2. CASE ~IsLast
  BY <1>1, <1>2, Zenon DEF NextService, NextCall
<1>3. CASE IsLast /\ ~known
  BY <1>3, Zenon DEF NextService
<1>4. CASE IsLast /\ known /\ Stack
  <2>1. service # "pgvector"
    BY <1>4 DEF Stack
  <2> QED BY <1>4, <2>1, Zenon DEF NextService
<1>5. CASE IsLast /\ known /\ ~Stack /\ service = "pgvector"
  BY <1>5, Zenon DEF NextService
<1>6. CASE IsLast /\ known /\ ~Stack /\ service # "pgvector"
  BY <1>6, Zenon DEF NextService
<1> QED BY <1>1, <1>2, <1>3, <1>4, <1>5, <1>6

(* The five outcomes of a look that finds the service ready.               *)
LEMMA PollReadyIs ==
  ASSUME Inv, PollReady
  PROVE  /\ At("spawn", "poll") /\ Built(call.at) /\ UNCHANGED <<daemon, service>>
         /\ faults' \in 0 .. MaxFaults
         /\ \/ /\ ~IsLast /\ UNCHANGED answer
               /\ call' \in Call /\ call'.op = "spawn" /\ call'.step = "create"
               /\ call'.now = 0 /\ call'.at = call.at + 1 /\ call'.up = call.up
            \/ IsLast /\ Return("no port")
            \/ IsLast /\ Stack /\ Goto("ports")
            \/ IsLast /\ ~Stack /\ Goto("extension")
            \/ IsLast /\ ~Stack /\ Return("spawned")
<1>1. PICK port \in BOOLEAN : Reported(port) /\ NextService(port)
  BY DEF PollReady
<1>2. At("spawn", "poll") /\ Seen(call.now) = "ready" /\ UNCHANGED <<daemon, service>>
  BY DEF PollReady
<1>3. faults' \in 0 .. MaxFaults /\ call.port \in BOOLEAN
  BY <1>1, FaultType DEF Reported, FaultKinds, Inv, TypeOK, Call
<1>4. Built(call.at)
  BY <1>2, ReadyIsBuilt
<1>5. CASE ~IsLast /\ UNCHANGED answer /\ \E known \in BOOLEAN : call' = NextCall(call, known)
  <2>1. call.at + 1 \in 1 .. 5 /\ call.op = "spawn" /\ call \in Call
    <3>1. TypeOK /\ StepsInv
      BY DEF Inv
    <3>2. call.at + 1 \in 1 .. 5
      BY <1>5, <3>1, NextIsOne
    <3> QED BY <1>2, <3>1, <3>2 DEF At, TypeOK
  <2>2. PICK known \in BOOLEAN : call' = NextCall(call, known)
    BY <1>5
  <2>3. /\ call' \in Call /\ call'.op = "spawn" /\ call'.step = "create" /\ call'.now = 0
        /\ call'.at = call.at + 1 /\ call'.up = call.up
    BY <2>1, <2>2, NextCallIs, Zenon
  <2> QED BY <1>2, <1>3, <1>4, <1>5, <2>3
<1> QED BY <1>1, <1>2, <1>3, <1>4, <1>5, NextServiceIs

LEMMA PollReadyInv == ASSUME Inv, PollReady PROVE Inv'
<1>1. /\ At("spawn", "poll") /\ Built(call.at) /\ UNCHANGED <<daemon, service>>
      /\ faults' \in 0 .. MaxFaults /\ config \in BOOLEAN
  BY PollReadyIs DEF Inv, TypeOK, DaemonTypeOK
<1>2. CASE /\ ~IsLast /\ UNCHANGED answer
           /\ call' \in Call /\ call'.op = "spawn" /\ call'.step = "create"
           /\ call'.now = 0 /\ call'.at = call.at + 1
  BY <1>1, <1>2, SpawnMovesOn
<1>3. CASE Return("no port")
  BY <1>1, <1>3, SpawnEndsInv DEF At, daemon
<1>4. CASE \/ IsLast /\ Stack /\ Goto("ports")
           \/ IsLast /\ ~Stack /\ Goto("extension")
  BY <1>1, <1>4, SpawnGoesOn
<1>5. CASE IsLast /\ Return("spawned")
  BY <1>1, <1>5, SpawnDelivers DEF At
<1> QED BY <1>2, <1>3, <1>4, <1>5, PollReadyIs
(* The records of a call that waits and that gives up.                     *)
Waited(c, s, d) == [c EXCEPT !.step = s, !.now = @ + d]
GaveUp(c, d)    == [c EXCEPT !.op = "none", !.now = @ + d]

LEMMA WaitedIs ==
  ASSUME NEW c \in Call, NEW d, c.now + d \in 0 .. MaxWait, NEW s \in Steps
  PROVE  /\ Waited(c, s, d) \in Call
         /\ Waited(c, s, d).op = c.op /\ Waited(c, s, d).step = s
         /\ Waited(c, s, d).at = c.at /\ Waited(c, s, d).now = c.now + d
         /\ Waited(c, s, d).up = c.up
<1> DEFINE c1 == [c EXCEPT !.step = s]
           c2 == [c1 EXCEPT !.now = c.now + d]
<1>1. c1 \in Call /\ c1.at = c.at /\ c1.op = c.op /\ c1.step = s /\ c1.up = c.up
  BY DEF Call
<1>2. c2 \in Call /\ c2.at = c.at /\ c2.op = c.op /\ c2.step = s /\ c2.now = c.now + d
      /\ c2.up = c.up
  <2> HIDE DEF c1
  <2> QED BY <1>1 DEF Call
<1>3. Waited(c, s, d) = c2
  BY Zenon DEF Waited
<1> QED BY <1>2, <1>3, Zenon

LEMMA GaveUpIs ==
  ASSUME NEW c \in Call, NEW d, c.now + d \in 0 .. MaxWait
  PROVE  /\ GaveUp(c, d) \in Call
         /\ GaveUp(c, d).op = "none" /\ GaveUp(c, d).step = c.step
         /\ GaveUp(c, d).at = c.at /\ GaveUp(c, d).now = c.now + d
         /\ GaveUp(c, d).up = c.up
<1> DEFINE c1 == [c EXCEPT !.op = "none"]
           c2 == [c1 EXCEPT !.now = c.now + d]
<1>1. c1 \in Call /\ c1.at = c.at /\ c1.op = "none" /\ c1.step = c.step /\ c1.up = c.up
  BY DEF Call, Ops
<1>2. c2 \in Call /\ c2.at = c.at /\ c2.op = "none" /\ c2.step = c.step /\ c2.now = c.now + d
      /\ c2.up = c.up
  <2> HIDE DEF c1
  <2> QED BY <1>1 DEF Call
<1>3. GaveUp(c, d) = c2
  BY Zenon DEF GaveUp
<1> QED BY <1>2, <1>3, Zenon

(* The wait goes on.                                                       *)
LEMMA SpawnWaits ==
  ASSUME Inv, call.op = "spawn", call.step \in {"poll", "sleep"},
         call' \in Call, call'.op = "spawn", call'.at = call.at,
         \/ call'.step = "sleep" /\ call'.now < HealthTimeout
         \/ call'.step = "poll" /\ call'.now <= (HealthTimeout - 1) + PollInterval,
         UNCHANGED <<daemon, service, answer>>, faults' \in 0 .. MaxFaults
  PROVE  Inv'
<1> USE DEF Inv
<1>1. answer = "none" /\ late = {} /\ orphans = {}
  BY DEF SpawnInv
<1>2. TypeOK'
  BY DEF TypeOK, DaemonTypeOK, daemon
<1>3. StepsInv'
  BY DEF StepsInv, Sequence
<1>4. DaemonInv'
  BY DEF DaemonInv, daemon, Sequence, Stack, Mine, Own, StatusOf
<1>5. SpawnInv'
  BY <1>1 DEF SpawnInv, Sequence, Stack, Idle, StatusOf, Name, Built, daemon
<1>6. AnswerInv' /\ OrphanInv' /\ TeardownInv'
  BY <1>1 DEF AnswerInv, OrphanInv, TeardownInv, FailureIsHonest, Idle, Delivered, daemon
<1> QED BY <1>2, <1>3, <1>4, <1>5, <1>6

LEMMA PollAgainIs ==
  ASSUME Inv, PollAgain
  PROVE  /\ At("spawn", "poll") /\ UNCHANGED <<daemon, service, answer>>
         /\ call' \in Call /\ call'.op = "spawn" /\ call'.at = call.at /\ call'.up = call.up
         /\ call'.step = "sleep" /\ call'.now < HealthTimeout
         /\ faults' \in 0 .. MaxFaults
<1>1. PICK d \in Delays : /\ Seen(call.now + d) = "again"
                          /\ call' = [call EXCEPT !.step = "sleep", !.now = @ + d]
  BY DEF PollAgain
<1>2. At("spawn", "poll") /\ UNCHANGED <<daemon, service, answer, faults>>
  BY DEF PollAgain, NoFault
<1>3. ~(call.now + d >= HealthTimeout)
  BY <1>1, SeenIs
<1>4. call \in Call /\ "sleep" \in Steps /\ faults' \in 0 .. MaxFaults
  BY <1>2 DEF Inv, TypeOK, Steps
<1>5. call.now \in Nat
  BY <1>4 DEF Call
<1>6. \A t, u : /\ t \in Nat /\ u \in Delays /\ ~(t + u >= HealthTimeout)
                => t + u \in 0 .. MaxWait /\ t + u < HealthTimeout
  BY WaitAssumption DEF Delays, MaxWait
<1>7. call.now + d \in 0 .. MaxWait /\ call.now + d < HealthTimeout
  BY <1>3, <1>5, <1>6, Zenon
<1>8. call' = Waited(call, "sleep", d)
  BY <1>1, Zenon DEF Waited
<1> QED BY <1>2, <1>4, <1>7, <1>8, WaitedIs DEF At

LEMMA PollAgainInv == ASSUME Inv, PollAgain PROVE Inv'
BY PollAgainIs, SpawnWaits DEF At

LEMMA SleepIs ==
  ASSUME Inv, Sleep
  PROVE  /\ At("spawn", "sleep") /\ UNCHANGED <<daemon, service, answer>>
         /\ call' \in Call /\ call'.op = "spawn" /\ call'.at = call.at /\ call'.up = call.up
         /\ call'.step = "poll" /\ call'.now <= (HealthTimeout - 1) + PollInterval
         /\ faults' \in 0 .. MaxFaults
<1>1. call' = [call EXCEPT !.step = "poll", !.now = @ + PollInterval]
  BY DEF Sleep
<1>2. At("spawn", "sleep") /\ UNCHANGED <<daemon, service, answer, faults>>
  BY DEF Sleep, NoFault
<1>3. call \in Call /\ "poll" \in Steps /\ faults' \in 0 .. MaxFaults
  BY <1>2 DEF Inv, TypeOK, Steps
<1>4. call.now \in Nat /\ call.now < HealthTimeout
  BY <1>2, <1>3 DEF Call, At, Inv, StepsInv
<1>5. \A t : /\ t \in Nat /\ t < HealthTimeout
             => /\ t + PollInterval \in 0 .. MaxWait
                /\ t + PollInterval <= (HealthTimeout - 1) + PollInterval
  BY WaitAssumption DEF MaxWait
<1>6. /\ call.now + PollInterval \in 0 .. MaxWait
      /\ call.now + PollInterval <= (HealthTimeout - 1) + PollInterval
  BY <1>4, <1>5, Zenon
<1>7. call' = Waited(call, "poll", PollInterval)
  BY <1>1, Zenon DEF Waited
<1> QED BY <1>2, <1>3, <1>6, <1>7, WaitedIs DEF At

LEMMA SleepInv == ASSUME Inv, Sleep PROVE Inv'
BY SleepIs, SpawnWaits DEF At

(* The wait gives up: the container is gone, or the time is over.          *)
LEMMA SpawnGivesUp ==
  ASSUME Inv, At("spawn", "poll"), call' \in Call, call'.op = "none", call'.step = "poll",
         call'.at = call.at, answer' \in {"gone", "deadline"},
         answer' = "gone" => StatusOf(Name) # "running",
         answer' = "deadline" => call'.now \in HealthTimeout .. MaxWait,
         UNCHANGED <<daemon, service>>, faults' \in 0 .. MaxFaults
  PROVE  Inv'
<1> USE DEF Inv
<1>1. /\ answer = "none" /\ late = {} /\ orphans = {}
      /\ StatusOf(Name) \in {"running", "exited"}
  BY DEF SpawnInv, At
<1>2. TypeOK'
  BY DEF TypeOK, DaemonTypeOK, daemon, Answers, SpawnErrors
<1>3. StepsInv'
  BY DEF StepsInv, Sequence
<1>4. DaemonInv'
  BY DEF DaemonInv, daemon, Sequence, Stack, Mine, Own, StatusOf
<1>5. SpawnInv' /\ OrphanInv' /\ TeardownInv'
  BY <1>1 DEF SpawnInv, OrphanInv, TeardownInv, daemon
<1>6. AnswerInv'
  BY <1>1 DEF AnswerInv, FailureIsHonest, Idle, Delivered, Name, Sequence, StatusOf, daemon
<1> QED BY <1>2, <1>3, <1>4, <1>5, <1>6

LEMMA PollGivesUpIs ==
  ASSUME Inv, PollGivesUp
  PROVE  /\ At("spawn", "poll") /\ UNCHANGED <<daemon, service>>
         /\ call' \in Call /\ call'.op = "none" /\ call'.step = "poll"
         /\ call'.at = call.at /\ call'.up = call.up
         /\ answer' \in {"gone", "deadline"}
         /\ answer' = "gone" => StatusOf(Name) # "running"
         /\ answer' = "deadline" => call'.now \in HealthTimeout .. MaxWait
         /\ faults' \in 0 .. MaxFaults
<1>1. PICK d \in Delays : /\ Seen(call.now + d) \in {"gone", "deadline"}
                          /\ call' = [call EXCEPT !.op = "none", !.now = @ + d]
                          /\ answer' = Seen(call.now + d)
  BY DEF PollGivesUp
<1>2. At("spawn", "poll") /\ UNCHANGED <<daemon, service, faults>>
  BY DEF PollGivesUp, NoFault
<1>3. /\ answer' \in {"gone", "deadline"}
      /\ answer' = "gone" => StatusOf(Name) # "running"
      /\ answer' = "deadline" => call.now + d >= HealthTimeout
  BY <1>1, SeenIs
<1>4. call \in Call /\ faults' \in 0 .. MaxFaults
  BY <1>2 DEF Inv, TypeOK
<1>5. call.now \in Nat /\ call.now <= (HealthTimeout - 1) + PollInterval
  BY <1>2, <1>4 DEF Call, At, Inv, StepsInv
<1>6. \A t, u : /\ t \in Nat /\ u \in Delays /\ t <= (HealthTimeout - 1) + PollInterval
                => /\ t + u \in 0 .. MaxWait
                   /\ t + u >= HealthTimeout => t + u \in HealthTimeout .. MaxWait
  BY WaitAssumption DEF Delays, MaxWait
<1>7. call.now + d \in 0 .. MaxWait
      /\ (call.now + d >= HealthTimeout => call.now + d \in HealthTimeout .. MaxWait)
  BY <1>5, <1>6, Zenon
<1>8. call' = GaveUp(call, d)
  BY <1>1, Zenon DEF GaveUp
<1> QED BY <1>2, <1>3, <1>4, <1>7, <1>8, GaveUpIs DEF At

LEMMA PollGivesUpInv == ASSUME Inv, PollGivesUp PROVE Inv'
BY PollGivesUpIs, SpawnGivesUp

LEMMA ExtensionInv == ASSUME Inv, Extension PROVE Inv'
<1>1. /\ call.op = "spawn" /\ call.step = "extension" /\ UNCHANGED <<daemon, service>>
      /\ Return("spawned") \/ Return("no extension")
      /\ NoFault \/ Fault("error")
  BY DEF Extension, At
<1>2. IsLast /\ Built(call.at) /\ config \in BOOLEAN /\ faults' \in 0 .. MaxFaults
  BY <1>1, FaultType DEF Inv, StepsInv, SpawnInv, FaultKinds, TypeOK, DaemonTypeOK
<1>3. CASE Return("spawned")
  BY <1>1, <1>2, <1>3, SpawnDelivers
<1>4. CASE Return("no extension")
  BY <1>1, <1>2, <1>4, SpawnEndsInv DEF daemon
<1> QED BY <1>1, <1>3, <1>4

LEMMA PortsInv == ASSUME Inv, Ports PROVE Inv'
<1>1. /\ call.op = "spawn" /\ call.step = "ports" /\ UNCHANGED <<daemon, service>>
      /\ Return("spawned") \/ Return("no port")
      /\ NoFault \/ Fault("port")
  BY DEF Ports, At
<1>2. IsLast /\ Built(call.at) /\ config \in BOOLEAN /\ faults' \in 0 .. MaxFaults
  BY <1>1, FaultType DEF Inv, StepsInv, SpawnInv, FaultKinds, TypeOK, DaemonTypeOK
<1>3. CASE Return("spawned")
  BY <1>1, <1>2, <1>3, SpawnDelivers
<1>4. CASE Return("no port")
  BY <1>1, <1>2, <1>4, SpawnEndsInv DEF daemon
<1> QED BY <1>1, <1>3, <1>4
-----------------------------------------------------------------------------
(* teardown and is_alive                                                   *)

(* A container that was removed is gone, and no orphan.                    *)
LEMMA RemoveContainerInv == ASSUME Inv, RemoveContainer PROVE Inv'
<1> USE DEF Inv
<1>1. /\ InOrder(Sequence, service) /\ call.at \in 1 .. Len(Sequence) /\ Len(Sequence) \in 1 .. 5
      /\ Name \in Names /\ Name \in Mine
  BY SequenceInOrder, NameIsOne
<1>2. call.op = "teardown" /\ call.step = "remove"
  BY DEF RemoveContainer, At
<1>3. /\ containers' = [containers EXCEPT ![Name] = Absent] /\ orphans' = orphans \ {Name}
      /\ UNCHANGED <<network, config, wasHealthy, late, service, faults>>
  BY <1>1, <1>2, DoRemove, AnsweredFrame DEF RemoveContainer
<1>4. /\ containers' \in [Names -> Container]
      /\ containers'[Name].status = "absent" /\ containers'[Name].health # "healthy"
      /\ \A n \in Names \ {Name} : containers'[n] = containers[n]
  BY <1>1, <1>3 DEF TypeOK, DaemonTypeOK, Container, Health, Absent
<1>5. \/ /\ ~IsLast /\ call'.op = "teardown" /\ call'.step = "remove" /\ call'.at = call.at + 1
         /\ call' \in Call /\ answer' = answer
      \/ /\ IsLast /\ Stack /\ call'.op = "teardown" /\ call'.step = "removeNetwork"
         /\ call'.at = call.at /\ call' \in Call /\ answer' = answer
      \/ /\ IsLast /\ ~Stack /\ call'.op = "none" /\ call'.at = call.at
         /\ call' \in Call /\ answer' = "torn down"
  <2>1. CASE ~IsLast
    <3>1. call' = [call EXCEPT !.at = @ + 1] /\ answer' = answer
      BY <2>1 DEF RemoveContainer
    <3>2. call.at + 1 \in 1 .. 5
      BY <2>1, NextIsOne
    <3> QED BY <1>2, <2>1, <3>1, <3>2 DEF TypeOK, Call
  <2>2. CASE IsLast /\ Stack
    <3>1. Goto("removeNetwork")
      BY <2>2 DEF RemoveContainer
    <3> QED BY <1>2, <2>2, <3>1 DEF Goto, TypeOK, Call, Steps, DockerVerbs
  <2>3. CASE IsLast /\ ~Stack
    <3>1. Return("torn down")
      BY <2>3 DEF RemoveContainer
    <3> QED BY <2>3, <3>1, ReturnType
  <2> QED BY <2>1, <2>2, <2>3
<1>6. TypeOK'
  BY <1>3, <1>4, <1>5 DEF TypeOK, DaemonTypeOK, Answers
<1>7. StepsInv'
  <2>1. CASE call'.at = call.at + 1 /\ ~IsLast /\ call'.op = "teardown" /\ call'.step = "remove"
    BY <1>1, <1>3, <2>1 DEF StepsInv, Sequence, IsLast
  <2>2. CASE call'.at = call.at /\ (call'.op = "none" \/ (Stack /\ IsLast /\ call'.op = "teardown"
                                                /\ call'.step = "removeNetwork"))
    BY <1>3, <2>2 DEF StepsInv, Sequence, IsLast, Stack
  <2> QED BY <1>5, <2>1, <2>2
<1>8. DaemonInv'
  BY <1>1, <1>3, <1>4 DEF DaemonInv, Sequence, Stack, Mine, Own, StatusOf
<1>9. SpawnInv'
  BY <1>2, <1>3, <1>5 DEF SpawnInv, Idle
<1>10. AnswerInv'
  BY <1>2, <1>3, <1>5 DEF AnswerInv, FailureIsHonest, Idle, Delivered
<1>11. OrphanInv'
  BY <1>3, <1>4 DEF OrphanInv, StatusOf
<1>12. TeardownInv'
  <2>1. ASSUME call'.op = "teardown", NEW k \in 1 .. Len(Sequence),
               k < call'.at \/ call'.step # "remove", containers'[Sequence[k]].status # "absent"
        PROVE  Sequence[k] \in orphans'
    <3>1. k < call.at \/ k = call.at
      BY <1>1, <1>5, <2>1 DEF IsLast
    <3>2. Sequence[k] # Name /\ Sequence[k] \in Names
      BY <1>1, <1>4, <2>1 DEF InOrder
    <3>3. k < call.at
      BY <3>1, <3>2 DEF Name
    <3> QED BY <1>2, <1>3, <1>4, <2>1, <3>2, <3>3 DEF TeardownInv, StatusOf
  <2>2. call'.op = "teardown" => call'.step # "removeConfig"
    BY <1>5
  <2> QED BY <1>3, <2>1, <2>2 DEF TeardownInv, StatusOf, Sequence
<1> QED BY <1>6, <1>7, <1>8, <1>9, <1>10, <1>11, <1>12

LEMMA RemoveNetworkInv == ASSUME Inv, RemoveNetwork PROVE Inv'
<1> USE DEF Inv
<1>1. call.op = "teardown" /\ call.step = "removeNetwork" /\ Stack /\ IsLast
  BY DEF RemoveNetwork, At, StepsInv
<1>2. /\ ~network' /\ network' \in BOOLEAN /\ orphans' = orphans \ {"network"}
      /\ UNCHANGED <<containers, config, wasHealthy, late, service, answer, faults>>
  BY <1>1, DoNetwork, AnsweredFrame DEF RemoveNetwork, Goto
<1>3. /\ call' \in Call /\ call'.op = "teardown" /\ call'.step = "removeConfig"
      /\ call'.at = call.at
  BY <1>1 DEF RemoveNetwork, Goto, TypeOK, Call, Steps, FileVerbs
<1>4. TypeOK'
  BY <1>2, <1>3 DEF TypeOK, DaemonTypeOK
<1>5. StepsInv'
  BY <1>1, <1>2, <1>3 DEF StepsInv, Sequence, Stack, IsLast
<1>6. DaemonInv'
  BY <1>1, <1>2 DEF DaemonInv, Sequence, Stack, Mine, Own, StatusOf
<1>7. SpawnInv'
  BY <1>2, <1>3 DEF SpawnInv, Idle
<1>8. AnswerInv'
  BY <1>1, <1>2, <1>3 DEF AnswerInv, FailureIsHonest, Idle, Delivered
<1>9. OrphanInv'
  BY <1>2 DEF OrphanInv, StatusOf
<1>10. TeardownInv'
  <2>1. \A k \in 1 .. Len(Sequence) : containers[Sequence[k]].status # "absent"
                                      => Sequence[k] \in orphans /\ Sequence[k] # "network"
    BY <1>1, SequenceInOrder, WhatExists DEF TeardownInv, StatusOf, InOrder
  <2> QED BY <1>2, <1>3, <2>1 DEF TeardownInv, StatusOf, Sequence
<1> QED BY <1>4, <1>5, <1>6, <1>7, <1>8, <1>9, <1>10

(* The end of a teardown that succeeded.                                   *)
LEMMA TeardownSucceeds ==
  ASSUME Inv, call.op = "teardown", Stack, Return("torn down"),
         \/ ~config' /\ orphans' = orphans \ {"config"}
         \/ UNCHANGED config /\ orphans' = orphans \cup {"config"},
         config' \in BOOLEAN,
         UNCHANGED <<containers, network, wasHealthy, late, service>>, faults' \in 0 .. MaxFaults
  PROVE  Inv'
<1> USE DEF Inv
<1>1. /\ call' \in Call /\ answer' = "torn down" /\ call'.op = "none" /\ call'.step = call.step
      /\ call'.at = call.at /\ call'.now = call.now
  BY ReturnType
<1>2. TypeOK'
  BY <1>1 DEF TypeOK, DaemonTypeOK, Answers, Resources
<1>3. StepsInv'
  BY <1>1 DEF StepsInv, Sequence
<1>4. DaemonInv'
  BY DEF DaemonInv, Sequence, Stack, Mine, Own, StatusOf
<1>5. SpawnInv' /\ AnswerInv' /\ TeardownInv'
  BY <1>1 DEF SpawnInv, AnswerInv, TeardownInv, FailureIsHonest, Idle, Delivered
<1>6. OrphanInv'
  BY WhatExists DEF OrphanInv, StatusOf
<1> QED BY <1>2, <1>3, <1>4, <1>5, <1>6

LEMMA RemoveConfigInv == ASSUME Inv, RemoveConfig PROVE Inv'
<1>1. /\ call.op = "teardown" /\ call.step = "removeConfig" /\ call.step \in FileVerbs
      /\ Answered /\ Return("torn down")
  BY DEF RemoveConfig, At, FileVerbs
<1>2. Stack
  BY <1>1 DEF Inv, StepsInv
<1>3. /\ ~config' /\ config' \in BOOLEAN /\ orphans' = orphans \ {"config"}
      /\ UNCHANGED <<containers, network, wasHealthy, late, service, faults>>
  BY <1>1, DoConfig, AnsweredFrame
<1>4. faults' \in 0 .. MaxFaults
  BY <1>3 DEF Inv, TypeOK
<1> QED BY <1>1, <1>2, <1>3, <1>4, TeardownSucceeds

LEMMA RemoveConfigFailsInv == ASSUME Inv, RemoveConfigFails PROVE Inv'
<1>1. /\ call.op = "teardown" /\ call.step = "removeConfig" /\ Fault("error")
      /\ Return("torn down") /\ orphans' = orphans \cup {"config"}
      /\ UNCHANGED <<containers, network, config, wasHealthy, late, service>>
  BY DEF RemoveConfigFails, At
<1>2. Stack /\ config' \in BOOLEAN
  BY <1>1 DEF Inv, StepsInv, TypeOK, DaemonTypeOK
<1>3. faults' \in 0 .. MaxFaults
  BY <1>1, FaultType DEF Inv, FaultKinds
<1> QED BY <1>1, <1>2, <1>3, TeardownSucceeds

(* A service that did not run when the call began is still to be looked at.*)
LEMMA InspectServiceInv == ASSUME Inv, InspectService PROVE Inv'
<1>1. call.op = "is_alive" /\ call.step = "inspect" /\ UNCHANGED <<daemon, service, faults>>
  BY DEF InspectService, At, NoFault
<1>2. faults' \in 0 .. MaxFaults
  BY <1>1 DEF Inv, TypeOK
<1>3. CASE Return("dead") \/ Return("alive")
  BY <1>1, <1>2, <1>3, IsAliveEndsInv DEF daemon
<1>4. CASE /\ StatusOf(Name) = "running" /\ ~IsLast
           /\ call' = [call EXCEPT !.at = @ + 1] /\ UNCHANGED answer
  <2> USE DEF Inv
  <2>1. call.at \in 1 .. Len(Sequence) /\ Len(Sequence) \in 1 .. 5
    BY NameIsOne
  <2>2. /\ answer \in Delivered /\ late = {} /\ orphans = {} /\ Whole
        /\ ~call.up => \E k \in call.at .. Len(Sequence) : StatusOf(Sequence[k]) # "running"
    BY <1>1 DEF AnswerInv
  <2>3. call.at + 1 \in 1 .. Len(Sequence) /\ call.at + 1 \in 1 .. 5
    BY <1>4, NextIsOne
  <2>4. /\ call' \in Call /\ call'.op = "is_alive" /\ call'.step = "inspect"
        /\ call'.at = call.at + 1 /\ call'.up = call.up
    BY <1>1, <1>4, <2>3 DEF TypeOK, Call
  <2>5. TypeOK'
    BY <1>1, <1>4, <2>4 DEF TypeOK, DaemonTypeOK, daemon
  <2>6. StepsInv'
    BY <1>1, <2>3, <2>4 DEF StepsInv, Sequence
  <2>7. DaemonInv'
    BY <1>1 DEF DaemonInv, daemon, Sequence, Stack, Mine, Own, StatusOf
  <2>8. SpawnInv' /\ OrphanInv' /\ TeardownInv'
    BY <1>1, <1>4, <2>2, <2>4 DEF SpawnInv, OrphanInv, TeardownInv, daemon, Delivered, Idle
  <2>9. ~call.up => \E k \in call.at + 1 .. Len(Sequence) : StatusOf(Sequence[k]) # "running"
    BY <1>4, <2>1, <2>2 DEF Name
  <2>10. AnswerInv'
    BY <1>1, <1>4, <2>2, <2>4, <2>9
    DEF AnswerInv, FailureIsHonest, Idle, Whole, Built, Stack, Sequence, StatusOf, daemon
  <2> QED BY <2>5, <2>6, <2>7, <2>8, <2>10
<1> QED BY <1>3, <1>4, InspectIs DEF InspectService
-----------------------------------------------------------------------------
(* The daemon                                                              *)

(* A request can be late only behind a spawn that was cut short, or during *)
(* or after a teardown.                                                    *)
LEMMA WhenLate ==
  ASSUME Inv, NEW q \in late
  PROVE  /\ answer # "none" /\ answer \notin Delivered
         /\ call.op \notin {"spawn", "is_alive"}
         /\ Idle => answer \notin {"gone", "deadline"}
         /\ Own(q) /\ q \in Request
BY DEF Inv, SpawnInv, AnswerInv, DaemonInv, TypeOK, DaemonTypeOK

LEMMA LateCallInv ==
  ASSUME Inv, NEW q \in late, late' \subseteq late, UNCHANGED <<service, call, answer>>
  PROVE  StepsInv' /\ SpawnInv' /\ AnswerInv'
<1>1. /\ answer # "none" /\ answer \notin Delivered
      /\ call.op \notin {"spawn", "is_alive"}
      /\ Idle => answer \notin {"gone", "deadline"}
  BY WhenLate
<1>2. StepsInv'
  BY DEF Inv, StepsInv, Sequence, Stack, IsLast
<1>3. SpawnInv' /\ AnswerInv'
  BY <1>1 DEF SpawnInv, AnswerInv, FailureIsHonest, Idle
<1> QED BY <1>2, <1>3

LEMMA LateLost ==
  ASSUME Inv, NEW q \in late, late' = late \ {q},
         UNCHANGED <<containers, network, config, wasHealthy, orphans>>,
         UNCHANGED <<service, call, answer, faults>>
  PROVE  Inv'
<1> USE DEF Inv
<1>1. StepsInv' /\ SpawnInv' /\ AnswerInv'
  BY LateCallInv
<1>2. TypeOK'
  BY DEF TypeOK, DaemonTypeOK
<1>3. DaemonInv'
  BY DEF DaemonInv, Sequence, Stack, Mine, Own, StatusOf
<1>4. OrphanInv' /\ TeardownInv'
  BY DEF OrphanInv, TeardownInv, Sequence, StatusOf
<1> QED BY <1>1, <1>2, <1>3, <1>4

(* The container it made is an orphan, as yet the only one.                *)
LEMMA LateCreate ==
  ASSUME Inv, NEW q \in late, q.verb = "create", late' = late \ {q},
         ~Refused(q), Perform(q), orphans' = orphans \cup {q.on},
         UNCHANGED wasHealthy, UNCHANGED <<service, call, answer, faults>>
  PROVE  Inv'
<1> USE DEF Inv
<1>1. q.on \in Mine /\ q.on \in Names /\ q.on \in Resources /\ Own(q)
  BY WhenLate, NameIsOne DEF Own, FileVerbs, Resources
<1>2. StepsInv' /\ SpawnInv' /\ AnswerInv'
  BY LateCallInv
<1>3. containers' = [containers EXCEPT ![q.on] = Created(q.on)] /\ UNCHANGED <<network, config>>
  BY DEF Perform, SetContainer, FileVerbs
<1>4. /\ containers' \in [Names -> Container]
      /\ containers'[q.on].status = "created" /\ containers'[q.on].health # "healthy"
      /\ \A n \in Names \ {q.on} : containers'[n] = containers[n]
  BY <1>1, <1>3 DEF TypeOK, DaemonTypeOK, Container, Health, Created
<1>5. orphans \subseteq {"config"} /\ \A p \in late' : p.verb \notin Making
  BY DEF OrphanInv, Making
<1>6. TypeOK'
  BY <1>1, <1>3, <1>4 DEF TypeOK, DaemonTypeOK
<1>7. DaemonInv'
  BY <1>1, <1>3, <1>4 DEF DaemonInv, Sequence, Stack, Mine, Own, StatusOf
<1>8. OrphanInv'
  BY <1>1, <1>4, <1>5, WhatExists DEF OrphanInv, StatusOf
<1>9. TeardownInv'
  BY <1>1, <1>3, <1>4, <1>5, SequenceInOrder DEF TeardownInv, Sequence, StatusOf, InOrder
<1> QED BY <1>2, <1>6, <1>7, <1>8, <1>9

(* It finds a container that is there and is not an orphan.                *)
LEMMA LateStart ==
  ASSUME Inv, NEW q \in late, q.verb = "start", late' = late \ {q},
         ~Refused(q), Perform(q), orphans' = orphans \ {q.on},
         UNCHANGED wasHealthy, UNCHANGED <<service, call, answer, faults>>
  PROVE  Inv' /\ q.on \notin orphans /\ StatusOf(q.on) # "absent"
<1> USE DEF Inv
<1>1. q.on \in Mine /\ q.on \in Names /\ q.on \in Resources /\ Own(q)
  BY WhenLate, NameIsOne DEF Own, FileVerbs, Resources
<1>2. StepsInv' /\ SpawnInv' /\ AnswerInv'
  BY LateCallInv
<1>3. /\ containers' = [containers EXCEPT ![q.on] = IF StatusOf(q.on) = "running"
                                             THEN containers[q.on] ELSE Started(q.on)]
      /\ UNCHANGED <<network, config>>
  BY DEF Perform, SetContainer, FileVerbs
<1>4. /\ containers' \in [Names -> Container]
      /\ containers'[q.on].status = "running"
      /\ containers'[q.on].health = "healthy" => containers[q.on].health = "healthy"
      /\ \A n \in Names \ {q.on} : containers'[n] = containers[n]
  BY <1>1, <1>3 DEF TypeOK, DaemonTypeOK, Container, Health, Started, StatusOf
<1>5. orphans \subseteq {"config"} /\ \A p \in late' : p.verb \notin Making
  BY DEF OrphanInv, Making
<1>6. q.on \notin orphans /\ StatusOf(q.on) # "absent"
  BY <1>1, <1>5, WhatExists DEF Refused
<1>7. orphans' = orphans
  BY <1>6
<1>8. TypeOK'
  BY <1>1, <1>3, <1>4, <1>7 DEF TypeOK, DaemonTypeOK
<1>9. DaemonInv'
  BY <1>1, <1>3, <1>4 DEF DaemonInv, Sequence, Stack, Mine, Own, StatusOf
<1>10. OrphanInv'
  BY <1>4, <1>5, <1>7, WhatExists DEF OrphanInv, StatusOf
<1>11. TeardownInv'
  <2>1. ASSUME call.op = "teardown", NEW k \in 1 .. Len(Sequence),
               k < call.at \/ call.step # "remove", containers'[Sequence[k]].status # "absent"
        PROVE  Sequence[k] \in orphans
    <3>1. Sequence[k] \in Names
      BY SequenceInOrder DEF InOrder
    <3>2. Sequence[k] # q.on
      BY <1>6, <2>1 DEF TeardownInv
    <3> QED BY <1>4, <2>1, <3>1, <3>2 DEF TeardownInv, StatusOf
  <2> QED BY <1>3, <1>7, <2>1 DEF TeardownInv, Sequence, StatusOf
<1> QED BY <1>2, <1>6, <1>8, <1>9, <1>10, <1>11

LEMMA LateRemove ==
  ASSUME Inv, NEW q \in late, q.verb = "remove", late' = late \ {q},
         Perform(q), orphans' = orphans \ {q.on},
         UNCHANGED wasHealthy, UNCHANGED <<service, call, answer, faults>>
  PROVE  Inv'
<1> USE DEF Inv
<1>1. q.on \in Mine /\ q.on \in Names /\ Own(q)
  BY WhenLate, NameIsOne DEF Own, FileVerbs
<1>2. StepsInv' /\ SpawnInv' /\ AnswerInv'
  BY LateCallInv
<1>3. containers' = [containers EXCEPT ![q.on] = Absent] /\ UNCHANGED <<network, config>>
  BY DEF Perform, SetContainer, FileVerbs
<1>4. /\ containers' \in [Names -> Container]
      /\ containers'[q.on].status = "absent" /\ containers'[q.on].health # "healthy"
      /\ \A n \in Names \ {q.on} : containers'[n] = containers[n]
  BY <1>1, <1>3 DEF TypeOK, DaemonTypeOK, Container, Health, Absent
<1>5. TypeOK'
  BY <1>1, <1>3, <1>4 DEF TypeOK, DaemonTypeOK
<1>6. DaemonInv'
  BY <1>1, <1>3, <1>4 DEF DaemonInv, Sequence, Stack, Mine, Own, StatusOf
<1>7. OrphanInv'
  BY <1>4 DEF OrphanInv, StatusOf
<1>8. TeardownInv'
  <2>1. "network" # q.on
    BY <1>1, WhatExists
  <2> QED BY <1>1, <1>3, <1>4, <2>1, SequenceInOrder DEF TeardownInv, Sequence, StatusOf, InOrder
<1> QED BY <1>2, <1>5, <1>6, <1>7, <1>8

LEMMA LateNetwork ==
  ASSUME Inv, NEW q \in late, q.verb \in {"createNetwork", "removeNetwork"}, late' = late \ {q},
         Perform(q),
         orphans' = IF q.verb = "createNetwork" THEN orphans \cup {q.on} ELSE orphans \ {q.on},
         UNCHANGED wasHealthy, UNCHANGED <<service, call, answer, faults>>
  PROVE  Inv'
<1> USE DEF Inv
<1>1. q.on = "network" /\ q.on \in Resources /\ Own(q) /\ Stack
  BY WhenLate DEF Own, FileVerbs, Resources
<1>2. StepsInv' /\ SpawnInv' /\ AnswerInv'
  BY LateCallInv
<1>3. /\ network' <=> q.verb = "createNetwork"
      /\ network' \in BOOLEAN
      /\ UNCHANGED <<containers, config>>
  <2>1. network' = (q.verb = "createNetwork") /\ UNCHANGED <<containers, config>>
    BY DEF Perform, FileVerbs
  <2> QED BY <2>1
<1>4. q.verb = "createNetwork" =>
        orphans \subseteq {"config"} /\ \A p \in late' : p.verb \notin Making
  BY DEF OrphanInv, Making
<1>5. TypeOK'
  BY <1>1, <1>3 DEF TypeOK, DaemonTypeOK
<1>6. DaemonInv'
  BY <1>1, <1>3 DEF DaemonInv, Sequence, Stack, Mine, Own, StatusOf
<1>7. OrphanInv'
  BY <1>1, <1>3, <1>4, WhatExists DEF OrphanInv, StatusOf
<1>8. TeardownInv'
  <2>1. \A k \in 1 .. Len(Sequence) : Sequence[k] # "network"
    BY SequenceInOrder, WhatExists DEF InOrder
  <2> QED BY <1>1, <1>3, <2>1 DEF TeardownInv, Sequence, StatusOf
<1> QED BY <1>2, <1>5, <1>6, <1>7, <1>8

LEMMA LateConfig ==
  ASSUME Inv, NEW q \in late, q.verb \in FileVerbs, late' = late \ {q}, Perform(q),
         orphans' = IF q.verb = "writeConfig" THEN orphans \cup {q.on} ELSE orphans \ {q.on},
         UNCHANGED wasHealthy, UNCHANGED <<service, call, answer, faults>>
  PROVE  Inv'
<1> USE DEF Inv
<1>1. q.on = "config" /\ q.on \in Resources /\ Own(q) /\ Stack
  BY WhenLate DEF Own, FileVerbs, Resources
<1>2. StepsInv' /\ SpawnInv' /\ AnswerInv'
  BY LateCallInv
<1>3. config' \in BOOLEAN /\ UNCHANGED <<containers, network>>
  <2>1. config' = (q.verb = "writeConfig") /\ UNCHANGED <<containers, network>>
    BY DEF Perform, FileVerbs
  <2> QED BY <2>1
<1>4. TypeOK'
  BY <1>1, <1>3 DEF TypeOK, DaemonTypeOK
<1>5. DaemonInv'
  BY <1>1, <1>3 DEF DaemonInv, Sequence, Stack, Mine, Own, StatusOf
<1>6. OrphanInv'
  BY <1>1, <1>3, WhatExists DEF OrphanInv, StatusOf
<1>7. TeardownInv'
  <2>1. \A k \in 1 .. Len(Sequence) : Sequence[k] # "config"
    BY SequenceInOrder, WhatExists DEF InOrder
  <2> QED BY <1>1, <1>3, <2>1 DEF TeardownInv, Sequence, StatusOf
<1> QED BY <1>2, <1>4, <1>5, <1>6, <1>7

LEMMA LateInv ==
  ASSUME Inv, NEW q \in late, LateRequest(q), UNCHANGED <<service, call, answer, faults>>
  PROVE  Inv'
<1>1. late' = late \ {q} /\ UNCHANGED wasHealthy
  BY DEF LateRequest
<1>2. CASE UNCHANGED <<containers, network, config, orphans>>
  BY <1>1, <1>2, LateLost
<1>3. CASE /\ ~Refused(q) /\ Perform(q)
           /\ orphans' = IF Makes(q) THEN orphans \cup {q.on} ELSE orphans \ {q.on}
  <2>1. q.verb \in {"create", "start", "remove", "createNetwork", "removeNetwork"} \cup FileVerbs
    BY WhenLate DEF Own
  <2>2. CASE q.verb = "create"
    BY <1>1, <1>3, <2>2, LateCreate DEF Makes
  <2>3. CASE q.verb = "start"
    BY <1>1, <1>3, <2>3, LateStart DEF Makes
  <2>4. CASE q.verb = "remove"
    BY <1>1, <1>3, <2>4, LateRemove DEF Makes
  <2>5. CASE q.verb \in {"createNetwork", "removeNetwork"}
    BY <1>1, <1>3, <2>5, LateNetwork DEF Makes
  <2>6. CASE q.verb \in FileVerbs
    BY <1>1, <1>3, <2>6, LateConfig DEF Makes, FileVerbs
  <2> QED BY <2>1, <2>2, <2>3, <2>4, <2>5, <2>6
<1> QED BY <1>2, <1>3 DEF LateRequest
LEMMA HealthCheckInv ==
  ASSUME Inv, NEW n \in Names, HealthCheck(n), UNCHANGED <<service, call, answer, faults>>
  PROVE  Inv'
<1> USE DEF Inv
<1>1. PICK h \in {"healthy", "unhealthy"} :
        /\ containers' = [containers EXCEPT ![n] = [containers[n] EXCEPT !.health = h]]
        /\ wasHealthy' = IF h = "healthy" THEN wasHealthy \cup {n} ELSE wasHealthy
  BY DEF HealthCheck, SetContainer
<1>2. UNCHANGED <<network, config, late, orphans>>
  BY DEF HealthCheck, SetContainer
<1>3. /\ containers' \in [Names -> Container]
      /\ \A m \in Names : containers'[m].status = containers[m].status
      /\ \A m \in Names \ {n} : containers'[m] = containers[m]
      /\ containers'[n].health = h
  BY <1>1 DEF TypeOK, DaemonTypeOK, Container, Health
<1>4. wasHealthy \subseteq wasHealthy' /\ wasHealthy' \subseteq Names
  BY <1>1 DEF TypeOK, DaemonTypeOK
<1>5. InOrder(Sequence, service) /\ Name \in Names /\ Mine \subseteq Names
      /\ call.at \in 1 .. Len(Sequence)
  BY SequenceInOrder, NameIsOne
<1>6. TypeOK'
  BY <1>2, <1>3, <1>4 DEF TypeOK, DaemonTypeOK
<1>7. StepsInv'
  BY DEF StepsInv, Sequence, Stack, IsLast
<1>8. DaemonInv'
  <2>1. \A m \in Names : containers'[m].health = "healthy" => m \in wasHealthy'
    BY <1>1, <1>3, <1>4 DEF DaemonInv
  <2> QED BY <1>2, <1>3, <2>1 DEF DaemonInv, Sequence, Stack, Mine, Own, StatusOf
<1>9. SpawnInv'
  BY <1>2, <1>3, <1>4, <1>5
  DEF SpawnInv, Sequence, Stack, Idle, StatusOf, Built, Name, InOrder
<1>10. AnswerInv'
  BY <1>2, <1>3, <1>4, <1>5
  DEF AnswerInv, FailureIsHonest, Whole, Sequence, Stack, Idle, StatusOf, Built, Name, InOrder
<1>11. OrphanInv'
  BY <1>2, <1>3 DEF OrphanInv, StatusOf
<1>12. TeardownInv'
  BY <1>2, <1>3, <1>5 DEF TeardownInv, Sequence, StatusOf, InOrder
<1> QED BY <1>6, <1>7, <1>8, <1>9, <1>10, <1>11, <1>12

LEMMA ExitInv ==
  ASSUME Inv, NEW n \in Names, Exit(n), UNCHANGED <<service, call, answer>>,
         faults' \in 0 .. MaxFaults
  PROVE  Inv'
<1> USE DEF Inv
<1>1. /\ StatusOf(n) = "running" /\ UNCHANGED <<network, config, wasHealthy, late, orphans>>
      /\ containers' = [containers EXCEPT ![n] = [status |-> "exited", health |-> "none"]]
  BY DEF Exit, SetContainer
<1>2. /\ containers' \in [Names -> Container]
      /\ \A m \in Names \ {n} : containers'[m] = containers[m]
      /\ containers'[n].status = "exited" /\ containers'[n].health # "healthy"
  BY <1>1 DEF TypeOK, DaemonTypeOK, Container, Health
<1>3. InOrder(Sequence, service) /\ Name \in Names /\ Mine \subseteq Names
      /\ call.at \in 1 .. Len(Sequence)
  BY SequenceInOrder, NameIsOne
<1>4. TypeOK'
  BY <1>1, <1>2 DEF TypeOK, DaemonTypeOK
<1>5. StepsInv'
  BY DEF StepsInv, Sequence, Stack, IsLast
<1>6. DaemonInv'
  BY <1>1, <1>2 DEF DaemonInv, Sequence, Stack, Mine, Own, StatusOf
<1>7. SpawnInv'
  BY <1>1, <1>2, <1>3
  DEF SpawnInv, Sequence, Stack, Idle, StatusOf, Built, Name, InOrder
<1>8. AnswerInv'
  BY <1>1, <1>2, <1>3
  DEF AnswerInv, FailureIsHonest, Whole, Sequence, Stack, Idle, StatusOf, Built, Name, InOrder
<1>9. OrphanInv'
  BY <1>1, <1>2 DEF OrphanInv, StatusOf
<1>10. TeardownInv'
  BY <1>1, <1>2, <1>3 DEF TeardownInv, Sequence, StatusOf, InOrder
<1> QED BY <1>4, <1>5, <1>6, <1>7, <1>8, <1>9, <1>10

LEMMA DaemonStepInv == ASSUME Inv, Daemon PROVE Inv'
<1>1. CASE \E q \in late : LateRequest(q) /\ NoFault /\ UNCHANGED <<service, call, answer>>
  BY <1>1, LateInv DEF NoFault
<1>2. CASE \E n \in Names : HealthCheck(n) /\ NoFault /\ UNCHANGED <<service, call, answer>>
  BY <1>2, HealthCheckInv DEF NoFault
<1>3. CASE \E n \in Names : Exit(n) /\ Fault("exit") /\ UNCHANGED <<service, call, answer>>
  <2>1. faults' \in 0 .. MaxFaults
    BY <1>3, FaultType DEF Inv, FaultKinds
  <2> QED BY <1>3, <2>1, ExitInv
<1> QED BY <1>1, <1>2, <1>3 DEF Daemon
-----------------------------------------------------------------------------
(* The theorems                                                            *)

LEMMA NextInv == ASSUME Inv, [Next]_vars PROVE Inv'
<1>1. CASE UNCHANGED vars
  BY <1>1 DEF vars, daemon, Inv, TypeOK, DaemonTypeOK, StepsInv, DaemonInv, SpawnInv, AnswerInv,
              OrphanInv, TeardownInv, FailureIsHonest, Idle, Sequence, Stack, IsLast, Name, Mine,
              Own, StatusOf, Whole, Built
<1>2. CASE Spawn
  BY <1>2, CreateNetworkInv, WriteConfigInv, WriteConfigFailsInv, CreateContainerInv,
     StartContainerInv, PollReadyInv, PollAgainInv, PollGivesUpInv, SleepInv, ExtensionInv,
     PortsInv DEF Spawn
<1>3. CASE TearDown
  BY <1>3, RemoveContainerInv, RemoveNetworkInv, RemoveConfigInv, RemoveConfigFailsInv
  DEF TearDown
<1> QED
  BY <1>1, <1>2, <1>3, CallSpawnInv, CallTeardownInv, CallIsAliveInv, InspectServiceInv,
     RequestFailsInv, RequestTimesOutInv, CancelInv, CrashInv, DaemonStepInv DEF Next, Proceed

LEMMA Invariant == Spec => []Inv
<1>1. Init => Inv
  BY InitInv
<1>2. Inv /\ [Next]_vars => Inv'
  BY NextInv
<1> QED BY <1>1, <1>2, PTL DEF Spec

(* The variables have their types, and no wait lasts longer than MaxWait:  *)
(* one interval and one request beyond the deadline of                     *)
(* wait_until_healthy, whatever the three of them are.                     *)
THEOREM BackendsTypes == Spec => []TypeOK
<1>1. Inv => TypeOK
  BY DEF Inv
<1> QED BY <1>1, Invariant, PTL

(* Whatever fails, times out, exits or crashes, and however often: what    *)
(* spawn delivered is whole, and no request is left that could change it.  *)
THEOREM DeliveredIsWhole == Spec => []SpawnedComplete
<1>1. ASSUME Inv PROVE SpawnedComplete
  BY <1>1, NameIsOne DEF Inv, AnswerInv, SpawnedComplete, Whole, Built
<1> QED BY <1>1, Invariant, PTL

(* The daemon never has a reason to refuse what a backend asks of it, and  *)
(* a container is created after those it dials have been healthy.          *)
THEOREM RequestsAreInOrder == Spec => []NothingRefused
<1>1. ASSUME Inv PROVE NothingRefused
  <2> USE <1>1 DEF Inv
  <2>1. InOrder(Sequence, service) /\ call.at \in 1 .. Len(Sequence) /\ Name \in Names
    BY SequenceInOrder, NameIsOne
  <2>2. ASSUME call.op # "none", call.step \in DockerVerbs \cup FileVerbs
        PROVE  ~Refused(Awaited)
    <3>1. call.op \in {"spawn", "teardown"}
      BY <2>2 DEF TypeOK, Call, Ops, StepsInv, DockerVerbs, FileVerbs
    <3>2. CASE call.step = "create"
      BY <2>1, <3>1, <3>2, AwaitedIs, WhatExists DEF Refused, StepsInv, SpawnInv
    <3>3. CASE call.step = "start"
      <4>1. call.op = "spawn" /\ StatusOf(Name) = "created" /\ (Stack => network)
        BY <3>1, <3>3 DEF StepsInv, SpawnInv
      <4>2. SpecOf(Name).network <=> Stack
        BY <2>1 DEF InOrder, Name, Stack
      <4> QED BY <2>1, <3>3, <4>1, <4>2, AwaitedIs, WhatExists DEF Refused
    <3>4. CASE call.step = "createNetwork"
      BY <3>1, <3>4, AwaitedIs DEF Refused, StepsInv, SpawnInv
    <3>5. CASE call.step = "removeNetwork"
      <4>1. \A n \in Names : StatusOf(n) # "running"
        BY <3>1, <3>5, NameIsOne
        DEF StepsInv, DaemonInv, TeardownInv, OrphanInv
      <4> QED BY <3>5, <4>1, AwaitedIs DEF Refused
    <3>6. CASE call.step \in {"remove", "writeConfig", "removeConfig"}
      BY <3>6, AwaitedIs DEF Refused
    <3> QED BY <2>2, <3>2, <3>3, <3>4, <3>5, <3>6 DEF DockerVerbs, FileVerbs
  <2>3. ASSUME At("spawn", "create")
        PROVE  (SpecOf(Name).config => config) /\ SpecOf(Name).dials \subseteq wasHealthy
    <3>1. SpecOf(Name).config => config
      BY <2>1, <2>3 DEF At, SpawnInv, InOrder, Name, Stack
    <3>2. ASSUME NEW d \in SpecOf(Name).dials PROVE d \in wasHealthy
      <4>1. PICK j \in 1 .. call.at - 1 : Sequence[j] = d /\ SpecOf(d).health_check
        BY <2>1 DEF InOrder, Name
      <4>2. j \in 1 .. Len(Sequence) /\ j < call.at
        BY <2>1, <4>1 DEF InOrder
      <4> QED BY <2>3, <4>1, <4>2 DEF At, SpawnInv, Built
    <3> QED BY <3>1, <3>2
  <2> QED BY <2>2, <2>3 DEF NothingRefused, Idle, Outstanding
<1> QED BY <1>1, Invariant, PTL

(* What is left behind a teardown never runs, and is at most one container *)
(* or network.                                                             *)
THEOREM OrphansAreHarmless == Spec => []OrphansNeverRun
<1>1. ASSUME Inv PROVE OrphansNeverRun
  <2> DEFINE left == {r \in orphans \ {"config"} : Exists(r)}
  <2>1. \A r, s \in left : r = s
    BY <1>1 DEF Inv, OrphanInv
  <2>2. Cardinality(left) <= 1
    <3>1. CASE left = {}
      BY <3>1, FS_EmptySet
    <3>2. CASE left # {}
      <4>1. PICK r : left = {r}
        BY <2>1, <3>2
      <4> QED BY <4>1, FS_Singleton
    <3> QED BY <3>1, <3>2
  <2> QED BY <1>1, <2>2 DEF Inv, OrphanInv, OrphansNeverRun
<1> QED BY <1>1, Invariant, PTL

(* "gone" and "deadline" are said of a container that is gone, and of a    *)
(* wait that lasted as long as it may.                                     *)
THEOREM FailuresAreHonest == Spec => []FailureIsHonest
<1>1. Inv => FailureIsHonest
  BY DEF Inv, AnswerInv
<1> QED BY <1>1, Invariant, PTL
-----------------------------------------------------------------------------
(* The promise of the trait                                                *)

(* The abstract state.                                                     *)
Parts     == Mine \cup (IF Stack THEN {"network", "config"} ELSE {})
Footprint == {r \in Resources : Exists(r)} \ orphans
Up        == answer \in Delivered /\ IsUp

FootprintIs ==
  \A r : r \in Footprint <=>
           /\ r \notin orphans
           /\ \/ r \in Names /\ containers[r].status # "absent"
              \/ r = "network" /\ network
              \/ r = "config" /\ config
FootprintFits == Inv => Footprint \subseteq Parts

LEMMA AboutFootprint == FootprintIs /\ FootprintFits
<1>1. FootprintIs
  <2>1. \A r : r \in Footprint <=> r \in Resources /\ Exists(r) /\ r \notin orphans
    BY DEF Footprint
  <2>2. \A r : r \in Resources <=> r \in Names \/ r = "network" \/ r = "config"
    BY DEF Resources
  <2> QED BY <2>1, <2>2, WhatExists DEF FootprintIs, StatusOf
<1>2. FootprintFits
  BY <1>1 DEF FootprintFits, FootprintIs, Inv, DaemonInv, Parts, StatusOf
<1> QED BY <1>1, <1>2

LEMMA AboutFootprintNext == FootprintIs' /\ FootprintFits'
BY AboutFootprint, PTL

LEMMA SameFootprint ==
  ASSUME UNCHANGED <<containers, network, config, orphans>>
  PROVE  Footprint' = Footprint
<1>1. FootprintIs /\ FootprintIs'
  BY AboutFootprint, AboutFootprintNext
<1>2. \A r : r \in Footprint' <=> r \in Footprint
  BY <1>1 DEF FootprintIs
<1> QED BY <1>2

LEMMA SamePromise ==
  ASSUME UNCHANGED service
  PROVE  Parts' = Parts
BY DEF Parts, Mine, Stack, Sequence

(* The steps of the promise, of the abstract state.                        *)
LEMMA BuildIs ==
  ASSUME call.op = "spawn", Footprint \subseteq Footprint', Footprint' \subseteq Parts,
         call'.op = call.op, UNCHANGED answer, ~Up, ~Up', call'.up = call.up
  PROVE  Promise!Build
BY DEF Promise!Build, Footprint, Parts, Up

LEMMA DeliverIs ==
  ASSUME call.op = "spawn", call'.op = "none", call'.up = call.up, answer' = "spawned",
         Footprint = Parts, Footprint' = Footprint
  PROVE  Promise!Deliver
<1>1. Up' \in BOOLEAN
  BY DEF Up
<1> QED BY <1>1 DEF Promise!Deliver, Promise!Return, Footprint, Parts, Up

LEMMA GiveUpIs ==
  ASSUME call.op = "spawn", call'.op = "none", call'.up = call.up,
         answer' \notin Delivered \cup {"none", "torn down"},
         Footprint \subseteq Footprint', Footprint' \subseteq Parts, ~Up, ~Up'
  PROVE  Promise!GiveUp
BY DEF Promise!GiveUp, Promise!Return, Promise!Delivered, Delivered, Footprint, Parts, Up

LEMMA DismantleIs ==
  ASSUME call.op = "teardown", call'.op = "teardown", call'.up = call.up, UNCHANGED answer,
         Footprint' \subseteq Footprint, Up' => Up
  PROVE  Promise!Dismantle
<1>1. Up' \in BOOLEAN
  BY DEF Up
<1> QED BY <1>1 DEF Promise!Dismantle, Footprint, Up

LEMMA TearDownIs ==
  ASSUME call.op = "teardown", call'.op = "none", call'.up = call.up, answer' = "torn down",
         Footprint' = {}
  PROVE  Promise!TearDown
BY DEF Promise!TearDown, Promise!Return, Footprint, Delivered

LEMMA GiveUpTeardownIs ==
  ASSUME call.op = "teardown", call'.op = "none", call'.up = call.up,
         answer' \in {"not torn down", "cut"}, Footprint' = Footprint
  PROVE  Promise!GiveUpTeardown
BY DEF Promise!GiveUpTeardown, Promise!Return, Footprint, Delivered

LEMMA TellIs ==
  ASSUME call.op = "is_alive", call'.op = "none", call'.up = call.up,
         Footprint' = Footprint,
         \/ answer' = "alive" /\ call.up /\ (Up' <=> Up)
         \/ answer' = "dead" /\ ~Up /\ ~Up'
         \/ answer' = "unknown" /\ (Up' <=> Up)
  PROVE  Promise!Tell
BY DEF Promise!Tell, Promise!Return, Footprint, Up

LEMMA FadeIs ==
  ASSUME UNCHANGED <<call, answer>>, Footprint' \subseteq Footprint,
         answer \in Delivered /\ call.op # "teardown" => Footprint' = Footprint,
         Up' => Up
  PROVE  Promise!Fade
<1>1. Up' \in BOOLEAN
  BY DEF Up
<1> QED BY <1>1 DEF Promise!Fade, Promise!Delivered, Delivered, Footprint, Up

LEMMA PromiseStep ==
  ASSUME UNCHANGED service,
         \/ Promise!CallSpawn \/ Promise!Build \/ Promise!Deliver \/ Promise!GiveUp
         \/ Promise!CallTeardown \/ Promise!Dismantle \/ Promise!TearDown
         \/ Promise!GiveUpTeardown \/ Promise!CallIsAlive \/ Promise!Tell \/ Promise!Fade
  PROVE  Promise!Next
BY SamePromise DEF Promise!Next, Parts

LEMMA CallsKeepPromise ==
  ASSUME CallSpawn \/ CallTeardown \/ CallIsAlive
  PROVE  Promise!Next
<1>1. /\ call.op = "none" /\ UNCHANGED <<daemon, service, answer>>
      /\ call'.op \in {"spawn", "teardown", "is_alive"} /\ call'.up = (answer \in Delivered /\ IsUp)
      /\ call'.op = "spawn" => answer = "none"
      /\ call'.op = "is_alive" => answer \in Delivered
  BY DEF CallSpawn, CallTeardown, CallIsAlive, Begin, Idle
<1>2. Footprint' = Footprint
  BY <1>1, SameFootprint DEF daemon
<1>3. Up' <=> Up
  BY <1>1 DEF Up, IsUp, Mine, Sequence, StatusOf, daemon
<1>4. CASE call'.op = "spawn"
  BY <1>1, <1>2, <1>3, <1>4, PromiseStep DEF Promise!CallSpawn, Footprint, Up
<1>5. CASE call'.op = "teardown"
  BY <1>1, <1>2, <1>3, <1>5, PromiseStep DEF Promise!CallTeardown, Footprint, Up
<1>6. CASE call'.op = "is_alive"
  BY <1>1, <1>2, <1>3, <1>6, PromiseStep
  DEF Promise!CallIsAlive, Promise!Delivered, Delivered, Footprint, Up
<1> QED BY <1>1, <1>4, <1>5, <1>6

(* Behind every state of spawn nothing is up, and what it does only adds.  *)
LEMMA SpawnBuilds ==
  ASSUME Inv, Inv', call.op = "spawn", call'.op = "spawn", call'.up = call.up,
         UNCHANGED <<answer, service>>, Footprint \subseteq Footprint'
  PROVE  Promise!Next
<1>1. answer = "none"
  BY DEF Inv, SpawnInv
<1>2. ~Up /\ ~Up'
  BY <1>1 DEF Up, Delivered
<1>3. Footprint' \subseteq Parts
  BY AboutFootprintNext, SamePromise DEF FootprintFits
<1> QED BY <1>2, <1>3, BuildIs, PromiseStep

LEMMA SpawnEndsAsPromised ==
  ASSUME Inv, Inv', call.op = "spawn", call'.op = "none", call'.up = call.up,
         answer' \in {"daemon", "no port", "no extension", "cut", "gone", "deadline"},
         UNCHANGED <<containers, network, orphans, service>>, config => config'
  PROVE  Promise!Next
<1>1. answer = "none"
  BY DEF Inv, SpawnInv
<1>2. ~Up /\ ~Up' /\ answer' \notin Delivered \cup {"none", "torn down"}
  BY <1>1 DEF Up, Delivered
<1>3. Footprint' \subseteq Parts
  BY AboutFootprintNext, SamePromise DEF FootprintFits
<1>4. Footprint \subseteq Footprint'
  BY AboutFootprint, AboutFootprintNext DEF FootprintIs
<1> QED BY <1>2, <1>3, <1>4, GiveUpIs, PromiseStep

LEMMA TeardownEndsAsPromised ==
  ASSUME call.op = "teardown", call'.op = "none", call'.up = call.up,
         answer' \in {"not torn down", "cut"},
         UNCHANGED <<containers, network, config, orphans, service>>
  PROVE  Promise!Next
BY SameFootprint, GiveUpTeardownIs, PromiseStep

LEMMA IsAliveEndsAsPromised ==
  ASSUME Inv, call.op = "is_alive", call'.op = "none", call'.up = call.up,
         \/ answer' = "unknown"
         \/ answer' = "dead" /\ ~IsUp
         \/ answer' = "alive" /\ call.up,
         UNCHANGED <<containers, network, config, orphans, service>>
  PROVE  Promise!Next
<1>1. answer \in Delivered
  BY DEF Inv, AnswerInv
<1>2. IsUp' <=> IsUp
  BY DEF IsUp, Mine, Sequence, StatusOf
<1>3. answer' \in {"unknown", "alive"} => (Up' <=> Up)
  BY <1>1, <1>2 DEF Up, Delivered
<1>4. answer' = "dead" => ~Up'
  BY DEF Up, Delivered
<1> QED BY <1>3, <1>4, SameFootprint, TellIs, PromiseStep DEF Up

LEMMA SpawnDeliversAsPromised ==
  ASSUME Inv, call.op = "spawn", call'.op = "none", call'.up = call.up, answer' = "spawned",
         Whole, UNCHANGED <<daemon, service>>
  PROVE  Promise!Next
<1>1. orphans = {}
  BY DEF Inv, SpawnInv
<1>2. Footprint' = Footprint
  BY SameFootprint DEF daemon
<1>3. ASSUME NEW r \in Parts PROVE r \in Footprint
  <2>1. CASE r \in Mine
    <3>1. PICK k \in 1 .. Len(Sequence) : Sequence[k] = r
      BY <2>1, NameIsOne DEF Inv
    <3>2. r \in Names /\ containers[r].status # "absent"
      BY <3>1, SequenceInOrder DEF Whole, Built, InOrder, StatusOf
    <3> QED BY <1>1, <3>2, AboutFootprint DEF FootprintIs
  <2>2. CASE Stack /\ r \in {"network", "config"}
    BY <1>1, <2>2, AboutFootprint DEF FootprintIs, Whole
  <2> QED BY <1>3, <2>1, <2>2 DEF Parts
<1>4. Footprint = Parts
  BY <1>3, AboutFootprint DEF FootprintFits
<1> QED BY <1>2, <1>4, DeliverIs, PromiseStep

(* The four requests of spawn.                                             *)
LEMMA RequestsBuild ==
  ASSUME Inv, Inv', CreateNetwork \/ WriteConfig \/ CreateContainer \/ StartContainer
  PROVE  Promise!Next
<1>1. /\ call.op = "spawn" /\ orphans = {} /\ Answered
      /\ \E s \in Steps : Goto(s)
      /\ call.step \in {"createNetwork", "writeConfig", "create", "start"}
  BY DEF Inv, SpawnInv, CreateNetwork, WriteConfig, CreateContainer, StartContainer, At, Steps,
         DockerVerbs, FileVerbs
<1>2. call'.op = "spawn" /\ call'.up = call.up /\ UNCHANGED <<answer, service>>
  BY <1>1, AnsweredFrame DEF Goto, Inv, TypeOK, Call
<1>3. Name \in Names
  BY NameIsOne DEF Inv
<1>4. containers \in [Names -> Container]
  BY DEF Inv, TypeOK, DaemonTypeOK
<1>5. Footprint \subseteq Footprint'
  <2>1. CASE call.step = "createNetwork"
    BY <1>1, <2>1, DoNetwork, AboutFootprint, AboutFootprintNext DEF FootprintIs
  <2>2. CASE call.step = "writeConfig"
    BY <1>1, <2>2, DoConfig, AboutFootprint, AboutFootprintNext DEF FootprintIs, FileVerbs
  <2>3. CASE call.step = "create"
    <3>1. \A n \in Names : containers[n].status # "absent" => containers'[n].status # "absent"
      BY <1>1, <1>3, <1>4, <2>3, DoCreate DEF Created
    <3> QED BY <1>1, <1>3, <2>3, <3>1, DoCreate, AboutFootprint, AboutFootprintNext
            DEF FootprintIs
  <2>4. CASE call.step = "start"
    <3>1. \A n \in Names : containers[n].status # "absent" => containers'[n].status # "absent"
      BY <1>1, <1>3, <1>4, <2>4, DoStart DEF Started
    <3> QED BY <1>1, <1>3, <2>4, <3>1, DoStart, AboutFootprint, AboutFootprintNext
            DEF FootprintIs
  <2> QED BY <1>1, <2>1, <2>2, <2>3, <2>4
<1> QED BY <1>1, <1>2, <1>5, SpawnBuilds

LEMMA SpawnKeepsPromise ==
  ASSUME Inv, Inv', Spawn
  PROVE  Promise!Next
<1>0. TypeOK /\ call \in Call
  BY DEF Inv, TypeOK
<1>1. CASE CreateNetwork \/ WriteConfig \/ CreateContainer \/ StartContainer
  BY <1>1, RequestsBuild
<1>2. CASE WriteConfigFails
  <2>1. /\ call.op = "spawn" /\ Return("daemon") /\ config' \in {config, TRUE}
        /\ UNCHANGED <<containers, network, orphans, service>>
    BY <1>2 DEF WriteConfigFails, At
  <2>2. config => config'
    <3>1. CASE config' = config
      BY <3>1, Zenon
    <3>2. CASE config' = TRUE
      BY <3>2, Zenon
    <3> QED BY <2>1, <3>1, <3>2, Zenon
  <2>3. call'.op = "none" /\ call'.up = call.up /\ answer' = "daemon"
    BY <1>0, <2>1, ReturnType
  <2> QED BY <2>1, <2>2, <2>3, SpawnEndsAsPromised
<1>3. CASE PollReady
  <2>1. /\ At("spawn", "poll") /\ Built(call.at) /\ UNCHANGED <<daemon, service>>
        /\ faults' \in 0 .. MaxFaults
    BY <1>3, PollReadyIs
  <2>2. Footprint \subseteq Footprint'
    BY <2>1, SameFootprint DEF daemon
  <2>3. CASE UNCHANGED answer /\ call'.op = "spawn" /\ call'.up = call.up
    BY <2>1, <2>2, <2>3, SpawnBuilds DEF At
  <2>4. CASE Goto("ports") \/ Goto("extension")
    <3>1. UNCHANGED answer /\ call'.op = "spawn" /\ call'.up = call.up
      BY <1>0, <2>1, <2>4 DEF Goto, At, Call
    <3> QED BY <2>3, <3>1
  <2>5. CASE Return("no port")
    BY <1>0, <2>1, <2>5, ReturnType, SpawnEndsAsPromised DEF At, daemon
  <2>6. CASE IsLast /\ Return("spawned")
    <3>1. Whole
      BY <2>1, <2>6, SpawnDelivers DEF At
    <3> QED BY <1>0, <2>1, <2>6, <3>1, ReturnType, SpawnDeliversAsPromised DEF At
  <2> QED BY <1>3, <2>3, <2>4, <2>5, <2>6, PollReadyIs
<1>4. CASE PollAgain \/ Sleep
  <2>1. /\ call.op = "spawn" /\ call'.op = "spawn" /\ call'.up = call.up
        /\ UNCHANGED <<daemon, service, answer>>
    BY <1>4, PollAgainIs, SleepIs DEF At
  <2>2. Footprint \subseteq Footprint'
    BY <2>1, SameFootprint DEF daemon
  <2> QED BY <2>1, <2>2, SpawnBuilds
<1>5. CASE PollGivesUp
  <2>1. /\ call.op = "spawn" /\ call'.op = "none" /\ call'.up = call.up
        /\ answer' \in {"gone", "deadline"} /\ UNCHANGED <<daemon, service>>
    BY <1>5, PollGivesUpIs DEF At
  <2> QED BY <2>1, SpawnEndsAsPromised DEF daemon
<1>6. CASE Extension \/ Ports
  <2>1. /\ call.op = "spawn" /\ call.step \in {"ports", "extension"}
        /\ UNCHANGED <<daemon, service>>
        /\ Return("spawned") \/ Return("no extension") \/ Return("no port")
        /\ NoFault \/ \E kind \in FaultKinds : Fault(kind)
    BY <1>6 DEF Extension, Ports, At, FaultKinds
  <2>2. IsLast /\ Built(call.at) /\ faults' \in 0 .. MaxFaults
    BY <1>0, <2>1, FaultType DEF Inv, StepsInv, SpawnInv
  <2>3. CASE Return("spawned")
    <3>1. Whole
      BY <2>1, <2>2, <2>3, SpawnDelivers
    <3> QED BY <1>0, <2>1, <2>3, <3>1, ReturnType, SpawnDeliversAsPromised
  <2>4. CASE Return("no extension") \/ Return("no port")
    BY <1>0, <2>1, <2>4, ReturnType, SpawnEndsAsPromised DEF daemon
  <2> QED BY <2>1, <2>3, <2>4
<1> QED BY <1>1, <1>2, <1>3, <1>4, <1>5, <1>6 DEF Spawn

(* What teardown does only takes away, and at its end nothing is left for  *)
(* which somebody answers.                                                 *)
LEMMA RemovalTakesAway ==
  ASSUME Inv, Inv', RemoveContainer
  PROVE  Promise!Next
<1> USE DEF Inv
<1>1. /\ call.op = "teardown" /\ call.step = "remove" /\ Answered
      /\ InOrder(Sequence, service) /\ call.at \in 1 .. Len(Sequence)
      /\ Name \in Names /\ Name \in Mine
  BY SequenceInOrder, NameIsOne DEF RemoveContainer, At
<1>2. /\ containers' = [containers EXCEPT ![Name] = Absent] /\ orphans' = orphans \ {Name}
      /\ UNCHANGED <<network, config, service>>
  BY <1>1, DoRemove, AnsweredFrame
<1>3. /\ containers'[Name].status = "absent"
      /\ \A n \in Names \ {Name} : containers'[n] = containers[n]
  BY <1>1, <1>2 DEF TypeOK, DaemonTypeOK, Absent
<1>4. Footprint' \subseteq Footprint
  <2>1. Name # "network" /\ Name # "config"
    BY <1>1, WhatExists
  <2>2. ASSUME NEW r \in Footprint' PROVE r \in Footprint
    <3>1. r \notin orphans'
      BY AboutFootprintNext DEF FootprintIs
    <3>2. CASE r \in Names /\ containers'[r].status # "absent"
      <4>1. r # Name
        BY <1>3, <3>2
      <4>2. r \notin orphans
        BY <1>2, <3>1, <4>1
      <4>3. containers[r].status # "absent"
        BY <1>3, <3>2, <4>1
      <4> QED BY <3>2, <4>2, <4>3, AboutFootprint DEF FootprintIs
    <3>3. CASE (r = "network" /\ network) \/ (r = "config" /\ config)
      <4>1. r # Name
        BY <2>1, <3>3
      <4>2. r \notin orphans
        BY <1>2, <3>1, <4>1
      <4> QED BY <3>3, <4>2, AboutFootprint DEF FootprintIs
    <3> QED BY <1>2, <3>2, <3>3, AboutFootprintNext DEF FootprintIs
  <2> QED BY <2>2
<1>5. ~IsUp'
  BY <1>1, <1>2, <1>3 DEF IsUp, Mine, Sequence, StatusOf
<1>6. CASE ~IsLast
  <2>1. call' = [call EXCEPT !.at = @ + 1] /\ UNCHANGED answer
    BY <1>6 DEF RemoveContainer
  <2>2. call'.op = "teardown" /\ call'.up = call.up
    BY <1>1, <2>1 DEF TypeOK, Call
  <2> QED BY <1>1, <1>2, <1>4, <1>5, <2>1, <2>2, DismantleIs, PromiseStep DEF Up
<1>7. CASE IsLast /\ Stack
  <2>1. Goto("removeNetwork")
    BY <1>7 DEF RemoveContainer
  <2>2. call'.op = "teardown" /\ call'.up = call.up /\ UNCHANGED answer
    BY <1>1, <2>1 DEF TypeOK, Call, Goto
  <2> QED BY <1>1, <1>2, <1>4, <1>5, <2>2, DismantleIs, PromiseStep DEF Up
<1>8. CASE IsLast /\ ~Stack
  <2>1. Return("torn down")
    BY <1>8 DEF RemoveContainer
  <2>2. call'.op = "none" /\ call'.up = call.up /\ answer' = "torn down"
    BY <2>1, ReturnType
  <2>3. ASSUME NEW r \in Footprint' PROVE FALSE
    <3>1. r \in Footprint
      BY <1>4, <2>3
    <3>2. r \in Mine
      BY <1>8, <3>1, AboutFootprint DEF FootprintFits, Parts
    <3>3. PICK k \in 1 .. Len(Sequence) : Sequence[k] = r
      BY <3>2, NameIsOne
    <3>4. r \in Names /\ r # "network" /\ r # "config"
      BY <1>1, <3>3, WhatExists DEF InOrder
    <3>5. r # Name
      BY <1>3, <2>3, <3>4, AboutFootprintNext DEF FootprintIs
    <3>6. k < call.at
      BY <1>1, <1>8, <3>3, <3>5 DEF IsLast, Name
    <3>7. r \in orphans
      BY <1>1, <3>1, <3>3, <3>4, <3>6, AboutFootprint DEF TeardownInv, FootprintIs, StatusOf
    <3> QED BY <3>1, <3>7, AboutFootprint DEF FootprintIs
  <2> QED BY <1>1, <1>2, <2>2, <2>3, TearDownIs, PromiseStep
<1> QED BY <1>6, <1>7, <1>8

LEMMA NetworkTakenAway ==
  ASSUME Inv, RemoveNetwork
  PROVE  Promise!Next
<1>1. call.op = "teardown" /\ call.step = "removeNetwork" /\ Answered /\ Goto("removeConfig")
  BY DEF RemoveNetwork, At
<1>2. /\ ~network' /\ orphans' = orphans \ {"network"}
      /\ UNCHANGED <<containers, config, service>>
  BY <1>1, DoNetwork, AnsweredFrame
<1>3. call'.op = "teardown" /\ call'.up = call.up /\ UNCHANGED answer
  BY <1>1 DEF Inv, TypeOK, Call, Goto
<1>4. Footprint' \subseteq Footprint
  BY <1>2, AboutFootprint, AboutFootprintNext, WhatExists DEF FootprintIs
<1>5. IsUp' <=> IsUp
  BY <1>2 DEF IsUp, Mine, Sequence, StatusOf
<1> QED BY <1>1, <1>2, <1>3, <1>4, <1>5, DismantleIs, PromiseStep DEF Up

LEMMA ConfigTakenAway ==
  ASSUME Inv, RemoveConfig \/ RemoveConfigFails
  PROVE  Promise!Next
<1> USE DEF Inv
<1>1. /\ call.op = "teardown" /\ call.step = "removeConfig" /\ call.step \in FileVerbs
      /\ Return("torn down")
  BY DEF RemoveConfig, RemoveConfigFails, At, FileVerbs
<1>2. /\ UNCHANGED <<containers, network, service>>
      /\ \/ ~config' /\ orphans' = orphans \ {"config"}
         \/ orphans' = orphans \cup {"config"}
  <2>1. CASE RemoveConfig
    BY <1>1, <2>1, DoConfig, AnsweredFrame DEF RemoveConfig
  <2>2. CASE RemoveConfigFails
    BY <2>2 DEF RemoveConfigFails
  <2> QED BY <2>1, <2>2
<1>3. call'.op = "none" /\ call'.up = call.up /\ answer' = "torn down"
  BY <1>1, ReturnType
<1>4. ASSUME NEW n \in Names, StatusOf(n) # "absent" PROVE n \in orphans
  <2>1. n \in Mine
    BY <1>4 DEF DaemonInv
  <2> QED BY <1>1, <1>4, <2>1, NameIsOne DEF TeardownInv
<1>5. network => "network" \in orphans
  BY <1>1 DEF TeardownInv
<1>6. Footprint' = {}
  BY <1>2, <1>4, <1>5, AboutFootprintNext, WhatExists DEF FootprintIs, StatusOf
<1> QED BY <1>1, <1>2, <1>3, <1>6, TearDownIs, PromiseStep

(* is_alive is right about the cluster as it was when the call began.      *)
LEMMA InspectKeepsPromise ==
  ASSUME Inv, InspectService
  PROVE  Promise!Next \/ UNCHANGED Promise!vars
<1> USE DEF Inv
<1>1. /\ call.op = "is_alive" /\ UNCHANGED <<daemon, service>>
      /\ call.at \in 1 .. Len(Sequence) /\ Name \in Mine
  BY NameIsOne DEF InspectService, At
<1>2. CASE StatusOf(Name) # "running"
  <2>1. Return("dead") /\ ~IsUp
    BY <1>1, <1>2, InspectIs DEF InspectService, IsUp
  <2>2. call'.op = "none" /\ call'.up = call.up /\ answer' = "dead"
    BY <2>1, ReturnType
  <2> QED BY <1>1, <2>1, <2>2, IsAliveEndsAsPromised DEF daemon
<1>3. CASE StatusOf(Name) = "running" /\ IsLast
  <2>1. Return("alive")
    BY <1>3, InspectIs DEF InspectService
  <2>2. call.up
    BY <1>1, <1>3 DEF AnswerInv, IsLast, Name
  <2>3. call'.op = "none" /\ call'.up = call.up /\ answer' = "alive"
    BY <2>1, ReturnType
  <2> QED BY <1>1, <2>2, <2>3, IsAliveEndsAsPromised DEF daemon
<1>4. CASE StatusOf(Name) = "running" /\ ~IsLast
  <2>1. call' = [call EXCEPT !.at = @ + 1] /\ UNCHANGED answer
    BY <1>4, InspectIs DEF InspectService
  <2>2. call'.op = call.op /\ call'.up = call.up
    BY <2>1 DEF TypeOK, Call
  <2>3. Footprint' = Footprint /\ Parts' = Parts
    BY <1>1, SameFootprint, SamePromise DEF daemon
  <2>4. Up' <=> Up
    BY <1>1, <2>1 DEF Up, IsUp, Mine, Sequence, StatusOf, daemon
  <2> QED BY <2>1, <2>2, <2>3, <2>4 DEF Promise!vars, Footprint, Parts, Up
<1> QED BY <1>2, <1>3, <1>4

LEMMA CutsKeepPromise ==
  ASSUME Inv, Inv', RequestFails \/ RequestTimesOut \/ Cancel \/ Crash
  PROVE  Promise!Next
<1>1. /\ call.op \in {"spawn", "teardown", "is_alive"}
      /\ UNCHANGED <<containers, network, config, orphans, service>>
  BY DEF RequestFails, RequestTimesOut, Cancel, Crash, Idle, Inv, TypeOK, Call, Ops, daemon
<1>2. \/ Return(Error)
      \/ call.op # "is_alive" /\ Return("cut")
      \/ call.op = "is_alive" /\ Return("unknown")
  <2>1. CASE RequestFails \/ RequestTimesOut
    BY <2>1 DEF RequestFails, RequestTimesOut
  <2>2. CASE Cancel
    BY <2>2 DEF Cancel
  <2>3. CASE Crash
    BY <2>3 DEF Crash
  <2> QED BY <2>1, <2>2, <2>3
<1>3. TypeOK
  BY DEF Inv
<1>4. CASE call.op = "spawn"
  <2>1. Return("daemon") \/ Return("cut")
    BY <1>2, <1>4 DEF Error
  <2> QED BY <1>1, <1>3, <1>4, <2>1, ReturnType, SpawnEndsAsPromised
<1>5. CASE call.op = "teardown"
  <2>1. Return("not torn down") \/ Return("cut")
    BY <1>2, <1>5 DEF Error
  <2> QED BY <1>1, <1>3, <1>5, <2>1, ReturnType, TeardownEndsAsPromised
<1>6. CASE call.op = "is_alive"
  <2>1. Return("unknown")
    BY <1>2, <1>6 DEF Error
  <2> QED BY <1>1, <1>3, <1>6, <2>1, ReturnType, IsAliveEndsAsPromised
<1> QED BY <1>1, <1>4, <1>5, <1>6

(* A late request adds nothing for which somebody answers: what it makes   *)
(* is an orphan, and what it starts was there.                             *)
LEMMA LateFades ==
  ASSUME Inv, NEW q \in late, LateRequest(q), UNCHANGED <<service, call, answer, faults>>
  PROVE  Promise!Next
<1>1. answer \notin Delivered /\ Own(q) /\ late' = late \ {q} /\ UNCHANGED wasHealthy
  BY WhenLate DEF LateRequest
<1>2. Footprint' \subseteq Footprint
  <2>1. CASE UNCHANGED <<containers, network, config, orphans>>
    BY <2>1, SameFootprint
  <2>2. CASE /\ ~Refused(q) /\ Perform(q)
             /\ orphans' = IF Makes(q) THEN orphans \cup {q.on} ELSE orphans \ {q.on}
    <3>1. containers \in [Names -> Container] /\ Mine \subseteq Names
      BY NameIsOne DEF Inv, TypeOK, DaemonTypeOK
    <3>2. CASE q.verb \in {"create", "start", "remove"}
      <4>1. /\ q.on \in Names /\ UNCHANGED <<network, config>>
            /\ \A n \in Names \ {q.on} : containers'[n] = containers[n]
            /\ q.verb = "remove" => containers'[q.on].status = "absent"
        BY <1>1, <2>2, <3>1, <3>2 DEF Own, Perform, SetContainer, FileVerbs, Absent
      <4>2. CASE q.verb = "create"
        BY <2>2, <4>1, <4>2, AboutFootprint, AboutFootprintNext, WhatExists DEF FootprintIs, Makes
      <4>3. CASE q.verb = "start"
        <5>1. q.on \notin orphans /\ StatusOf(q.on) # "absent"
          BY <1>1, <2>2, <4>3, LateStart DEF Makes
        <5> QED BY <2>2, <4>1, <4>3, <5>1, AboutFootprint, AboutFootprintNext, WhatExists
                DEF FootprintIs, Makes, StatusOf
      <4>4. CASE q.verb = "remove"
        BY <2>2, <4>1, <4>4, AboutFootprint, AboutFootprintNext, WhatExists DEF FootprintIs, Makes
      <4> QED BY <3>2, <4>2, <4>3, <4>4
    <3>3. CASE q.verb \in {"createNetwork", "removeNetwork"}
      <4>1. q.on = "network" /\ network' = (q.verb = "createNetwork")
            /\ UNCHANGED <<containers, config>>
        BY <1>1, <2>2, <3>3 DEF Own, Perform, FileVerbs
      <4> QED BY <2>2, <3>3, <4>1, AboutFootprint, AboutFootprintNext, WhatExists DEF FootprintIs, Makes
    <3>4. CASE q.verb \in FileVerbs
      <4>1. q.on = "config" /\ config' = (q.verb = "writeConfig")
            /\ UNCHANGED <<containers, network>>
        BY <1>1, <2>2, <3>4 DEF Own, Perform, FileVerbs
      <4> QED BY <2>2, <3>4, <4>1, AboutFootprint, AboutFootprintNext, WhatExists
              DEF FootprintIs, Makes, FileVerbs
    <3> QED BY <1>1, <3>2, <3>3, <3>4 DEF Own
  <2> QED BY <2>1, <2>2 DEF LateRequest
<1>3. ~Up'
  BY <1>1 DEF Up
<1> QED BY <1>1, <1>2, <1>3, FadeIs, PromiseStep

(* A container that exits stays a part of the cluster.                     *)
LEMMA DaemonKeepsPromise ==
  ASSUME Inv, Daemon
  PROVE  Promise!Next
<1>1. CASE \E q \in late : LateRequest(q) /\ NoFault /\ UNCHANGED <<service, call, answer>>
  BY <1>1, LateFades DEF NoFault
<1>2. CASE \E n \in Names : (HealthCheck(n) \/ Exit(n)) /\ UNCHANGED <<service, call, answer>>
  <2>1. PICK n \in Names : HealthCheck(n) \/ Exit(n)
    BY <1>2
  <2>2. containers \in [Names -> Container] /\ Mine \subseteq Names
    BY NameIsOne DEF Inv, TypeOK, DaemonTypeOK
  <2>3. PICK c : /\ containers' = [containers EXCEPT ![n] = c] /\ c.status # "absent"
                 /\ c.status = "running" => StatusOf(n) = "running"
    BY <2>1, <2>2 DEF HealthCheck, Exit, SetContainer, Container, StatusOf
  <2>4. StatusOf(n) = "running" /\ UNCHANGED <<network, config, orphans>>
    BY <2>1 DEF HealthCheck, Exit, SetContainer
  <2>5. /\ \A m \in Names : containers'[m].status # "absent" <=> containers[m].status # "absent"
        /\ \A m \in Names : containers'[m].status = "running" => containers[m].status = "running"
    BY <2>2, <2>3, <2>4 DEF StatusOf
  <2>6. \A r : r \in Footprint' <=> r \in Footprint
    BY <2>4, <2>5, AboutFootprint, AboutFootprintNext, WhatExists DEF FootprintIs
  <2>7. Footprint' = Footprint
    BY <2>6
  <2>8. Up' => Up
    BY <1>2, <2>2, <2>5 DEF Up, IsUp, Mine, Sequence, StatusOf
  <2> QED BY <1>2, <2>7, <2>8, FadeIs, PromiseStep
<1> QED BY <1>1, <1>2 DEF Daemon

LEMMA NextKeepsPromise ==
  ASSUME Inv, Inv', [Next]_vars
  PROVE  [Promise!Next]_Promise!vars
<1>1. CASE UNCHANGED vars
  BY <1>1 DEF vars, daemon, Promise!vars, IsUp, Mine, Stack, Sequence, StatusOf, Exists
<1>2. CASE TearDown
  BY <1>2, RemovalTakesAway, NetworkTakenAway, ConfigTakenAway DEF TearDown
<1>3. CASE Spawn
  BY <1>3, SpawnKeepsPromise
<1>4. CASE CallSpawn \/ CallTeardown \/ CallIsAlive
  BY <1>4, CallsKeepPromise
<1>5. CASE RequestFails \/ RequestTimesOut \/ Cancel \/ Crash
  BY <1>5, CutsKeepPromise
<1> QED BY <1>1, <1>2, <1>3, <1>4, <1>5, InspectKeepsPromise, DaemonKeepsPromise
        DEF Next, Proceed

(* Both backends keep the promise of the trait, for every pair of them     *)
(* with a daemon: each step of theirs is one the promise allows, or none.  *)
THEOREM BackendsKeepTheirPromise == Spec => ImplementsBackend
<1>1. Init => Promise!Init
  <2>1. ASSUME Init PROVE Footprint = {}
    BY <2>1, AboutFootprint DEF Init, DaemonInit, FootprintIs, Absent
  <2> QED BY <2>1 DEF Init, Promise!Init, Footprint, Delivered
<1>2. Inv /\ Inv' /\ [Next]_vars => [Promise!Next]_Promise!vars
  BY NextKeepsPromise
<1> QED BY <1>1, <1>2, Invariant, PTL DEF Spec, ImplementsBackend, Promise!Spec
=============================================================================
