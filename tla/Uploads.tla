------------------------------ MODULE Uploads ------------------------------
(***************************************************************************)
(* One directory slot of one client, and the clusters that hold it one     *)
(* after another: an uploaded archive is extracted into the slot's staging *)
(* directory by a blocking task, copied by a privileged command into the   *)
(* cluster's directory, and the staging directory removed; teardown wipes  *)
(* the cluster's directory.  A cancelled or timed out caller leaves its    *)
(* blocking task, or the command that sudo started, running on files the   *)
(* next cluster of the slot will use.                                      *)
(***************************************************************************)
EXTENDS TarValidation, CreateRequest, FiniteSets

CONSTANTS Requests,   \* requests the client sends
          MaxTenants, \* bound on the clusters that hold the slot
          MaxFaults   \* bound on failures, timeouts, cancellations and crashes

(* A request and its archive as the two libraries deliver them.            *)
IsSequence(s) == s \in Seq({s[i] : i \in DOMAIN s})

ASSUME UploadsAssumption ==
  /\ MaxTenants \in Nat /\ MaxFaults \in Nat
  /\ \A r \in Requests :
       /\ r.multipart \in BOOLEAN
       /\ IsSequence(r.parts)
       /\ \A i \in DOMAIN r.parts :
            /\ IsSequence(r.parts[i].tar)
            /\ \A k \in DOMAIN r.parts[i].tar :
                 /\ r.parts[i].tar[k].size \in Nat
                 /\ r.parts[i].tar[k].place \in {"inside", "above"}

VARIABLES
  tenant,   \* the cluster that holds, or was the last to hold, the slot
  spec,     \* its service and its archive
  phase,    \* where its spawn or teardown task is
  verdict,  \* what became of its archive
  staging,  \* the staging directory: path -> tenant whose file it is
  dir,      \* the cluster's directory: path -> tenant whose file it is
  jobs,     \* blocking tasks and privileged commands that run
  cut,      \* tenants whose spawn or teardown was cut short
  overrun,  \* tenants that left a removal running
  faults

vars == <<tenant, spec, phase, verdict, staging, dir, jobs, cut, overrun, faults>>

Tenants  == 1 .. MaxTenants
Commands == {"adopt", "wipe"}
Blocking == {"extract", "clean"}

(* The files of the database, and the paths of the archives.               *)
Data  == "data"
Files(tar) == {tar[i].path : i \in DOMAIN tar}

Put(f, p, x) == [q \in DOMAIN f \cup {p} |-> IF q = p THEN x ELSE f[q]]
Drop(f, p)   == [q \in DOMAIN f \ {p} |-> f[q]]
Owners(f)    == {f[p] : p \in DOMAIN f}

(* What a client is told of its archive: the reason, never the path.       *)
Verdicts == {"none", "ok", "type", "size", "path", "unreadable", "worker"}

Fault == faults < MaxFaults /\ faults' = faults + 1

Spawning == {"prepare", "stage", "extract", "adopt", "clean", "backend"}

(* A job started now by the tenant's task, which waits for it.             *)
Job(op) == [op |-> op, tenant |-> tenant, tar |-> spec.tar, next |-> 1, total |-> 0,
            todo |-> IF op = "adopt" THEN DOMAIN staging ELSE {},
            bad |-> FALSE, awaited |-> TRUE]

Abandoned == {[j EXCEPT !.awaited = FALSE] : j \in jobs}
-----------------------------------------------------------------------------
(* create_cluster, do_spawn                                                *)

Create(r) ==
  /\ phase = "free" /\ tenant < MaxTenants
  /\ Accepted(r)
  /\ tenant' = tenant + 1 /\ spec' = Parse(r) /\ phase' = "prepare" /\ verdict' = "none"
  /\ UNCHANGED <<staging, dir, jobs, cut, overrun, faults>>

(* The directories that mkdir -p makes hold no file yet.                   *)
Prepare ==
  /\ phase = "prepare"
  /\ phase' = IF spec.kind = "supabase" THEN "stage" ELSE "backend"
  /\ UNCHANGED <<tenant, spec, verdict, staging, dir, jobs, cut, overrun, faults>>

(* The staging directory is created unless it is there.                    *)
Stage ==
  /\ phase = "stage"
  /\ phase' = "extract" /\ jobs' = jobs \cup {Job("extract")}
  /\ UNCHANGED <<tenant, spec, verdict, staging, dir, cut, overrun, faults>>

(* mkdir, or making the staging directory, fails: the spawn does.          *)
PrepareFails ==
  /\ phase \in {"prepare", "stage"} /\ Fault
  /\ phase' = "failed"
  /\ UNCHANGED <<tenant, spec, verdict, staging, dir, jobs, cut, overrun>>

(* The database of a tenant that left its files there is taken over.       *)
Backend(result) ==
  /\ phase = "backend"
  /\ phase' = result
  /\ dir' = IF Data \in DOMAIN dir THEN dir ELSE Put(dir, Data, tenant)
  /\ UNCHANGED <<tenant, spec, verdict, staging, jobs, cut, overrun>>

BackendSpawns == Backend("ready") /\ UNCHANGED faults
BackendFails  == Backend("failed") /\ Fault
-----------------------------------------------------------------------------
(* validate_and_extract, in a blocking task                                *)

ExtractEntry(j) ==
  /\ j.op = "extract" /\ j.next <= Len(j.tar)
  /\ LET e == j.tar[j.next] IN
     /\ Verdict(e, j.total) = "ok"
     /\ staging' = Put(staging, e.path, j.tenant)
     /\ jobs' = (jobs \ {j}) \cup
                  {[j EXCEPT !.next = @ + 1, !.total = AddSize(@, e.size)]}
  /\ UNCHANGED <<tenant, spec, phase, verdict, dir, cut, overrun, faults>>

(* Slip: a rejected archive leaves adopt_project_tar at once.              *)
BugExtracted(j, v) ==
  /\ j.op = "extract"
  /\ IF ~j.awaited
     THEN jobs' = jobs \ {j} /\ UNCHANGED <<phase, verdict>>
     ELSE /\ verdict' = v
          /\ phase' = IF v = "ok" THEN "adopt" ELSE "failed"
          /\ jobs' = (jobs \ {j}) \cup (IF v = "ok" THEN {Job("adopt")} ELSE {})
  /\ UNCHANGED <<tenant, spec, staging, dir, cut, overrun>>

(* An archive that passed is copied, any other is removed.                 *)
Extracted(j, v) ==
  /\ j.op = "extract"
  /\ IF ~j.awaited
     THEN jobs' = jobs \ {j} /\ UNCHANGED <<phase, verdict>>
     ELSE /\ verdict' = v
          /\ phase' = IF v = "ok" THEN "adopt" ELSE "clean"
          /\ jobs' = (jobs \ {j}) \cup {Job(IF v = "ok" THEN "adopt" ELSE "clean")}
  /\ UNCHANGED <<tenant, spec, staging, dir, cut, overrun>>

ExtractEnds(j) ==
  /\ IF j.next > Len(j.tar) THEN Extracted(j, "ok")
     ELSE Verdict(j.tar[j.next], j.total) # "ok" /\ Extracted(j, Verdict(j.tar[j.next], j.total))
  /\ UNCHANGED faults

ExtractFails(j) == Extracted(j, "unreadable") /\ Fault
-----------------------------------------------------------------------------
(* cp -r staging/. project, by sudo, of the files it finds when it starts  *)

CopyFile(j, p) ==
  /\ j.op = "adopt" /\ p \in j.todo \cap DOMAIN staging
  /\ dir' = Put(dir, p, staging[p])
  /\ jobs' = (jobs \ {j}) \cup {[j EXCEPT !.todo = @ \ {p}]}
  /\ UNCHANGED <<tenant, spec, phase, verdict, staging, cut, overrun, faults>>

(* A file it has listed is gone when it comes to it.                       *)
MissFile(j, p) ==
  /\ j.op = "adopt" /\ p \in j.todo \ DOMAIN staging
  /\ jobs' = (jobs \ {j}) \cup {[j EXCEPT !.todo = @ \ {p}, !.bad = TRUE]}
  /\ UNCHANGED <<tenant, spec, phase, verdict, staging, dir, cut, overrun, faults>>

(* The task has its answer and removes the staging directory.              *)
Adopted(j, v) ==
  /\ verdict' = v
  /\ phase' = "clean"
  /\ jobs' = (jobs \ {j}) \cup {Job("clean")}
  /\ UNCHANGED <<tenant, spec, staging, dir, overrun>>

(* Slip: only a copy without errors is answered.                           *)
BugCopyEnds(j) ==
  /\ j.op = "adopt" /\ j.awaited /\ j.todo = {} /\ ~j.bad
  /\ Adopted(j, "ok")
  /\ UNCHANGED <<cut, faults>>

CopyEnds(j) ==
  /\ j.op = "adopt" /\ j.awaited /\ j.todo = {}
  /\ Adopted(j, IF j.bad THEN "worker" ELSE "ok")
  /\ UNCHANGED <<cut, faults>>

(* Slip: cp's exit status is not looked at.                                *)
BugCopyFails(j) ==
  /\ j.op = "adopt" /\ j.awaited /\ Fault
  /\ Adopted(j, "ok")
  /\ UNCHANGED cut

CopyFails(j) ==
  /\ j.op = "adopt" /\ j.awaited /\ Fault
  /\ Adopted(j, "worker")
  /\ UNCHANGED cut

(* sudo is killed when the time is over, the cp it started goes on.        *)
CopyTimesOut(j) ==
  /\ j.op = "adopt" /\ j.awaited /\ Fault
  /\ verdict' = "worker" /\ phase' = "clean"
  /\ jobs' = Abandoned \cup {Job("clean")}
  /\ cut' = cut \cup {tenant}
  /\ UNCHANGED <<tenant, spec, staging, dir, overrun>>
-----------------------------------------------------------------------------
(* remove_dir_all of the staging directory, in a blocking task             *)

RemoveFile(j, p) ==
  /\ j.op = "clean" /\ p \in DOMAIN staging
  /\ staging' = Drop(staging, p)
  /\ UNCHANGED <<tenant, spec, phase, verdict, dir, jobs, cut, overrun, faults>>

Removed(j) ==
  /\ j.op = "clean"
  /\ jobs' = jobs \ {j}
  /\ phase' = IF ~j.awaited THEN phase ELSE IF verdict = "ok" THEN "backend" ELSE "failed"
  /\ UNCHANGED <<tenant, spec, verdict, staging, dir, overrun>>

RemoveEnds(j) == staging = << >> /\ Removed(j) /\ UNCHANGED <<cut, faults>>

(* Logged, and what is left stays.                                         *)
RemoveFails(j) == Removed(j) /\ Fault /\ cut' = cut \cup {j.tenant}
-----------------------------------------------------------------------------
(* teardown                                                                *)

Delete ==
  /\ phase \in {"ready", "failed"}
  /\ phase' = "teardown"
  /\ UNCHANGED <<tenant, spec, verdict, staging, dir, jobs, cut, overrun, faults>>

Teardown ==
  /\ phase = "teardown"
  /\ phase' = "wipe" /\ jobs' = jobs \cup {Job("wipe")}
  /\ UNCHANGED <<tenant, spec, verdict, staging, dir, cut, overrun, faults>>

(* find -delete                                                            *)
WipeFile(j, p) ==
  /\ j.op = "wipe" /\ p \in DOMAIN dir
  /\ dir' = Drop(dir, p)
  /\ UNCHANGED <<tenant, spec, phase, verdict, staging, jobs, cut, overrun, faults>>

(* However the command ends the row is deleted, and the slot is free.      *)
Wiped(rest) ==
  /\ phase' = "free" /\ jobs' = rest
  /\ UNCHANGED <<tenant, spec, verdict, staging, dir>>

WipeEnds(j) ==
  /\ j.op = "wipe" /\ j.awaited /\ dir = << >>
  /\ Wiped(jobs \ {j})
  /\ UNCHANGED <<cut, overrun, faults>>

WipeFails(j) ==
  /\ j.op = "wipe" /\ j.awaited /\ Fault
  /\ Wiped(jobs \ {j})
  /\ cut' = cut \cup {tenant} /\ UNCHANGED overrun

WipeTimesOut(j) ==
  /\ j.op = "wipe" /\ j.awaited /\ Fault
  /\ Wiped(Abandoned)
  /\ cut' = cut \cup {tenant} /\ overrun' = overrun \cup {tenant}
-----------------------------------------------------------------------------
(* Cut short                                                               *)

(* Slip: the task still waits for what it was doing.                       *)
BugCancel ==
  /\ phase \in Spawning /\ Fault
  /\ phase' = "teardown"
  /\ UNCHANGED <<tenant, spec, verdict, staging, dir, jobs, cut, overrun>>

(* A DELETE cancels the spawn: the task turns to the teardown, and what it *)
(* was waiting for goes on without it.                                     *)
Cancel ==
  /\ phase \in Spawning /\ Fault
  /\ phase' = "teardown"
  /\ jobs' = Abandoned
  /\ cut' = IF phase \in {"extract", "adopt", "clean"} THEN cut \cup {tenant} ELSE cut
  /\ overrun' = IF phase = "clean" THEN overrun \cup {tenant} ELSE overrun
  /\ UNCHANGED <<tenant, spec, verdict, staging, dir>>

(* The process stops: blocking tasks go with it, commands do not.          *)
(* Reconciliation tears down what was being spawned or torn down.          *)
Crash ==
  /\ phase \in Spawning \cup {"teardown", "wipe"} /\ Fault
  /\ phase' = "teardown"
  /\ jobs' = {j \in Abandoned : j.op \in Commands}
  /\ cut' = IF phase \in {"extract", "adopt", "clean", "wipe"} THEN cut \cup {tenant} ELSE cut
  /\ overrun' = IF phase = "wipe" THEN overrun \cup {tenant} ELSE overrun
  /\ UNCHANGED <<tenant, spec, verdict, staging, dir>>

(* A command nobody waits for comes to its end, or is killed with sudo.    *)
Vanish(j) ==
  /\ j.op \in Commands /\ ~j.awaited
  /\ jobs' = jobs \ {j}
  /\ UNCHANGED <<tenant, spec, phase, verdict, staging, dir, cut, overrun, faults>>
-----------------------------------------------------------------------------
Init ==
  /\ tenant = 0 /\ spec = [kind |-> "postgres", tar |-> NoTar]
  /\ phase = "free" /\ verdict = "none"
  /\ staging = << >> /\ dir = << >> /\ jobs = {}
  /\ cut = {} /\ overrun = {} /\ faults = 0

JobStep(j) ==
  \/ ExtractEntry(j) \/ ExtractEnds(j)
  \/ \E p \in j.todo : CopyFile(j, p) \/ MissFile(j, p)
  \/ CopyEnds(j)
  \/ \E p \in DOMAIN staging : RemoveFile(j, p)
  \/ RemoveEnds(j)
  \/ \E p \in DOMAIN dir : WipeFile(j, p)
  \/ WipeEnds(j)

JobFault(j) ==
  \/ ExtractFails(j)
  \/ CopyFails(j) \/ CopyTimesOut(j)
  \/ RemoveFails(j)
  \/ WipeFails(j) \/ WipeTimesOut(j)

TaskStep == Prepare \/ Stage \/ BackendSpawns \/ Teardown

Next ==
  \/ \E r \in Requests : Create(r)
  \/ TaskStep
  \/ PrepareFails \/ BackendFails
  \/ \E j \in jobs : JobStep(j) \/ JobFault(j) \/ Vanish(j)
  \/ Delete \/ Cancel \/ Crash

(* The tenant's task and the job it waits for go on.                       *)
Fairness ==
  /\ WF_vars(TaskStep)
  /\ WF_vars(\E j \in jobs : j.awaited /\ JobStep(j))

Spec == Init /\ [][Next]_vars /\ Fairness
-----------------------------------------------------------------------------
Path    == {Data} \cup UNION {Files(Parse(r).tar) : r \in {q \in Requests : Accepted(q)}}
JobType == [op : Commands \cup Blocking, tenant : Tenants,
            tar : {Parse(r).tar : r \in {q \in Requests : Accepted(q)}}, next : Nat \ {0},
            total : 0 .. MaxTotalBytes, todo : SUBSET Path, bad : BOOLEAN, awaited : BOOLEAN]

TypeOK ==
  /\ tenant \in 0 .. MaxTenants
  /\ spec.kind \in {"postgres", "supabase"}
  /\ phase \in {"free", "ready", "failed", "teardown", "wipe"} \cup Spawning
  /\ verdict \in Verdicts
  /\ \A f \in {staging, dir} : DOMAIN f \subseteq Path /\ Owners(f) \subseteq Tenants
  /\ jobs \subseteq JobType
  /\ {j.op : j \in {k \in jobs : k.awaited}} = {phase} \cap (Commands \cup Blocking)
  /\ overrun \subseteq cut /\ cut \subseteq Tenants
  /\ faults \in 0 .. MaxFaults

Holder == IF phase = "free" THEN {} ELSE {tenant}

(* A file in the slot is its holder's own, or of a cluster whose spawn or  *)
(* teardown was cut short: a slot whose clusters ended in order is handed  *)
(* on empty, whatever became of their archives.  Once a cluster is Ready   *)
(* or Failed nothing of its own is left in the staging directory           *)
(* (spawn_task.rs:97-100, :162-164; teardown_task.rs:39-53).               *)
LeftoversAreOfTheCut ==
  /\ Owners(staging) \cup Owners(dir) \subseteq cut \cup Holder
  /\ phase \in {"ready", "failed", "free"} => Owners(staging) \subseteq cut

(* A cluster that is Ready has every file of its archive and its database, *)
(* unless a cluster before it left a removal running; where a file is not  *)
(* its own, its owner was cut short (spawn_task.rs:140-166).               *)
ReadyIsComplete ==
  phase = "ready" /\ overrun \subseteq {tenant} =>
    \A p \in {Data} \cup Files(spec.tar) :
      p \in DOMAIN dir /\ dir[p] \in cut \cup {tenant}

(* What reaches a backend: a Supabase cluster with an archive that is      *)
(* acceptable as a whole, or a Postgres cluster with none.  And what one   *)
(* extraction has put on the disk never exceeds the limits, also when the  *)
(* archive is rejected in the end (tar_validation.rs:72-79).               *)
OnlyAcceptedIsServed ==
  /\ phase \in {"backend", "ready"} => (spec.kind = "supabase" <=> verdict = "ok")
  /\ verdict = "ok" => spec.kind = "supabase" /\ Acceptable(spec.tar)
  /\ \A j \in jobs : j.op = "extract" => Acceptable(SubSeq(j.tar, 1, j.next - 1))

(* A spawn comes to an answer, or to its teardown.                         *)
SpawnAnswers == phase \in Spawning ~> phase \in {"ready", "failed", "teardown"}
=============================================================================
