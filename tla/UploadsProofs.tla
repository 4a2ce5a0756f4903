---------------------------- MODULE UploadsProofs ----------------------------
(***************************************************************************)
(* What one directory slot keeps, for every set of requests, every archive *)
(* of any length, any number of clusters and any number of faults.  A job  *)
(* that runs is the one its task waits for, or belongs to a cluster that   *)
(* was cut short; so a file whose owner is neither the holder nor cut      *)
(* short cannot be.  As long as no removal is left running, what was       *)
(* extracted stays staged until it is copied, and what was copied stays.   *)
(* The sizes that an extraction adds up are those of the entries it has    *)
(* extracted, by the least counterexample over their number.               *)
(***************************************************************************)
EXTENDS Uploads, SequenceTheorems, WellFoundedInduction, TLAPS

LEMMA HasLeast ==
  ASSUME NEW S, S \subseteq Nat, S # {}
  PROVE  \E x \in S : \A y \in S : x <= y
<1> DEFINE lt == {p \in Nat \X Nat : p[1] < p[2]}
<1>1. IsWellFoundedOn(lt, Nat)
  BY NatLessThanWellFounded DEF OpToRel
<1>2. PICK s \in S : \A t \in S : ~(<<t, s>> \in lt)
  <2> HIDE DEF lt
  <2> QED BY <1>1, WFMin
<1>3. ASSUME NEW t \in S PROVE s <= t
  <2>1. <<t, s>> \in Nat \X Nat /\ <<t, s>>[1] = t /\ <<t, s>>[2] = s
    OBVIOUS
  <2>2. ~(t < s)
    BY <1>2, <2>1
  <2> QED BY <2>2
<1> QED BY <1>3

(* f[m] is the size of the first m entries, for every m up to n.           *)
Sums(f, tar, n) ==
  f = [m \in 0 .. n |-> IF m = 0 THEN 0 ELSE f[m - 1] + tar[m].size]

LEMMA SumsExist ==
  ASSUME NEW tar, NEW N \in Nat, \A k \in 1 .. N : tar[k].size \in Nat
  PROVE  \A n \in 0 .. N : \E f \in [0 .. n -> Nat] : Sums(f, tar, n)
<1> DEFINE bad == {n \in 0 .. N : ~ \E f \in [0 .. n -> Nat] : Sums(f, tar, n)}
<1> SUFFICES ASSUME bad # {} PROVE FALSE
  OBVIOUS
<1>1. PICK n \in bad : \A k \in bad : n <= k
  <2>1. bad \subseteq Nat
    OBVIOUS
  <2> HIDE DEF bad
  <2> QED BY <2>1, HasLeast
<1>2. n # 0
  <2>1. [m \in 0 .. 0 |-> 0] \in [0 .. 0 -> Nat] /\ Sums([m \in 0 .. 0 |-> 0], tar, 0)
    BY DEF Sums
  <2> QED BY <2>1
<1>3. n \in Nat /\ n <= N /\ n - 1 \in Nat /\ n - 1 \notin bad
  BY <1>1, <1>2
<1>4. PICK f \in [0 .. n - 1 -> Nat] : Sums(f, tar, n - 1)
  BY <1>3
<1> DEFINE g == [m \in 0 .. n |-> IF m = n THEN f[n - 1] + tar[n].size ELSE f[m]]
<1>5. g \in [0 .. n -> Nat]
  <2>1. tar[n].size \in Nat
    BY <1>2, <1>3
  <2> QED BY <1>3, <1>4, <2>1
<1>6. ASSUME NEW m \in 0 .. n
      PROVE  g[m] = IF m = 0 THEN 0 ELSE g[m - 1] + tar[m].size
  <2>1. CASE m = n
    BY <1>2, <1>3, <2>1
  <2>2. CASE m # n
    <3>1. m \in 0 .. n - 1 /\ g[m] = f[m] /\ (m # 0 => g[m - 1] = f[m - 1])
      BY <1>3, <2>2
    <3>2. f[m] = IF m = 0 THEN 0 ELSE f[m - 1] + tar[m].size
      BY <1>4, <3>1 DEF Sums
    <3> QED BY <3>1, <3>2
  <2> QED BY <2>1, <2>2
<1>7. Sums(g, tar, n)
  <2>1. g = [m \in 0 .. n |-> g[m]]
    OBVIOUS
  <2> HIDE DEF g
  <2> QED BY <1>6, <2>1 DEF Sums
<1> QED BY <1>1, <1>5, <1>7

LEMMA SumExists ==
  ASSUME NEW tar, NEW N \in Nat, \A k \in 1 .. N : tar[k].size \in Nat
  PROVE  \E f \in [0 .. N -> Nat] : Sums(f, tar, N)
<1>1. N \in 0 .. N
  OBVIOUS
<1> QED BY <1>1, SumsExist

(* Two archives that begin alike have the same sums, as far as they do.    *)
LEMMA SumsAgree ==
  ASSUME NEW s, NEW t, NEW f, NEW g, NEW m \in Nat, NEW N \in Nat,
         Sums(f, s, m), Sums(g, t, N), N <= m,
         \A k \in 1 .. N : s[k].size = t[k].size
  PROVE  \A k \in 0 .. N : f[k] = g[k]
<1> DEFINE bad == {k \in 0 .. N : f[k] # g[k]}
<1> SUFFICES ASSUME bad # {} PROVE FALSE
  OBVIOUS
<1>1. PICK k \in bad : \A i \in bad : k <= i
  <2>1. bad \subseteq Nat
    OBVIOUS
  <2> HIDE DEF bad
  <2> QED BY <2>1, HasLeast
<1>2. /\ f[k] = IF k = 0 THEN 0 ELSE f[k - 1] + s[k].size
      /\ g[k] = IF k = 0 THEN 0 ELSE g[k - 1] + t[k].size
  <2>1. k \in 0 .. m /\ k \in 0 .. N
    OBVIOUS
  <2> QED BY <2>1 DEF Sums
<1>3. k # 0
  BY <1>2
<1>4. k - 1 \in 0 .. N /\ k - 1 \notin bad
  BY <1>1, <1>3
<1> QED BY <1>2, <1>3, <1>4

LEMMA TotalIs ==
  ASSUME NEW tar, Len(tar) \in Nat, \A k \in 1 .. Len(tar) : tar[k].size \in Nat,
         NEW f, Sums(f, tar, Len(tar))
  PROVE  TotalBytes(tar) = f[Len(tar)]
<1> DEFINE g == CHOOSE h : Sums(h, tar, Len(tar))
<1>1. Sums(g, tar, Len(tar))
  OBVIOUS
<1>2. TotalBytes(tar) = g[Len(tar)]
  BY DEF TotalBytes, Sums
<1> HIDE DEF g
<1>3. \A k \in 0 .. Len(tar) : f[k] = g[k]
  <2>1. ASSUME NEW n \in Nat, Sums(f, tar, n), Sums(g, tar, n)
        PROVE  \A k \in 0 .. n : f[k] = g[k]
    BY <2>1, SumsAgree
  <2> QED BY <1>1, <2>1
<1> QED BY <1>2, <1>3

LEMMA TotalIsSum ==
  ASSUME NEW s, NEW tar, NEW f, NEW n \in Nat, NEW N \in Nat, n <= N, Sums(f, tar, N),
         Len(s) = n, \A k \in 1 .. n : s[k].size \in Nat /\ tar[k].size = s[k].size
  PROVE  TotalBytes(s) = f[n]
<1>1. PICK g \in [0 .. n -> Nat] : Sums(g, s, n)
  BY SumExists
<1>2. TotalBytes(s) = g[n]
  <2>1. Len(s) \in Nat /\ Sums(g, s, Len(s)) /\ \A k \in 1 .. Len(s) : s[k].size \in Nat
    BY <1>1
  <2>2. TotalBytes(s) = g[Len(s)]
    BY <2>1, TotalIs
  <2> QED BY <2>2
<1>3. \A k \in 0 .. n : f[k] = g[k]
  BY <1>1, SumsAgree
<1> QED BY <1>2, <1>3

(* The archives that an archive begins with.                               *)
Prefix(tar, n) == SubSeq(tar, 1, n)

Prefixed(tar, N) ==
  \A n \in 0 .. N : Len(Prefix(tar, n)) = n /\ \A k \in 1 .. n : Prefix(tar, n)[k] = tar[k]

LEMMA SequencePrefixed == ASSUME NEW S, NEW tar \in Seq(S) PROVE Prefixed(tar, Len(tar))
BY DEF Prefixed, Prefix

(* What the entries up to one come to, one entry later.                    *)
LEMMA TotalOfNext ==
  ASSUME NEW tar, NEW N \in Nat, Prefixed(tar, N), \A k \in 1 .. N : tar[k].size \in Nat
  PROVE  /\ TotalBytes(Prefix(tar, 0)) = 0
         /\ \A n \in 1 .. N :
              TotalBytes(Prefix(tar, n)) = TotalBytes(Prefix(tar, n - 1)) + tar[n].size
<1>1. PICK f \in [0 .. N -> Nat] : Sums(f, tar, N)
  BY SumExists
<1>2. ASSUME NEW n \in 0 .. N PROVE TotalBytes(Prefix(tar, n)) = f[n]
  <2>1. Len(Prefix(tar, n)) = n /\ \A k \in 1 .. n : Prefix(tar, n)[k] = tar[k]
    BY DEF Prefixed
  <2>2. \A k \in 1 .. n : Prefix(tar, n)[k].size \in Nat /\ tar[k].size = Prefix(tar, n)[k].size
    BY <2>1
  <2>3. n \in Nat /\ n <= N
    OBVIOUS
  <2> QED BY <1>1, <2>1, <2>2, <2>3, TotalIsSum
<1>3. \A n \in 0 .. N : f[n] = IF n = 0 THEN 0 ELSE f[n - 1] + tar[n].size
  BY <1>1 DEF Sums
<1> QED BY <1>2, <1>3
-----------------------------------------------------------------------------
(* What Parse makes of an accepted request                                 *)

Parsed == {Parse(r) : r \in {q \in Requests : Accepted(q)}}

Tar(tar) ==
  /\ Len(tar) \in Nat /\ DOMAIN tar = 1 .. Len(tar)
  /\ Prefixed(tar, Len(tar)) /\ Prefix(tar, Len(tar)) = tar
  /\ \A k \in 1 .. Len(tar) : tar[k].size \in Nat /\ tar[k].place \in {"inside", "above"}

LEMMA SequenceTar ==
  ASSUME NEW tar, IsSequence(tar),
         \A k \in DOMAIN tar : tar[k].size \in Nat /\ tar[k].place \in {"inside", "above"}
  PROVE  Tar(tar)
<1>1. Len(tar) \in Nat /\ DOMAIN tar = 1 .. Len(tar)
  BY DEF IsSequence
<1>2. Prefixed(tar, Len(tar))
  BY SequencePrefixed DEF IsSequence
<1>3. Prefix(tar, Len(tar)) = tar
  <2> DEFINE S == {tar[i] : i \in DOMAIN tar}
  <2>1. tar \in Seq(S)
    BY DEF IsSequence
  <2> HIDE DEF S
  <2> QED BY <2>1, SubSeqFull DEF Prefix
<1> QED BY <1>1, <1>2, <1>3 DEF Tar

(* The part that counts is one of those with the name.                     *)
LEMMA LatestIs ==
  ASSUME NEW r \in Requests, NEW name, Named(r, name) # {}
  PROVE  \E i \in DOMAIN r.parts : Latest(r, name) = r.parts[i]
<1>1. PICK n \in Nat : DOMAIN r.parts = 1 .. n
  BY UploadsAssumption DEF IsSequence
<1> DEFINE back == {n - i : i \in Named(r, name)}
<1>2. Named(r, name) \subseteq 1 .. n
  BY <1>1 DEF Named
<1>3. back # {} /\ back \subseteq Nat
  BY <1>2
<1>4. PICK x \in back : \A y \in back : x <= y
  BY <1>3, HasLeast
<1>5. PICK i \in Named(r, name) : x = n - i
  BY <1>4
<1>6. ASSUME NEW j \in Named(r, name) PROVE j <= i
  <2>1. n - i <= n - j
    BY <1>4, <1>5
  <2> QED BY <1>2, <2>1
<1>7. \E k \in Named(r, name) : \A j \in Named(r, name) : j <= k
  BY <1>6
<1> QED BY <1>1, <1>2, <1>7 DEF Latest

LEMMA EmptyTar == Tar(NoTar) /\ Files(NoTar) = {}
<1>1. IsSequence(NoTar) /\ DOMAIN NoTar = {}
  BY DEF IsSequence, NoTar
<1> QED BY <1>1, SequenceTar DEF Files

LEMMA ParsedIs ==
  ASSUME NEW s \in Parsed
  PROVE  /\ s.kind \in {"postgres", "supabase"}
         /\ s.kind = "postgres" => s.tar = NoTar
         /\ Tar(s.tar)
         /\ s.tar \in {q.tar : q \in Parsed}
         /\ Files(s.tar) \subseteq Path
<1>1. PICK r \in Requests : Accepted(r) /\ s = Parse(r)
  BY DEF Parsed
<1>2. r.multipart \in BOOLEAN
  BY UploadsAssumption
<1>3. CASE r.multipart
  <2>1. Named(r, "project_tar") # {} /\ Latest(r, "metadata").kind = "supabase"
    BY <1>1, <1>3 DEF Accepted, MultipartAccepted, JsonAccepted
  <2>2. s.kind = "supabase" /\ s.tar = Latest(r, "project_tar").tar
    BY <1>1, <1>3, <2>1 DEF Parse, Metadata
  <2>3. PICK i \in DOMAIN r.parts : Latest(r, "project_tar") = r.parts[i]
    BY <2>1, LatestIs
  <2>4. /\ IsSequence(r.parts[i].tar)
        /\ \A k \in DOMAIN r.parts[i].tar :
             r.parts[i].tar[k].size \in Nat /\ r.parts[i].tar[k].place \in {"inside", "above"}
    BY UploadsAssumption
  <2>5. Tar(r.parts[i].tar)
    BY <2>4, SequenceTar
  <2> QED BY <1>1, <2>2, <2>3, <2>5 DEF Path
<1>4. CASE ~r.multipart
  <2>1. s.kind = "postgres" /\ s.tar = NoTar
    BY <1>1, <1>2, <1>4 DEF Accepted, MultipartAccepted, JsonAccepted, Parse, Metadata
  <2> QED BY <1>1, <2>1, EmptyTar DEF Path
<1> QED BY <1>2, <1>3, <1>4
-----------------------------------------------------------------------------
(* The inductive invariant                                                 *)

Ops    == Commands \cup Blocking
Phases == {"free", "ready", "failed", "teardown", "wipe"} \cup Spawning

EntryOK(e) == e.type \in {"regular", "directory"} /\ e.size <= MaxEntryBytes /\ e.place = "inside"

(* What an extraction has accepted so far, it has added up right.          *)
Read(j) ==
  /\ j.next <= Len(j.tar) + 1
  /\ j.total = TotalBytes(Prefix(j.tar, j.next - 1))
  /\ \A i \in 1 .. j.next - 1 : EntryOK(j.tar[i])

Static(j) == j \in JobType /\ Tar(j.tar) /\ (j.op = "extract" => Read(j))

(* The job the tenant's task waits for is of that task; one that nobody    *)
(* waits for is of a tenant that was cut short.                            *)
Loose(j) ==
  /\ ~j.awaited /\ j.tenant \in cut
  /\ j.op \in {"clean", "wipe"} => j.tenant \in overrun
Mine(j) == j.awaited /\ j.op = phase /\ j.tenant = tenant /\ j.tar = spec.tar

JobsInv ==
  /\ \A j \in jobs : Static(j) /\ (Mine(j) \/ Loose(j))
  /\ \A j, k \in jobs : j.awaited /\ k.awaited => j = k
  /\ phase \in Ops => \E j \in jobs : j.awaited

SlotInv ==
  /\ tenant \in 0 .. MaxTenants /\ faults \in 0 .. MaxFaults
  /\ phase \in Phases /\ verdict \in Verdicts
  /\ spec.kind \in {"postgres", "supabase"}
  /\ phase # "free" => tenant \in Tenants /\ spec \in Parsed
  /\ overrun \subseteq cut /\ cut \subseteq 1 .. tenant
  /\ phase \in Spawning \cup {"ready", "failed"} => tenant \notin overrun

Busy == {"extract", "adopt", "clean"}

FilesInv ==
  /\ DOMAIN staging \subseteq Path /\ DOMAIN dir \subseteq Path
  /\ \A p \in DOMAIN staging : staging[p] \in cut \/ (staging[p] = tenant /\ phase \in Busy)
  /\ \A p \in DOMAIN dir : dir[p] \in cut \/ (dir[p] = tenant /\ phase # "free")

VerdictInv ==
  /\ phase \in {"prepare", "stage", "extract"} => verdict = "none"
  /\ phase \in {"stage"} \cup Busy => spec.kind = "supabase"
  /\ phase = "adopt" => verdict = "ok"
  /\ phase \in {"backend", "ready"} => (spec.kind = "supabase" <=> verdict = "ok")
  /\ verdict = "ok" => spec.kind = "supabase" /\ Acceptable(spec.tar)

(* As long as nobody else removes files, what was extracted stays staged,  *)
(* and what was copied stays.                                              *)
Undisturbed == phase \in Spawning \cup {"ready"} /\ overrun = {}

CompleteInv ==
  Undisturbed =>
    /\ \A j \in jobs : j.awaited =>
         /\ j.op = "extract" => \A i \in 1 .. j.next - 1 : j.tar[i].path \in DOMAIN staging
         /\ j.op = "adopt" => \A p \in Files(spec.tar) :
              p \in DOMAIN staging /\ (p \in j.todo \/ p \in DOMAIN dir)
    /\ phase \in {"backend", "ready"} \/ (phase = "clean" /\ verdict = "ok")
         => Files(spec.tar) \subseteq DOMAIN dir
    /\ phase = "ready" => Data \in DOMAIN dir

IInv == JobsInv /\ SlotInv /\ FilesInv /\ VerdictInv /\ CompleteInv
-----------------------------------------------------------------------------
(* Jobs                                                                    *)

LEMMA JobFields ==
  ASSUME NEW op
  PROVE  /\ Job(op).op = op /\ Job(op).tenant = tenant /\ Job(op).tar = spec.tar
         /\ Job(op).next = 1 /\ Job(op).total = 0 /\ Job(op).awaited = TRUE /\ Job(op).bad = FALSE
         /\ Job(op).todo = IF op = "adopt" THEN DOMAIN staging ELSE {}
BY DEF Job

LEMMA JobStatic ==
  ASSUME SlotInv, FilesInv, NEW op \in Ops, phase # "free"
  PROVE  Static(Job(op))
<1>1. Tar(spec.tar) /\ spec.tar \in {q.tar : q \in Parsed} /\ tenant \in Tenants
  BY ParsedIs DEF SlotInv
<1>2. Job(op) \in JobType
  <2>1. spec.tar \in {Parse(r).tar : r \in {q \in Requests : Accepted(q)}}
    BY <1>1 DEF Parsed
  <2>2. DOMAIN staging \subseteq Path
    BY DEF FilesInv
  <2>3. 0 \in 0 .. MaxTotalBytes /\ 1 \in Nat \ {0}
    BY TarAssumption
  <2> QED BY <1>1, <2>1, <2>2, <2>3 DEF Job, JobType, Ops
<1>3. Read(Job(op))
  <2>1. TotalBytes(Prefix(spec.tar, 0)) = 0
    BY <1>1, TotalOfNext DEF Tar
  <2>2. /\ 1 <= Len(spec.tar) + 1 /\ 0 = TotalBytes(Prefix(spec.tar, 1 - 1))
        /\ \A i \in 1 .. 1 - 1 : EntryOK(spec.tar[i])
    BY <1>1, <2>1 DEF Tar
  <2> QED BY <2>2, JobFields DEF Read
<1> QED BY <1>1, <1>2, <1>3, JobFields DEF Static

(* One job is replaced by what has become of it.                           *)
LEMMA JobGoesOn ==
  ASSUME JobsInv, NEW j \in jobs, NEW k, Static(k),
         k.op = j.op, k.tenant = j.tenant, k.awaited = j.awaited, k.tar = j.tar,
         jobs' = (jobs \ {j}) \cup {k}, UNCHANGED <<tenant, spec, phase, cut, overrun>>
  PROVE  JobsInv'
BY DEF JobsInv, Mine, Loose

(* A job that nobody waits for ends.                                       *)
LEMMA JobVanishes ==
  ASSUME JobsInv, NEW j \in jobs, ~j.awaited, jobs' = jobs \ {j},
         UNCHANGED <<tenant, spec, phase, cut, overrun>>
  PROVE  JobsInv'
BY DEF JobsInv, Mine, Loose

(* The task waits for a new job; the other jobs are loose.                 *)
LEMMA JobBegins ==
  ASSUME SlotInv, FilesInv, NEW op \in Ops, phase # "free", phase' = op,
         UNCHANGED <<tenant, spec>>,
         NEW k, k = Job(op), NEW rest, \A j \in rest : Static(j) /\ Loose(j)', jobs' = rest \cup {k}
  PROVE  JobsInv'
<1>1. Static(k)
  BY JobStatic
<1>2. Mine(k)' /\ k.awaited
  BY JobFields DEF Mine
<1> QED BY <1>1, <1>2 DEF JobsInv, Loose

(* The task waits for nothing.                                             *)
LEMMA NoJob ==
  ASSUME phase' \notin Ops, \A j \in jobs' : Static(j) /\ Loose(j)'
  PROVE  JobsInv'
BY DEF JobsInv, Loose

(* Nobody waits for any job any more.                                      *)
LEMMA AbandonedLoose ==
  ASSUME JobsInv, NEW j \in Abandoned, cut \subseteq cut', overrun \subseteq overrun',
         phase \in Ops => tenant \in cut',
         j.op = phase /\ phase \in {"clean", "wipe"} => tenant \in overrun'
  PROVE  Static(j) /\ Loose(j)'
<1>1. PICK i \in jobs : j = [i EXCEPT !.awaited = FALSE]
  BY DEF Abandoned
<1>2. Static(i) /\ (Mine(i) \/ Loose(i))
  BY DEF JobsInv
<1>3. /\ j \in JobType /\ j.op = i.op /\ j.tenant = i.tenant /\ j.awaited = FALSE
      /\ j.tar = i.tar /\ j.next = i.next /\ j.total = i.total
  BY <1>1, <1>2 DEF Static, JobType
<1>4. Static(j)
  BY <1>2, <1>3 DEF Static, Read
<1>5. Loose(j)'
  <2>1. i.op \in Ops
    BY <1>2 DEF Static, JobType, Ops
  <2> QED BY <1>2, <1>3, <2>1 DEF Mine, Loose
<1> QED BY <1>4, <1>5
-----------------------------------------------------------------------------
(* Every step keeps the invariant.                                         *)
USE DEF Phases, Ops, Commands, Blocking, Spawning, Busy

LEMMA AllLoose == ASSUME JobsInv, phase \notin Ops PROVE \A j \in jobs : Static(j) /\ Loose(j)
BY DEF JobsInv, Static, Mine, JobType

LEMMA Quiet ==
  ASSUME JobsInv, phase \notin Ops, phase' \notin Ops, jobs' = jobs, UNCHANGED <<cut, overrun>>
  PROVE  JobsInv' /\ \A j \in jobs' : ~j.awaited
<1>1. \A j \in jobs' : Static(j) /\ Loose(j)'
  BY AllLoose DEF Loose
<1> QED BY <1>1, NoJob DEF Loose

LEMMA InitInv == Init => IInv
<1> SUFFICES ASSUME Init PROVE IInv
  OBVIOUS
<1> USE DEF Init
<1>1. JobsInv /\ FilesInv /\ VerdictInv /\ CompleteInv
  BY DEF JobsInv, FilesInv, VerdictInv, CompleteInv, Undisturbed
<1>2. SlotInv
  BY UploadsAssumption DEF SlotInv, Verdicts
<1> QED BY <1>1, <1>2 DEF IInv

LEMMA CreateInv == ASSUME IInv, NEW r \in Requests, Create(r) PROVE IInv'
<1> USE DEF IInv, Create
<1>1. JobsInv' /\ \A j \in jobs' : ~j.awaited
  BY Quiet
<1>2. spec' \in Parsed /\ spec'.kind \in {"postgres", "supabase"}
  <2>1. spec' \in Parsed
    BY DEF Parsed
  <2> QED BY <2>1, ParsedIs
<1>3. SlotInv'
  BY <1>2, UploadsAssumption DEF SlotInv, Tenants, Verdicts
<1>4. FilesInv' /\ VerdictInv'
  BY DEF FilesInv, VerdictInv
<1>5. CompleteInv'
  BY <1>1 DEF CompleteInv
<1> QED BY <1>1, <1>3, <1>4, <1>5

LEMMA PlainInv == ASSUME IInv, Prepare \/ PrepareFails \/ Delete PROVE IInv'
<1> USE DEF IInv, Prepare, PrepareFails, Delete, Fault
<1>1. /\ UNCHANGED <<tenant, spec, verdict, staging, dir, jobs, cut, overrun>>
      /\ phase \notin Ops /\ phase' \notin Ops /\ phase \in Phases /\ phase' \in Phases
      /\ phase # "free" /\ phase' # "free"
      /\ phase' \in Spawning \cup {"ready", "failed"} => phase \in Spawning \cup {"ready", "failed"}
  BY DEF SlotInv
<1>2. JobsInv' /\ \A j \in jobs' : ~j.awaited
  BY <1>1, Quiet
<1>3. SlotInv'
  <2>1. faults' \in 0 .. MaxFaults
    BY UploadsAssumption DEF SlotInv
  <2> QED BY <1>1, <2>1 DEF SlotInv
<1>4. FilesInv'
  BY <1>1 DEF FilesInv
<1>5. VerdictInv'
  BY DEF VerdictInv, SlotInv
<1>6. CompleteInv'
  <2>1. spec.kind = "postgres" => Files(spec.tar) = {}
    BY <1>1, ParsedIs, EmptyTar DEF SlotInv
  <2> QED BY <1>1, <1>2, <2>1 DEF CompleteInv, Undisturbed, SlotInv
<1> QED BY <1>2, <1>3, <1>4, <1>5, <1>6

(* A job begins, and the task waits for it.                                *)
LEMMA WaitInv == ASSUME IInv, Stage \/ Teardown PROVE IInv'
<1> USE DEF IInv, Stage, Teardown
<1>1. PICK op \in {"extract", "wipe"} :
        /\ op = "extract" => phase = "stage"
        /\ op = "wipe" => phase = "teardown"
        /\ phase' = op /\ jobs' = jobs \cup {Job(op)}
        /\ UNCHANGED <<tenant, spec, verdict, staging, dir, cut, overrun, faults>>
  BY Zenon
<1>2. PICK k : k = Job(op)
  OBVIOUS
<1>3. \A j \in jobs : Static(j) /\ Loose(j)' /\ ~j.awaited
  BY <1>1, AllLoose DEF Loose
<1>4. JobsInv'
  <2>1. op \in Ops /\ phase # "free" /\ jobs' = jobs \cup {k} /\ UNCHANGED <<tenant, spec>>
    BY <1>1, <1>2
  <2> QED BY <1>1, <1>2, <1>3, <2>1, JobBegins
<1>5. SlotInv' /\ FilesInv' /\ VerdictInv'
  BY <1>1 DEF SlotInv, FilesInv, VerdictInv
<1>6. CompleteInv'
  <2>1. k.op = op /\ k.next = 1
    BY <1>2, JobFields
  <2>2. op = "wipe" => ~Undisturbed'
    BY <1>1 DEF Undisturbed
  <2> QED BY <1>1, <1>2, <1>3, <2>1, <2>2 DEF CompleteInv
<1> QED BY <1>4, <1>5, <1>6

LEMMA BackendInv == ASSUME IInv, BackendSpawns \/ BackendFails PROVE IInv'
<1> USE DEF IInv, BackendSpawns, BackendFails, Backend, Fault
<1>1. /\ UNCHANGED <<tenant, spec, verdict, staging, jobs, cut, overrun>>
      /\ phase = "backend" /\ phase' \in {"ready", "failed"}
      /\ dir' = IF Data \in DOMAIN dir THEN dir ELSE Put(dir, Data, tenant)
  OBVIOUS
<1>2. JobsInv' /\ \A j \in jobs' : ~j.awaited
  BY <1>1, Quiet
<1>3. SlotInv'
  <2>1. faults' \in 0 .. MaxFaults
    BY UploadsAssumption DEF SlotInv
  <2> QED BY <1>1, <2>1 DEF SlotInv
<1>4. /\ DOMAIN dir' = DOMAIN dir \cup {Data}
      /\ \A p \in DOMAIN dir' : (p \in DOMAIN dir /\ dir'[p] = dir[p]) \/ dir'[p] = tenant
  <2>1. CASE Data \in DOMAIN dir
    BY <1>1, <2>1
  <2>2. CASE Data \notin DOMAIN dir
    <3>1. dir' = Put(dir, Data, tenant)
      BY <1>1, <2>2
    <3> QED BY <3>1 DEF Put
  <2> QED BY <2>1, <2>2
<1>5. Data \in Path
  BY DEF Path
<1>6. FilesInv' /\ VerdictInv'
  BY <1>1, <1>4, <1>5 DEF FilesInv, VerdictInv
<1>7. CompleteInv'
  BY <1>1, <1>2, <1>4 DEF CompleteInv, Undisturbed
<1> QED BY <1>2, <1>3, <1>6, <1>7
-----------------------------------------------------------------------------
(* Extraction                                                              *)

(* An entry that passes adds its size to what the extraction comes to.     *)
LEMMA EntryPasses ==
  ASSUME NEW j, Static(j), j.op = "extract", j.next <= Len(j.tar),
         Verdict(j.tar[j.next], j.total) = "ok",
         NEW k, k = [j EXCEPT !.next = @ + 1, !.total = AddSize(@, j.tar[j.next].size)]
  PROVE  /\ Static(k)
         /\ k.op = j.op /\ k.tenant = j.tenant /\ k.awaited = j.awaited /\ k.tar = j.tar
         /\ k.next = j.next + 1
<1> DEFINE e == j.tar[j.next]
<1>1. /\ j.next \in Nat \ {0} /\ j.total \in 0 .. MaxTotalBytes
      /\ Len(j.tar) \in Nat /\ j.next \in 1 .. Len(j.tar)
  BY DEF Static, JobType, Tar
<1>2. e.size \in Nat /\ e.place \in {"inside", "above"}
  BY <1>1 DEF Static, Tar
<1>3. EntryOK(e) /\ AddSize(j.total, e.size) <= MaxTotalBytes
  <2>1. e.place # "above"
    BY DEF Verdict
  <2>2. e.type \in {"regular", "directory"}
    BY DEF Verdict
  <2>3. ~(e.size > MaxEntryBytes) /\ ~(AddSize(j.total, e.size) > MaxTotalBytes)
    BY DEF Verdict
  <2>4. AddSize(j.total, e.size) \in Nat
    BY <1>1, <1>2, TarAssumption DEF AddSize
  <2> QED BY <1>2, <2>1, <2>2, <2>3, <2>4, TarAssumption DEF EntryOK
<1>4. AddSize(j.total, e.size) = j.total + e.size
  BY <1>1, <1>2, <1>3, TarAssumption DEF AddSize
<1>5. /\ k \in JobType /\ k.next = j.next + 1 /\ k.total = j.total + e.size
      /\ k.op = j.op /\ k.tenant = j.tenant /\ k.awaited = j.awaited /\ k.tar = j.tar
  <2>1. j \in JobType
    BY DEF Static
  <2>2. /\ k = [j EXCEPT !.next = j.next + 1, !.total = j.total + e.size]
        /\ j.next + 1 \in Nat \ {0} /\ j.total + e.size \in 0 .. MaxTotalBytes
    BY <1>1, <1>2, <1>3, <1>4, TarAssumption
  <2> HIDE DEF e
  <2> QED BY <2>1, <2>2 DEF JobType
<1>6. Read(k)
  <2>1. Read(j)
    BY DEF Static
  <2>2. TotalBytes(Prefix(j.tar, j.next)) = TotalBytes(Prefix(j.tar, j.next - 1)) + e.size
    BY <1>1, TotalOfNext DEF Static, Tar
  <2>3. k.next - 1 = j.next /\ k.next <= Len(k.tar) + 1
    BY <1>1, <1>5
  <2>4. k.total = TotalBytes(Prefix(k.tar, k.next - 1))
    BY <1>5, <2>1, <2>2, <2>3 DEF Read
  <2>5. \A i \in 1 .. k.next - 1 : EntryOK(k.tar[i])
    BY <1>1, <1>3, <1>5, <2>1, <2>3 DEF Read
  <2> QED BY <2>3, <2>4, <2>5 DEF Read
<1> QED BY <1>5, <1>6 DEF Static

LEMMA ExtractEntryInv == ASSUME IInv, NEW j \in jobs, ExtractEntry(j) PROVE IInv'
<1> USE DEF IInv, ExtractEntry
<1> DEFINE p == j.tar[j.next].path
<1>1. PICK k : k = [j EXCEPT !.next = @ + 1, !.total = AddSize(@, j.tar[j.next].size)]
  OBVIOUS
<1>2. /\ j.op = "extract" /\ j.next <= Len(j.tar) /\ Verdict(j.tar[j.next], j.total) = "ok"
      /\ staging' = Put(staging, p, j.tenant) /\ jobs' = (jobs \ {j}) \cup {k}
      /\ UNCHANGED <<tenant, spec, phase, verdict, dir, cut, overrun, faults>>
  BY <1>1
<1>3. Static(j) /\ (Mine(j) \/ Loose(j))
  BY DEF JobsInv
<1>4. /\ Static(k)
      /\ k.op = j.op /\ k.tenant = j.tenant /\ k.awaited = j.awaited /\ k.tar = j.tar
      /\ k.next = j.next + 1
  BY <1>1, <1>2, <1>3, EntryPasses
<1>5. JobsInv'
  BY <1>2, <1>4, JobGoesOn
<1>6. SlotInv' /\ VerdictInv'
  BY <1>2 DEF SlotInv, VerdictInv
<1>7. j.next \in 1 .. Len(j.tar) /\ Len(j.tar) \in Nat /\ DOMAIN j.tar = 1 .. Len(j.tar)
  BY <1>2, <1>3 DEF Static, JobType, Tar
<1>8. /\ DOMAIN staging' = DOMAIN staging \cup {p}
      /\ \A q \in DOMAIN staging' :
           (q \in DOMAIN staging /\ staging'[q] = staging[q]) \/ staging'[q] = j.tenant
  <2>1. staging' = Put(staging, p, j.tenant)
    BY <1>2
  <2> HIDE DEF p, IInv, ExtractEntry
  <2> QED BY <2>1 DEF Put
<1>9. p \in Path
  <2>1. PICK s \in Parsed : j.tar = s.tar
    BY <1>3 DEF Static, JobType, Parsed
  <2> QED BY <1>7, <2>1, ParsedIs DEF Files
<1>10. FilesInv'
  <2>1. j.tenant \in cut \/ (j.tenant = tenant /\ phase \in Busy)
    BY <1>2, <1>3 DEF Loose, Mine
  <2> QED BY <1>2, <1>8, <1>9, <2>1 DEF FilesInv
<1>11. CompleteInv'
  <2> HIDE DEF p
  <2>1. Undisturbed' <=> Undisturbed
    BY <1>2 DEF Undisturbed
  <2>2. ASSUME Undisturbed, NEW i \in jobs', i.awaited, i.op = "extract", NEW n \in 1 .. i.next - 1
        PROVE  i.tar[n].path \in DOMAIN staging'
    <3>1. CASE i = k
      <4>1. n = j.next => i.tar[n].path = p
        BY <1>4, <3>1 DEF p
      <4>2. n # j.next => n \in 1 .. j.next - 1
        BY <1>4, <1>7, <2>2, <3>1
      <4>3. j.awaited /\ i.tar = j.tar
        BY <1>4, <2>2, <3>1
      <4> QED BY <1>2, <1>8, <2>2, <4>1, <4>2, <4>3 DEF CompleteInv
    <3>2. CASE i # k
      BY <1>2, <1>8, <2>2, <3>2 DEF CompleteInv
    <3> QED BY <3>1, <3>2
  <2>3. ASSUME Undisturbed, NEW i \in jobs', i.awaited, i.op = "adopt", NEW q \in Files(spec.tar)
        PROVE  q \in DOMAIN staging' /\ (q \in i.todo \/ q \in DOMAIN dir)
    <3>1. i # k /\ i \in jobs
      BY <1>2, <1>4, <2>3
    <3> QED BY <1>8, <2>3, <3>1 DEF CompleteInv
  <2> QED BY <1>2, <2>1, <2>2, <2>3 DEF CompleteInv
<1> QED BY <1>5, <1>6, <1>10, <1>11

(* A whole archive that passed is acceptable, and every file is staged.    *)
LEMMA WholeIsAcceptable ==
  ASSUME NEW j, Static(j), j.op = "extract", j.next > Len(j.tar)
  PROVE  Acceptable(j.tar) /\ j.next - 1 = Len(j.tar)
<1>1. /\ j.next \in Nat /\ j.total \in 0 .. MaxTotalBytes /\ Len(j.tar) \in Nat
      /\ j.next <= Len(j.tar) + 1
      /\ j.total = TotalBytes(Prefix(j.tar, j.next - 1))
      /\ \A i \in 1 .. j.next - 1 : EntryOK(j.tar[i])
      /\ DOMAIN j.tar = 1 .. Len(j.tar) /\ Prefix(j.tar, Len(j.tar)) = j.tar
  BY DEF Static, JobType, Read, Tar
<1>2. j.next - 1 = Len(j.tar)
  BY <1>1
<1>3. TotalBytes(j.tar) <= MaxTotalBytes
  BY <1>1, <1>2, TarAssumption
<1> QED BY <1>1, <1>2, <1>3 DEF Acceptable, EntryOK

LEMMA VerdictIs == ASSUME NEW e, NEW total PROVE Verdict(e, total) \in {"type", "size", "path", "ok"}
BY DEF Verdict

(* A job of a task that nobody waits for is of no consequence.             *)
LEMMA VanishInv ==
  ASSUME IInv, NEW j \in jobs, ~j.awaited, jobs' = jobs \ {j}, faults' \in 0 .. MaxFaults,
         UNCHANGED <<tenant, spec, phase, verdict, staging, dir, overrun>>,
         cut' = cut \/ cut' = cut \cup {j.tenant}
  PROVE  IInv'
<1> USE DEF IInv
<1>1. cut' = cut
  BY DEF JobsInv, Mine, Loose
<1>2. JobsInv'
  BY <1>1, JobVanishes
<1>3. SlotInv' /\ FilesInv' /\ VerdictInv'
  BY <1>1 DEF SlotInv, FilesInv, VerdictInv
<1>4. CompleteInv'
  BY <1>1 DEF CompleteInv, Undisturbed
<1> QED BY <1>2, <1>3, <1>4

(* The task's own job ends, and it waits for the next.                     *)
LEMMA NextJobInv ==
  ASSUME IInv, NEW j \in jobs, j.awaited, NEW op \in {"adopt", "clean"}, phase' = op,
         phase \in {"extract", "adopt"}, phase = "adopt" => op = "clean",
         NEW k, k = Job(op), jobs' = (jobs \ {j}) \cup {k}, faults' \in 0 .. MaxFaults,
         verdict' \in Verdicts \ {"none"},
         UNCHANGED <<tenant, spec, staging, dir, cut, overrun>>
  PROVE  JobsInv' /\ SlotInv' /\ FilesInv' /\ \A i \in jobs' : i.awaited => i = k
<1> USE DEF IInv
<1>1. \A i \in jobs \ {j} : Static(i) /\ Loose(i) /\ ~i.awaited
  BY DEF JobsInv, Mine, Loose
<1>2. \A i \in jobs \ {j} : Static(i) /\ Loose(i)'
  BY <1>1 DEF Loose
<1>3. JobsInv'
  <2>1. op \in Ops /\ phase # "free" /\ UNCHANGED <<tenant, spec>>
    OBVIOUS
  <2>2. PICK rest : rest = jobs \ {j}
    OBVIOUS
  <2>3. (\A i \in rest : Static(i) /\ Loose(i)') /\ jobs' = rest \cup {k}
    BY <1>2, <2>2
  <2> QED BY <2>1, <2>3, JobBegins
<1>4. SlotInv' /\ FilesInv'
  BY DEF SlotInv, FilesInv
<1> QED BY <1>1, <1>3, <1>4

LEMMA ExtractedInv ==
  ASSUME IInv, NEW j \in jobs, NEW v \in Verdicts \ {"none"}, Extracted(j, v),
         v = "ok" => j.next > Len(j.tar), faults' \in 0 .. MaxFaults
  PROVE  IInv'
<1> USE DEF IInv
<1>1. CASE ~j.awaited
  BY <1>1, VanishInv DEF Extracted
<1>2. CASE j.awaited
  <2>1. PICK op : op = IF v = "ok" THEN "adopt" ELSE "clean"
    OBVIOUS
  <2>2. PICK k : k = Job(op)
    OBVIOUS
  <2>3. /\ j.op = "extract" /\ verdict' = v /\ phase' = op /\ jobs' = (jobs \ {j}) \cup {k}
        /\ UNCHANGED <<tenant, spec, staging, dir, cut, overrun>>
    BY <1>2, <2>1, <2>2, Zenon DEF Extracted
  <2>4. /\ Static(j) /\ phase = "extract" /\ j.tar = spec.tar
    BY <1>2, <2>3 DEF JobsInv, Mine, Loose
  <2>5. JobsInv' /\ SlotInv' /\ FilesInv' /\ \A i \in jobs' : i.awaited => i = k
    <3>1. op \in {"adopt", "clean"} /\ verdict' \in Verdicts \ {"none"}
      BY <2>1, <2>3
    <3> HIDE DEF IInv
    <3> QED BY <1>2, <2>2, <2>3, <2>4, <3>1, NextJobInv
  <2>6. VerdictInv'
    <3>1. v = "ok" => Acceptable(spec.tar)
      BY <2>3, <2>4, WholeIsAcceptable
    <3> QED BY <2>1, <2>3, <2>4, <3>1 DEF VerdictInv
  <2>7. CompleteInv'
    <3>1. Undisturbed' => Undisturbed
      BY <2>3, <2>4 DEF Undisturbed
    <3>2. ASSUME Undisturbed, v = "ok" PROVE Files(spec.tar) \subseteq DOMAIN staging
      <4>1. DOMAIN j.tar = 1 .. j.next - 1
        BY <2>3, <2>4, <3>2, WholeIsAcceptable DEF Static, Tar
      <4>2. \A i \in 1 .. j.next - 1 : j.tar[i].path \in DOMAIN staging
        BY <1>2, <2>3, <3>2 DEF CompleteInv
      <4> QED BY <2>4, <4>1, <4>2 DEF Files
    <3>3. k.op = op /\ (op = "adopt" => k.todo = DOMAIN staging)
      BY <2>2, JobFields
    <3> QED BY <2>1, <2>3, <2>5, <3>1, <3>2, <3>3 DEF CompleteInv
  <2> QED BY <2>5, <2>6, <2>7
<1> QED BY <1>1, <1>2

LEMMA ExtractEndsInv == ASSUME IInv, NEW j \in jobs, ExtractEnds(j) \/ ExtractFails(j) PROVE IInv'
<1>1. faults \in 0 .. MaxFaults
  BY DEF IInv, SlotInv
<1>2. CASE ExtractFails(j)
  <2>1. faults' \in 0 .. MaxFaults /\ Extracted(j, "unreadable")
    BY <1>1, <1>2, UploadsAssumption DEF ExtractFails, Fault
  <2> QED BY <2>1, ExtractedInv DEF Verdicts
<1>3. CASE ExtractEnds(j) /\ j.next > Len(j.tar)
  <2>1. faults' \in 0 .. MaxFaults /\ Extracted(j, "ok")
    BY <1>1, <1>3 DEF ExtractEnds
  <2> QED BY <1>3, <2>1, ExtractedInv DEF Verdicts
<1>4. CASE ExtractEnds(j) /\ ~(j.next > Len(j.tar))
  <2>1. PICK v : v = Verdict(j.tar[j.next], j.total)
    OBVIOUS
  <2>2. v # "ok" /\ Extracted(j, v) /\ faults' = faults
    BY <1>4, <2>1 DEF ExtractEnds
  <2>3. v \in Verdicts \ {"none"}
    BY <2>1, VerdictIs DEF Verdicts
  <2> QED BY <1>1, <2>2, <2>3, ExtractedInv
<1> QED BY <1>2, <1>3, <1>4
-----------------------------------------------------------------------------
(* The copy                                                                *)

LEMMA CopyStepInv ==
  ASSUME IInv, NEW j \in jobs, NEW p \in j.todo, CopyFile(j, p) \/ MissFile(j, p)
  PROVE  IInv'
<1> USE DEF IInv
<1>1. PICK k : \/ CopyFile(j, p) /\ k = [j EXCEPT !.todo = @ \ {p}]
               \/ MissFile(j, p) /\ k = [j EXCEPT !.todo = @ \ {p}, !.bad = TRUE]
  OBVIOUS
<1>2. /\ j.op = "adopt" /\ jobs' = (jobs \ {j}) \cup {k}
      /\ UNCHANGED <<tenant, spec, phase, verdict, staging, cut, overrun, faults>>
  BY <1>1 DEF CopyFile, MissFile
<1>3. Static(j) /\ (Mine(j) \/ Loose(j))
  BY DEF JobsInv
<1>4. /\ Static(k) /\ k.todo = j.todo \ {p}
      /\ k.op = j.op /\ k.tenant = j.tenant /\ k.awaited = j.awaited /\ k.tar = j.tar
  <2>1. /\ k \in JobType /\ k.todo = j.todo \ {p}
        /\ k.op = j.op /\ k.tenant = j.tenant /\ k.awaited = j.awaited /\ k.tar = j.tar
    BY <1>1, <1>3 DEF Static, JobType
  <2> QED BY <1>2, <1>3, <2>1 DEF Static
<1>5. JobsInv'
  BY <1>2, <1>4, JobGoesOn
<1>6. SlotInv' /\ VerdictInv'
  BY <1>2 DEF SlotInv, VerdictInv
<1>7. /\ DOMAIN dir \subseteq DOMAIN dir' /\ DOMAIN dir' \subseteq DOMAIN dir \cup {p}
      /\ \A q \in DOMAIN dir' : (q \in DOMAIN dir /\ dir'[q] = dir[q]) \/ dir'[q] = staging[p]
      /\ p \in DOMAIN staging => p \in DOMAIN dir'
      /\ DOMAIN dir' # DOMAIN dir => p \in DOMAIN staging
      /\ p \notin DOMAIN staging => dir' = dir
  <2>1. CASE CopyFile(j, p)
    <3>1. dir' = Put(dir, p, staging[p]) /\ p \in DOMAIN staging
      BY <2>1 DEF CopyFile
    <3> HIDE DEF IInv
    <3> QED BY <3>1 DEF Put
  <2>2. CASE MissFile(j, p)
    BY <2>2 DEF MissFile
  <2> QED BY <1>1, <2>1, <2>2
<1>8. FilesInv'
  <2>1. p \in DOMAIN staging => staging[p] \in cut \/ (staging[p] = tenant /\ phase # "free")
    BY DEF FilesInv
  <2> QED BY <1>2, <1>7, <2>1 DEF FilesInv
<1>9. CompleteInv'
  <2>1. Undisturbed' <=> Undisturbed
    BY <1>2 DEF Undisturbed
  <2>2. ASSUME Undisturbed, NEW i \in jobs', i.awaited, i.op = "adopt", NEW q \in Files(spec.tar)
        PROVE  q \in DOMAIN staging /\ (q \in i.todo \/ q \in DOMAIN dir')
    <3>1. CASE i = k
      BY <1>2, <1>4, <1>7, <2>2, <3>1 DEF CompleteInv
    <3>2. CASE i # k
      BY <1>2, <1>7, <2>2, <3>2 DEF CompleteInv
    <3> QED BY <3>1, <3>2
  <2>3. ASSUME Undisturbed, NEW i \in jobs', i.awaited, i.op = "extract", NEW n \in 1 .. i.next - 1
        PROVE  i.tar[n].path \in DOMAIN staging
    BY <1>2, <1>4, <2>3 DEF CompleteInv
  <2> QED BY <1>2, <1>7, <2>1, <2>2, <2>3 DEF CompleteInv
<1> QED BY <1>5, <1>6, <1>8, <1>9

LEMMA AdoptedInv ==
  ASSUME IInv, NEW j \in jobs, j.op = "adopt", j.awaited, NEW v \in {"ok", "worker"}, Adopted(j, v),
         v = "ok" => j.todo = {}, UNCHANGED cut, faults' \in 0 .. MaxFaults
  PROVE  IInv'
<1> USE DEF IInv
<1>1. PICK k : k = Job("clean")
  OBVIOUS
<1>2. /\ verdict' = v /\ phase' = "clean" /\ jobs' = (jobs \ {j}) \cup {k}
      /\ UNCHANGED <<tenant, spec, staging, dir, cut, overrun>>
  BY <1>1 DEF Adopted
<1>3. phase = "adopt"
  BY DEF JobsInv, Mine, Loose
<1>4. JobsInv' /\ SlotInv' /\ FilesInv' /\ \A i \in jobs' : i.awaited => i = k
  <2>1. "clean" \in {"adopt", "clean"} /\ verdict' \in Verdicts \ {"none"}
    BY <1>2 DEF Verdicts
  <2> HIDE DEF IInv
  <2> QED BY <1>1, <1>2, <1>3, <2>1, NextJobInv
<1>5. VerdictInv'
  BY <1>2, <1>3 DEF VerdictInv
<1>6. CompleteInv'
  <2>1. k.op = "clean"
    BY <1>1, JobFields
  <2>2. Undisturbed' => Undisturbed
    BY <1>2, <1>3 DEF Undisturbed
  <2>3. Undisturbed /\ v = "ok" => Files(spec.tar) \subseteq DOMAIN dir
    BY DEF CompleteInv
  <2> QED BY <1>2, <1>4, <2>1, <2>2, <2>3 DEF CompleteInv
<1> QED BY <1>4, <1>5, <1>6

(* The copy goes on without its task, which removes the staged files.      *)
LEMMA CopyTimesOutInv == ASSUME IInv, NEW j \in jobs, CopyTimesOut(j) PROVE IInv'
<1> USE DEF IInv
<1>1. PICK k : k = Job("clean")
  OBVIOUS
<1>2. /\ j.op = "adopt" /\ j.awaited /\ verdict' = "worker" /\ phase' = "clean"
      /\ jobs' = Abandoned \cup {k} /\ cut' = cut \cup {tenant}
      /\ UNCHANGED <<tenant, spec, staging, dir, overrun>>
      /\ faults < MaxFaults /\ faults' = faults + 1
  BY <1>1 DEF CopyTimesOut, Fault
<1>3. phase = "adopt"
  BY <1>2 DEF JobsInv, Mine, Loose
<1>4. \A i \in Abandoned : Static(i) /\ Loose(i)'
  <2> SUFFICES ASSUME NEW i \in Abandoned PROVE Static(i) /\ Loose(i)'
    OBVIOUS
  <2>1. /\ cut \subseteq cut' /\ overrun \subseteq overrun' /\ tenant \in cut'
        /\ phase \notin {"clean", "wipe"}
    BY <1>2, <1>3
  <2> QED BY <2>1, AbandonedLoose
<1>5. JobsInv'
  <2>1. PICK rest : rest = Abandoned
    OBVIOUS
  <2>2. (\A i \in rest : Static(i) /\ Loose(i)') /\ jobs' = rest \cup {k}
    BY <1>2, <1>4, <2>1
  <2>3. "clean" \in Ops /\ phase # "free" /\ phase' = "clean" /\ UNCHANGED <<tenant, spec>>
    BY <1>2, <1>3
  <2> QED BY <1>1, <2>2, <2>3, JobBegins
<1>6. SlotInv'
  <2>1. tenant \in Tenants /\ faults' \in 0 .. MaxFaults
    BY <1>2, <1>3, UploadsAssumption DEF SlotInv
  <2> QED BY <1>2, <1>3, <2>1 DEF SlotInv, Tenants, Verdicts
<1>7. FilesInv' /\ VerdictInv'
  BY <1>2, <1>3 DEF FilesInv, VerdictInv
<1>8. CompleteInv'
  <2>1. k.op = "clean"
    BY <1>1, JobFields
  <2>2. \A i \in Abandoned : ~i.awaited
    BY <1>4 DEF Loose
  <2> QED BY <1>2, <2>1, <2>2 DEF CompleteInv
<1> QED BY <1>5, <1>6, <1>7, <1>8

LEMMA CopyInv ==
  ASSUME IInv, NEW j \in jobs, CopyEnds(j) \/ CopyFails(j) PROVE IInv'
<1>1. faults \in 0 .. MaxFaults
  BY DEF IInv, SlotInv
<1>2. CASE CopyEnds(j)
  <2>1. PICK v \in {"ok", "worker"} : Adopted(j, v) /\ j.op = "adopt" /\ j.awaited /\ j.todo = {}
                                      /\ UNCHANGED <<cut, faults>>
    BY <1>2 DEF CopyEnds
  <2> QED BY <1>1, <2>1, AdoptedInv
<1>3. CASE CopyFails(j)
  <2>1. Adopted(j, "worker") /\ j.op = "adopt" /\ j.awaited /\ UNCHANGED cut
        /\ faults' \in 0 .. MaxFaults
    BY <1>1, <1>3, UploadsAssumption DEF CopyFails, Fault
  <2> QED BY <2>1, AdoptedInv
<1> QED BY <1>2, <1>3
-----------------------------------------------------------------------------
(* The removal of the staged files                                         *)

LEMMA RemoveFileInv ==
  ASSUME IInv, NEW j \in jobs, NEW p \in DOMAIN staging, RemoveFile(j, p) PROVE IInv'
<1> USE DEF IInv
<1>1. /\ j.op = "clean" /\ staging' = Drop(staging, p)
      /\ UNCHANGED <<tenant, spec, phase, verdict, dir, jobs, cut, overrun, faults>>
  BY DEF RemoveFile
<1>2. /\ DOMAIN staging' = DOMAIN staging \ {p}
      /\ \A q \in DOMAIN staging' : staging'[q] = staging[q]
  <2> HIDE DEF IInv
  <2> QED BY <1>1 DEF Drop
<1>3. JobsInv' /\ SlotInv' /\ FilesInv' /\ VerdictInv'
  BY <1>1, <1>2 DEF JobsInv, SlotInv, FilesInv, VerdictInv, Mine, Loose
<1>4. Undisturbed => phase = "clean" /\ \A i \in jobs : i.awaited => i.op = "clean"
  BY <1>1 DEF Undisturbed, JobsInv, Mine, Loose
<1>5. CompleteInv'
  BY <1>1, <1>2, <1>4 DEF CompleteInv, Undisturbed
<1> QED BY <1>3, <1>5

LEMMA RemovedInv == ASSUME IInv, NEW j \in jobs, RemoveEnds(j) \/ RemoveFails(j) PROVE IInv'
<1> USE DEF IInv
<1>1. /\ j.op = "clean" /\ jobs' = jobs \ {j}
      /\ phase' = IF ~j.awaited THEN phase ELSE IF verdict = "ok" THEN "backend" ELSE "failed"
      /\ UNCHANGED <<tenant, spec, verdict, staging, dir, overrun>>
      /\ faults' \in 0 .. MaxFaults
      /\ \/ staging = << >> /\ cut' = cut
         \/ cut' = cut \cup {j.tenant}
  BY UploadsAssumption DEF RemoveEnds, RemoveFails, Removed, Fault, SlotInv
<1>2. CASE ~j.awaited
  <2> HIDE DEF IInv
  <2> QED BY <1>1, <1>2, VanishInv
<1>3. CASE j.awaited
  <2>1. /\ phase = "clean" /\ j.tenant = tenant
        /\ \A i \in jobs \ {j} : Static(i) /\ Loose(i)
    BY <1>1, <1>3 DEF JobsInv, Mine, Loose
  <2>2. \A i \in jobs' : Static(i) /\ Loose(i)' /\ ~i.awaited
    BY <1>1, <2>1 DEF Loose
  <2>3. JobsInv'
    BY <1>1, <1>3, <2>2, NoJob
  <2>4. SlotInv'
    <3>1. phase' \in {"backend", "failed"} /\ phase # "free" /\ phase \in Spawning
      BY <1>1, <1>3, <2>1
    <3>2. tenant \in Tenants /\ (cut' = cut \/ cut' = cut \cup {tenant})
      BY <1>1, <2>1, <3>1 DEF SlotInv
    <3>3. tenant \in 1 .. tenant
      BY <3>2, UploadsAssumption DEF Tenants
    <3>4. overrun \subseteq cut /\ cut \subseteq 1 .. tenant
      BY DEF SlotInv
    <3>5. overrun' \subseteq cut' /\ cut' \subseteq 1 .. tenant
      BY <1>1, <3>2, <3>3, <3>4
    <3> QED BY <1>1, <3>1, <3>5 DEF SlotInv
  <2>5. FilesInv'
    BY <1>1, <1>3, <2>1 DEF FilesInv
  <2>6. VerdictInv'
    BY <1>1, <1>3, <2>1 DEF VerdictInv
  <2>7. CompleteInv'
    <3>1. phase' \in {"backend", "failed"} /\ (phase' = "backend" => verdict = "ok")
      BY <1>1, <1>3
    <3> QED BY <1>1, <2>1, <2>2, <3>1 DEF CompleteInv, Undisturbed
  <2> QED BY <2>3, <2>4, <2>5, <2>6, <2>7
<1> QED BY <1>2, <1>3
-----------------------------------------------------------------------------
(* Teardown                                                                *)

LEMMA WipeFileInv == ASSUME IInv, NEW j \in jobs, NEW p \in DOMAIN dir, WipeFile(j, p) PROVE IInv'
<1> USE DEF IInv
<1>1. /\ j.op = "wipe" /\ dir' = Drop(dir, p)
      /\ UNCHANGED <<tenant, spec, phase, verdict, staging, jobs, cut, overrun, faults>>
  BY DEF WipeFile
<1>2. /\ DOMAIN dir' = DOMAIN dir \ {p}
      /\ \A q \in DOMAIN dir' : dir'[q] = dir[q]
  <2> HIDE DEF IInv
  <2> QED BY <1>1 DEF Drop
<1>3. JobsInv' /\ SlotInv' /\ FilesInv' /\ VerdictInv'
  BY <1>1, <1>2 DEF JobsInv, SlotInv, FilesInv, VerdictInv, Mine, Loose
<1>4. ~Undisturbed
  BY <1>1 DEF Undisturbed, JobsInv, Mine, Loose
<1>5. CompleteInv'
  BY <1>1, <1>4 DEF CompleteInv, Undisturbed
<1> QED BY <1>3, <1>5

LEMMA WipedInv ==
  ASSUME IInv, NEW j \in jobs, WipeEnds(j) \/ WipeFails(j) \/ WipeTimesOut(j)
  PROVE  IInv'
<1> USE DEF IInv
<1>1. /\ j.op = "wipe" /\ j.awaited /\ phase' = "free"
      /\ UNCHANGED <<tenant, spec, verdict, staging, dir>>
      /\ faults' \in 0 .. MaxFaults
      /\ \/ dir = << >> /\ cut' = cut /\ overrun' = overrun /\ jobs' = jobs \ {j}
         \/ cut' = cut \cup {tenant} /\ overrun' = overrun /\ jobs' = jobs \ {j}
         \/ cut' = cut \cup {tenant} /\ overrun' = overrun \cup {tenant} /\ jobs' = Abandoned
  BY UploadsAssumption DEF WipeEnds, WipeFails, WipeTimesOut, Wiped, Fault, SlotInv
<1>2. phase = "wipe" /\ j.tenant = tenant /\ \A i \in jobs \ {j} : Static(i) /\ Loose(i)
  BY <1>1 DEF JobsInv, Mine, Loose
<1>3. \A i \in jobs' : Static(i) /\ Loose(i)'
  <2>1. CASE jobs' = jobs \ {j}
    BY <1>1, <1>2, <2>1 DEF Loose
  <2>2. CASE jobs' = Abandoned /\ tenant \in cut' /\ tenant \in overrun'
    <3>1. cut \subseteq cut' /\ overrun \subseteq overrun'
      BY <1>1
    <3> SUFFICES ASSUME NEW i \in Abandoned PROVE Static(i) /\ Loose(i)'
      BY <2>2
    <3> QED BY <2>2, <3>1, AbandonedLoose
  <2> QED BY <1>1, <2>1, <2>2
<1>4. JobsInv'
  BY <1>1, <1>3, NoJob
<1>5. SlotInv'
  <2>1. tenant \in Tenants
    BY <1>2 DEF SlotInv
  <2>2. overrun' \subseteq cut' /\ cut' \subseteq 1 .. tenant
    <3>1. tenant \in 1 .. tenant
      BY <2>1, UploadsAssumption DEF Tenants
    <3>2. overrun \subseteq cut /\ cut \subseteq 1 .. tenant
      BY DEF SlotInv
    <3> HIDE DEF IInv
    <3> QED BY <1>1, <3>1, <3>2
  <2> QED BY <1>1, <2>2 DEF SlotInv
<1>6. FilesInv' /\ VerdictInv'
  BY <1>1, <1>2 DEF FilesInv, VerdictInv
<1>7. CompleteInv'
  BY <1>1 DEF CompleteInv, Undisturbed
<1> QED BY <1>4, <1>5, <1>6, <1>7
-----------------------------------------------------------------------------
(* Cut short                                                               *)

LEMMA CutInv == ASSUME IInv, Cancel \/ Crash PROVE IInv'
<1> USE DEF IInv
<1>1. /\ phase \in Spawning \cup {"teardown", "wipe"} /\ phase' = "teardown"
      /\ jobs' \subseteq Abandoned
      /\ UNCHANGED <<tenant, spec, verdict, staging, dir>>
      /\ faults' \in 0 .. MaxFaults
      /\ cut' = cut \/ cut' = cut \cup {tenant}
      /\ overrun' = overrun \/ (overrun' = overrun \cup {tenant} /\ cut' = cut \cup {tenant})
      /\ phase \in Ops => cut' = cut \cup {tenant}
  BY UploadsAssumption DEF Cancel, Crash, Fault, SlotInv
<1>2. \A i \in jobs' : Static(i) /\ Loose(i)'
  <2> SUFFICES ASSUME NEW i \in jobs' PROVE Static(i) /\ Loose(i)'
    OBVIOUS
  <2>1. i.op = phase /\ phase \in {"clean", "wipe"} => tenant \in overrun'
    <3>1. CASE Cancel
      BY <3>1 DEF Cancel
    <3>2. CASE Crash
      <4>1. i.op \in Commands
        BY <3>2 DEF Crash
      <4> QED BY <3>2, <4>1 DEF Crash
    <3> QED BY <3>1, <3>2
  <2>2. i \in Abandoned /\ cut \subseteq cut' /\ overrun \subseteq overrun'
        /\ (phase \in Ops => tenant \in cut')
    BY <1>1
  <2> QED BY <2>1, <2>2, AbandonedLoose
<1>3. JobsInv'
  BY <1>1, <1>2, NoJob
<1>4. SlotInv'
  <2>1. tenant \in Tenants /\ spec \in Parsed
    BY <1>1 DEF SlotInv
  <2>2. overrun' \subseteq cut' /\ cut' \subseteq 1 .. tenant
    <3>1. tenant \in 1 .. tenant
      BY <2>1, UploadsAssumption DEF Tenants
    <3>2. overrun \subseteq cut /\ cut \subseteq 1 .. tenant
      BY DEF SlotInv
    <3> HIDE DEF IInv
    <3> QED BY <1>1, <3>1, <3>2
  <2> QED BY <1>1, <2>1, <2>2 DEF SlotInv
<1>5. FilesInv'
  BY <1>1 DEF FilesInv
<1>6. VerdictInv' /\ CompleteInv'
  BY <1>1 DEF VerdictInv, CompleteInv, Undisturbed
<1> QED BY <1>3, <1>4, <1>5, <1>6

LEMMA NextInv == IInv /\ [Next]_vars => IInv'
<1> SUFFICES ASSUME IInv, [Next]_vars PROVE IInv'
  OBVIOUS
<1>1. CASE UNCHANGED vars
  BY <1>1 DEF vars, IInv, JobsInv, SlotInv, FilesInv, VerdictInv, CompleteInv, Undisturbed, Mine,
              Loose
<1>2. ASSUME NEW j \in jobs, JobStep(j) PROVE IInv'
  BY <1>2, ExtractEntryInv, ExtractEndsInv, CopyStepInv, CopyInv, RemoveFileInv, RemovedInv,
     WipeFileInv, WipedInv DEF JobStep
<1>3. ASSUME NEW j \in jobs, JobFault(j) PROVE IInv'
  BY <1>3, ExtractEndsInv, CopyInv, CopyTimesOutInv, RemovedInv, WipedInv DEF JobFault
<1>4. ASSUME NEW j \in jobs, Vanish(j) PROVE IInv'
  <2>1. faults' \in 0 .. MaxFaults
    BY <1>4 DEF IInv, SlotInv, Vanish
  <2> QED BY <1>4, <2>1, VanishInv DEF Vanish
<1> QED
  BY <1>1, <1>2, <1>3, <1>4, CreateInv, PlainInv, WaitInv, BackendInv, CutInv
     DEF Next, TaskStep
-----------------------------------------------------------------------------
(* Every variable has its type, an extraction's total never passes         *)
(* max_tar_bytes, and a task waits for exactly the one job its phase       *)
(* names.                                                                  *)
THEOREM UploadsTypes == Spec => []TypeOK
<1>1. IInv => TypeOK
  <2> SUFFICES ASSUME IInv PROVE TypeOK
    OBVIOUS
  <2>1. jobs \subseteq JobType
    BY DEF IInv, JobsInv, Static
  <2>2. {j.op : j \in {k \in jobs : k.awaited}} = {phase} \cap Ops
    <3>1. \A j \in jobs : j.awaited => j.op = phase /\ j.op \in Ops
      BY <2>1 DEF IInv, JobsInv, Mine, Loose, JobType
    <3>2. phase \in Ops => \E j \in jobs : j.awaited
      BY DEF IInv, JobsInv
    <3> QED BY <3>1, <3>2
  <2>3. cut \subseteq Tenants /\ overrun \subseteq cut
    BY UploadsAssumption DEF IInv, SlotInv, Tenants
  <2>4. \A f \in {staging, dir} : DOMAIN f \subseteq Path /\ Owners(f) \subseteq Tenants
    BY <2>3 DEF IInv, FilesInv, SlotInv, Owners
  <2> QED BY <2>1, <2>2, <2>3, <2>4 DEF IInv, SlotInv, TypeOK
<1> QED BY <1>1, InitInv, NextInv, PTL DEF Spec

(* However many clusters hold the slot one after another: a file in it is  *)
(* its holder's or of a cluster whose spawn or teardown was cut short      *)
(* (spawn_task.rs:97-100, :162-164; teardown_task.rs:39-53).               *)
THEOREM OnlyTheCutLeave == Spec => []LeftoversAreOfTheCut
<1>1. IInv => LeftoversAreOfTheCut
  BY DEF IInv, FilesInv, LeftoversAreOfTheCut, Owners, Holder
<1> QED BY <1>1, InitInv, NextInv, PTL DEF Spec

(* A Ready cluster has its database and every file of its archive, for     *)
(* every archive, unless an earlier cluster of the slot left a removal     *)
(* running (spawn_task.rs:140-166).                                        *)
THEOREM ReadyHasItsFiles == Spec => []ReadyIsComplete
<1>1. IInv => ReadyIsComplete
  <2> SUFFICES ASSUME IInv, phase = "ready", overrun \subseteq {tenant},
                      NEW p \in {Data} \cup Files(spec.tar)
               PROVE  p \in DOMAIN dir /\ dir[p] \in cut \cup {tenant}
    BY DEF ReadyIsComplete
  <2>1. Undisturbed
    BY DEF IInv, SlotInv, Undisturbed
  <2>2. p \in DOMAIN dir
    BY <2>1 DEF IInv, CompleteInv
  <2> QED BY <2>2 DEF IInv, FilesInv
<1> QED BY <1>1, InitInv, NextInv, PTL DEF Spec

(* For archives of any length: what is served passed as a whole, and what  *)
(* an extraction has put on the disk is within the limits at every moment, *)
(* the saturating sum included (tar_validation.rs:72-79).                  *)
THEOREM OnlyTheAcceptableIsServed == Spec => []OnlyAcceptedIsServed
<1>1. IInv => OnlyAcceptedIsServed
  <2> SUFFICES ASSUME IInv PROVE OnlyAcceptedIsServed
    OBVIOUS
  <2>1. ASSUME NEW j \in jobs, j.op = "extract" PROVE Acceptable(SubSeq(j.tar, 1, j.next - 1))
    <3>1. Static(j)
      BY DEF IInv, JobsInv
    <3>2. PICK n : n = j.next - 1
      OBVIOUS
    <3>3. /\ n \in 0 .. Len(j.tar) /\ j.total \in 0 .. MaxTotalBytes
          /\ j.total = TotalBytes(Prefix(j.tar, n)) /\ \A i \in 1 .. n : EntryOK(j.tar[i])
      BY <2>1, <3>1, <3>2 DEF Static, Read, JobType, Tar
    <3>4. DOMAIN Prefix(j.tar, n) = 1 .. n /\ \A i \in 1 .. n : Prefix(j.tar, n)[i] = j.tar[i]
      BY <3>1, <3>3 DEF Static, Tar, Prefixed
    <3>5. TotalBytes(Prefix(j.tar, n)) <= MaxTotalBytes
      BY <3>3, TarAssumption
    <3> QED BY <3>2, <3>3, <3>4, <3>5 DEF Acceptable, EntryOK, Prefix
  <2> QED BY <2>1 DEF IInv, VerdictInv, OnlyAcceptedIsServed
<1> QED BY <1>1, InitInv, NextInv, PTL DEF Spec
=============================================================================
