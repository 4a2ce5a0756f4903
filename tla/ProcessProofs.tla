--------------------------- MODULE ProcessProofs ---------------------------
(***************************************************************************)
(* What one process after another keeps, for every configuration and every *)
(* file of accounts.  Why no line of the log is lost: a file is compressed *)
(* only a day after its last line, so it is never the file of the day, and *)
(* nothing is written to it any more; from then on its archive, once       *)
(* complete, says what the file says; and a complete archive is at least   *)
(* CompressAfter younger than each of its lines, so that it outlives them  *)
(* by Retention.  Why a token runs clusters under its own account: what a  *)
(* process knows follows from the stage it is at and its configuration,    *)
(* and both maps take the same entry of two that have one name.            *)
(***************************************************************************)
EXTENDS Process, WellFoundedInduction, TLAPS

USE DEF NoDay

LEMMA DropIs ==
  ASSUME NEW f, NEW d
  PROVE  /\ DOMAIN Drop(f, d) = DOMAIN f \ {d}
         /\ \A e \in DOMAIN f \ {d} : Drop(f, d)[e] = f[e]
BY DEF Drop

(* The type invariant, file by file.                                       *)
Typed ==
  /\ now \in Nat /\ today \in Day /\ midnight \in Nat /\ appender \in Nat
  /\ written \subseteq Nat /\ failures \in 0 .. MaxFailures
  /\ sweep \in Sweep
  /\ DOMAIN logs \subseteq Day /\ \A d \in DOMAIN logs : logs[d] \in LogFile
  /\ DOMAIN archives \subseteq Day /\ \A d \in DOMAIN archives : archives[d] \in Archive
  /\ logs = [d \in DOMAIN logs |-> logs[d]]
  /\ archives = [d \in DOMAIN archives |-> archives[d]]

LEMMA TypedIsTypeOK == Typed <=> RotationTypeOK
BY DEF Typed, RotationTypeOK

ClockInv == midnight <= now /\ now < midnight + DayLength

LogsInv ==
  \A d \in DOMAIN logs :
    /\ d <= today /\ logs[d].mtime <= now
    /\ d = today => midnight <= logs[d].mtime
    /\ \A t \in logs[d].lines : t <= logs[d].mtime

ArchivesInv ==
  \A d \in DOMAIN archives :
    /\ d < today
    /\ archives[d].whole =>
         /\ \A t \in archives[d].lines : t + CompressAfter <= archives[d].mtime
         /\ d \in DOMAIN logs => archives[d].lines \subseteq logs[d].lines

SweepInv ==
  /\ sweep.start <= now
  /\ sweep.day # NoDay =>
       /\ sweep.day < today
       /\ sweep.day \in DOMAIN logs
       /\ logs[sweep.day].mtime + CompressAfter <= now
       /\ sweep.step # "create" => sweep.day \in DOMAIN archives
       /\ sweep.step = "remove" => /\ archives[sweep.day].whole
                                   /\ logs[sweep.day].lines \subseteq archives[sweep.day].lines

IInv == Typed /\ ClockInv /\ LogsInv /\ ArchivesInv /\ SweepInv
        /\ appender <= today /\ OpenFileStays /\ NoLineLost

USE RotationAssumption

LEMMA InitInv == RotationInit => IInv
BY DEF RotationInit, IInv, Typed, ClockInv, LogsInv, ArchivesInv, SweepInv, OpenFileStays,
       NoLineLost, NoSweep, Sweep, Day, Steps, Entry

(* The steps of the sweep that touch no file.                              *)
LEMMA SweepOnly ==
  ASSUME IInv, sweep' \in Sweep, failures' \in 0 .. MaxFailures,
         appender' = appender \/ appender' = NoDay,
         UNCHANGED <<clock, logs, archives, written>>, SweepInv'
  PROVE  IInv'
BY DEF IInv, Typed, ClockInv, LogsInv, ArchivesInv, OpenFileStays, NoLineLost, InLog, InArchive,
       clock, Day

LEMMA TickInv == IInv /\ Tick => IInv'
<1> SUFFICES ASSUME IInv, Tick PROVE IInv'
  OBVIOUS
<1>1. UNCHANGED <<logs, archives, appender, written, sweep, failures>> /\ now' = now + 1
  BY DEF Tick
<1>2. /\ today' \in Day /\ midnight' \in Nat /\ today <= today' /\ ClockInv'
      /\ (today' = today /\ midnight' = midnight) \/ today' = today + 1
  BY DEF Tick, IInv, Typed, ClockInv, Day
<1>3. Typed' /\ appender' <= today'
  BY <1>1, <1>2 DEF Typed, IInv, Day
<1>4. LogsInv' /\ ArchivesInv' /\ SweepInv'
  BY <1>1, <1>2 DEF IInv, Typed, LogsInv, ArchivesInv, SweepInv, Day, Sweep, LogFile, Archive
<1>5. OpenFileStays' /\ NoLineLost'
  BY <1>1, <1>2 DEF IInv, Typed, OpenFileStays, NoLineLost, InLog, InArchive, Day
<1> QED BY <1>2, <1>3, <1>4, <1>5 DEF IInv

LEMMA OpenLogInv == IInv /\ OpenLog => IInv'
<1> SUFFICES ASSUME IInv, OpenLog PROVE IInv'
  OBVIOUS
<1>1. /\ appender' = today /\ logs' = Put(logs, today, FileOf(today))
      /\ UNCHANGED <<clock, archives, written, sweep, failures>>
  BY DEF OpenLog
<1>2. /\ DOMAIN logs' = DOMAIN logs \cup {today}
      /\ \A d \in DOMAIN logs : logs'[d] = logs[d]
      /\ logs'[today] = FileOf(today)
  <2>1. /\ DOMAIN logs' = DOMAIN logs \cup {today}
        /\ \A d \in DOMAIN logs : d # today => logs'[d] = logs[d]
        /\ logs'[today] = FileOf(today)
    BY <1>1 DEF Put
  <2> QED BY <2>1 DEF FileOf
<1>3. today \notin DOMAIN logs => logs'[today] = [lines |-> {}, mtime |-> now]
  BY <1>2 DEF FileOf
<1>4. Typed' /\ ClockInv' /\ appender' <= today'
  BY <1>1, <1>2, <1>3 DEF IInv, Typed, ClockInv, clock, LogFile, Day, Put
<1>5. LogsInv' /\ ArchivesInv' /\ SweepInv' /\ OpenFileStays'
  BY <1>1, <1>2, <1>3 DEF IInv, Typed, ClockInv, LogsInv, ArchivesInv, SweepInv, OpenFileStays,
                          clock, Day, LogFile
<1>6. NoLineLost'
  BY <1>1, <1>2 DEF IInv, NoLineLost, InLog, InArchive, clock
<1> QED BY <1>4, <1>5, <1>6 DEF IInv

LEMMA WriteInv == IInv /\ Write => IInv'
<1> SUFFICES ASSUME IInv, Write PROVE IInv'
  OBVIOUS
<1> DEFINE file == [lines |-> FileOf(today).lines \cup {now}, mtime |-> now]
<1>1. /\ appender' = today /\ written' = written \cup {now}
      /\ logs' = Put(logs, today, file)
      /\ UNCHANGED <<clock, archives, sweep, failures>>
  BY DEF Write, IInv, OpenFileStays
<1>2. file \in LogFile /\ file.mtime = now /\ now \in file.lines
  BY DEF IInv, Typed, LogFile, FileOf
<1>3. /\ \A t \in file.lines : t <= now
      /\ today \in DOMAIN logs => logs[today].lines \subseteq file.lines
  <2>1. \A t \in FileOf(today).lines : t <= now
    BY DEF IInv, Typed, LogsInv, LogFile, FileOf, Day
  <2> QED BY <2>1 DEF FileOf, IInv, Typed
<1> HIDE DEF file
<1>a. /\ DOMAIN logs' = DOMAIN logs \cup {today}
      /\ \A d \in DOMAIN logs : d # today => logs'[d] = logs[d]
      /\ logs'[today] = file
  BY <1>1 DEF Put
<1>4. Typed' /\ ClockInv' /\ appender' <= today'
  BY <1>1, <1>2, <1>3, <1>a DEF IInv, Typed, ClockInv, clock, Day, Put
<1>5. LogsInv' /\ ArchivesInv' /\ SweepInv' /\ OpenFileStays'
  BY <1>1, <1>2, <1>3, <1>a DEF IInv, Typed, ClockInv, LogsInv, ArchivesInv, SweepInv, OpenFileStays,
                          clock, Day, LogFile
<1>6. \A t \in written : InLog(t) => InLog(t)'
  BY <1>1, <1>2, <1>3, <1>a DEF InLog
<1>7. InLog(now)'
  BY <1>2, <1>3, <1>1, <1>a DEF InLog, clock
<1>8. NoLineLost'
  BY <1>1, <1>6, <1>7 DEF IInv, NoLineLost, InArchive, clock
<1> QED BY <1>4, <1>5, <1>8 DEF IInv

LEMMA ExpireInv == ASSUME NEW d, IInv, Expire(d) PROVE IInv'
<1>1. /\ sweep.day = NoDay /\ sweep.state = "running" /\ d \in DOMAIN archives
      /\ archives[d].mtime + Retention <= sweep.start
      /\ archives' = Drop(archives, d)
      /\ sweep' = [sweep EXCEPT !.todo = @ \ {<<"gz", d>>}]
      /\ UNCHANGED <<clock, logs, appender, written, failures>>
  BY DEF Expire, Between, Running, OlderThan, Finish, IInv, Typed
<1>2. /\ DOMAIN archives' = DOMAIN archives \ {d}
      /\ \A e \in DOMAIN archives : e # d => archives'[e] = archives[e]
  BY <1>1, DropIs
<1>3. sweep' \in Sweep /\ sweep'.day = NoDay /\ sweep'.start = sweep.start
  BY <1>1 DEF IInv, Typed, Sweep
<1>4. Typed' /\ ClockInv' /\ appender' <= today'
  BY <1>1, <1>2, <1>3 DEF IInv, Typed, ClockInv, clock, Drop
<1>5. LogsInv' /\ ArchivesInv' /\ SweepInv' /\ OpenFileStays'
  BY <1>1, <1>2, <1>3 DEF IInv, LogsInv, ArchivesInv, SweepInv, OpenFileStays, clock
<1>6. NoLineLost'
  <2> SUFFICES ASSUME NEW t \in written
               PROVE  InLog(t) \/ InArchive(t)' \/ now >= t + CompressAfter + Retention
    BY <1>1 DEF NoLineLost, InLog, clock
  <2>1. CASE InArchive(t)
    <3>1. PICK e \in DOMAIN archives : archives[e].whole /\ t \in archives[e].lines
      BY <2>1 DEF InArchive
    <3>2. CASE e # d
      BY <3>1, <3>2, <1>2 DEF InArchive
    <3>3. CASE e = d
      <4>1. t + CompressAfter <= archives[d].mtime
        BY <3>1, <3>3 DEF IInv, ArchivesInv
      <4>2. archives[d].mtime \in Nat /\ t \in Nat /\ now \in Nat /\ sweep.start \in Nat
        BY <1>1 DEF IInv, Typed, Archive, Sweep
      <4>3. sweep.start <= now
        BY DEF IInv, SweepInv
      <4> QED BY <4>1, <4>2, <4>3, <1>1
    <3> QED BY <3>2, <3>3
  <2> QED BY <2>1 DEF IInv, NoLineLost
<1> QED BY <1>4, <1>5, <1>6 DEF IInv

LEMMA CreateArchiveInv == IInv /\ CreateArchive => IInv'
<1> SUFFICES ASSUME IInv, CreateArchive PROVE IInv'
  OBVIOUS
<1> DEFINE d == sweep.day
           empty == [lines |-> {}, mtime |-> now, whole |-> FALSE]
<1>1. /\ sweep.state = "running" /\ d # NoDay /\ sweep.step = "create"
      /\ archives' = Put(archives, d, empty)
      /\ UNCHANGED <<clock, logs, appender, written, failures>>
  BY DEF CreateArchive, Step, Running
<1>2. PICK seen \in SUBSET {<<"gz", d>>} :
        sweep' = [sweep EXCEPT !.step = "copy", !.todo = @ \cup seen]
  BY DEF CreateArchive
<1>3. d \in Day /\ d < today /\ d \in DOMAIN logs /\ logs[d].mtime + CompressAfter <= now
  BY <1>1 DEF IInv, SweepInv, Typed, Sweep, Day
<1>4. /\ DOMAIN archives' = DOMAIN archives \cup {d}
      /\ \A e \in DOMAIN archives : e # d => archives'[e] = archives[e]
      /\ archives'[d] = empty
  <2> HIDE DEF empty
  <2> QED BY <1>1 DEF Put
<1>a. empty \in Archive /\ ~empty.whole
  BY DEF Archive, IInv, Typed
<1>5. <<"gz", d>> \in Entry
  BY <1>3 DEF Entry
<1>6. /\ sweep' \in Sweep /\ sweep'.day = d /\ sweep'.start = sweep.start /\ sweep'.step = "copy"
  BY <1>2, <1>5 DEF IInv, Typed, Sweep, Steps
<1> HIDE DEF empty
<1>7. Typed' /\ ClockInv' /\ appender' <= today'
  BY <1>1, <1>3, <1>4, <1>6, <1>a DEF IInv, Typed, ClockInv, clock, Put
<1>8. LogsInv' /\ ArchivesInv' /\ OpenFileStays'
  BY <1>1, <1>3, <1>4, <1>a DEF IInv, LogsInv, ArchivesInv, OpenFileStays, clock
<1>9. SweepInv'
  BY <1>1, <1>3, <1>4, <1>6, <1>a DEF IInv, SweepInv, clock
<1>10. NoLineLost'
  <2> SUFFICES ASSUME NEW t \in written, InArchive(t), ~InLog(t) PROVE InArchive(t)'
    BY <1>1 DEF NoLineLost, InLog, clock, IInv
  <2>1. PICK e \in DOMAIN archives : archives[e].whole /\ t \in archives[e].lines
    BY DEF InArchive
  <2>2. e # d
    BY <2>1, <1>3 DEF IInv, ArchivesInv, InLog
  <2> QED BY <2>1, <2>2, <1>4 DEF InArchive
<1> QED BY <1>7, <1>8, <1>9, <1>10 DEF IInv

LEMMA CopyInv == IInv /\ Copy => IInv'
<1> SUFFICES ASSUME IInv, Copy PROVE IInv'
  OBVIOUS
<1> DEFINE d == sweep.day
           full == [lines |-> logs[d].lines, mtime |-> now, whole |-> TRUE]
<1>1. /\ sweep.state = "running" /\ d # NoDay /\ sweep.step = "copy"
      /\ archives' = [archives EXCEPT ![d] = full]
      /\ sweep' = [sweep EXCEPT !.step = "remove"]
      /\ UNCHANGED <<clock, logs, appender, written, failures>>
  BY DEF Copy, Step, Running
<1>2. /\ d \in Day /\ d < today /\ d \in DOMAIN logs /\ logs[d].mtime + CompressAfter <= now
      /\ d \in DOMAIN archives
  BY <1>1 DEF IInv, SweepInv, Typed, Sweep, Day
<1>3. full \in Archive /\ full.whole /\ full.lines = logs[d].lines /\ full.mtime = now
  BY <1>2 DEF IInv, Typed, Archive, LogFile
<1> HIDE DEF full
<1>4. /\ DOMAIN archives' = DOMAIN archives
      /\ \A e \in DOMAIN archives : e # d => archives'[e] = archives[e]
      /\ archives'[d] = full
  BY <1>1, <1>2
<1>5. /\ sweep' \in Sweep /\ sweep'.day = d /\ sweep'.start = sweep.start
      /\ sweep'.step = "remove"
  BY <1>1 DEF IInv, Typed, Sweep, Steps
<1>6. \A t \in full.lines : t + CompressAfter <= full.mtime
  <2> SUFFICES ASSUME NEW t \in logs[d].lines PROVE t + CompressAfter <= now
    BY <1>3
  <2>1. t \in Nat /\ logs[d].mtime \in Nat /\ now \in Nat
    BY <1>2 DEF IInv, Typed, LogFile
  <2>2. t <= logs[d].mtime
    BY <1>2 DEF IInv, LogsInv
  <2> QED BY <2>1, <2>2, <1>2
<1>7. Typed' /\ ClockInv' /\ appender' <= today'
  BY <1>1, <1>2, <1>3, <1>4, <1>5 DEF IInv, Typed, ClockInv, clock
<1>8. LogsInv' /\ ArchivesInv' /\ OpenFileStays'
  BY <1>1, <1>2, <1>3, <1>4, <1>6 DEF IInv, LogsInv, ArchivesInv, OpenFileStays, clock
<1>9. SweepInv'
  BY <1>1, <1>2, <1>3, <1>4, <1>5 DEF IInv, SweepInv, clock
<1>10. NoLineLost'
  <2> SUFFICES ASSUME NEW t \in written, InArchive(t), ~InLog(t) PROVE InArchive(t)'
    BY <1>1 DEF NoLineLost, InLog, clock, IInv
  <2>1. PICK e \in DOMAIN archives : archives[e].whole /\ t \in archives[e].lines
    BY DEF InArchive
  <2>2. e # d
    BY <2>1, <1>2 DEF IInv, ArchivesInv, InLog
  <2> QED BY <2>1, <2>2, <1>4 DEF InArchive
<1> QED BY <1>7, <1>8, <1>9, <1>10 DEF IInv

LEMMA RemoveLogInv == IInv /\ RemoveLog => IInv'
<1> SUFFICES ASSUME IInv, RemoveLog PROVE IInv'
  OBVIOUS
<1> DEFINE d == sweep.day
<1>1. /\ sweep.state = "running" /\ d # NoDay /\ sweep.step = "remove"
      /\ logs' = Drop(logs, d)
      /\ sweep' = [sweep EXCEPT !.day = NoDay, !.step = "create"]
      /\ UNCHANGED <<clock, archives, appender, written, failures>>
  BY DEF RemoveLog, Step, Running
<1>2. /\ d \in Day /\ d < today /\ d \in DOMAIN logs /\ d \in DOMAIN archives
      /\ archives[d].whole /\ logs[d].lines \subseteq archives[d].lines
  BY <1>1 DEF IInv, SweepInv, Typed, Sweep, Day
<1>3. /\ DOMAIN logs' = DOMAIN logs \ {d}
      /\ \A e \in DOMAIN logs : e # d => logs'[e] = logs[e]
  BY <1>1, DropIs
<1>4. sweep' \in Sweep /\ sweep'.day = NoDay /\ sweep'.start = sweep.start
  BY <1>1 DEF IInv, Typed, Sweep, Steps
<1>5. Typed' /\ ClockInv' /\ appender' <= today'
  BY <1>1, <1>3, <1>4 DEF IInv, Typed, ClockInv, clock, Drop
<1>6. LogsInv' /\ ArchivesInv' /\ SweepInv'
  BY <1>1, <1>3, <1>4 DEF IInv, LogsInv, ArchivesInv, SweepInv, clock
<1>7. OpenFileStays'
  BY <1>1, <1>2, <1>3 DEF IInv, Typed, OpenFileStays, clock, Day
<1>8. NoLineLost'
  <2> SUFFICES ASSUME NEW t \in written, InLog(t) PROVE InLog(t)' \/ InArchive(t)
    BY <1>1 DEF NoLineLost, InArchive, clock, IInv
  <2>1. PICK e \in DOMAIN logs : t \in logs[e].lines
    BY DEF InLog
  <2> QED BY <2>1, <1>2, <1>3 DEF InLog, InArchive
<1> QED BY <1>5, <1>6, <1>7, <1>8 DEF IInv
-----------------------------------------------------------------------------
(* The steps of the sweep that only move on in the directory.              *)
MovesOn ==
  \/ StartSweep \/ EndSweep \/ AbortSweep \/ CompressFails
  \/ \E e \in sweep.todo : Leave(e) \/ Skip(e)
  \/ \E d \in DOMAIN logs : Compress(d)

LEMMA EntriesTyped == IInv => Entries \subseteq Entry
BY DEF IInv, Typed, Entries, Entry

LEMMA CompressInv == ASSUME NEW d \in DOMAIN logs, IInv, Compress(d) PROVE IInv'
<1>1. /\ OlderThan(logs[d].mtime, sweep.start, CompressAfter)
      /\ sweep' = [sweep EXCEPT !.todo = @ \ {<<"log", d>>}, !.day = d, !.step = "create"]
      /\ UNCHANGED <<clock, logs, archives, appender, written, failures>>
  BY DEF Compress
<1>2. /\ sweep' \in Sweep /\ sweep'.day = d /\ sweep'.step = "create"
      /\ sweep'.start = sweep.start
  BY <1>1 DEF IInv, Typed, Sweep, Steps, Day
<1>3. sweep.start <= now /\ logs[d].mtime + CompressAfter <= sweep.start
  BY <1>1 DEF IInv, SweepInv, OlderThan
<1>4. /\ d \in Nat /\ logs[d].mtime \in Nat /\ now \in Nat /\ sweep.start \in Nat /\ today \in Nat
      /\ midnight \in Nat
  BY DEF IInv, Typed, LogFile, Sweep, Day
<1>5. d <= today /\ (d = today => midnight <= logs[d].mtime) /\ now < midnight + DayLength
  BY DEF IInv, LogsInv, ClockInv
<1>6. d < today /\ logs[d].mtime + CompressAfter <= now
  BY <1>3, <1>4, <1>5
<1>7. SweepInv'
  BY <1>1, <1>2, <1>3, <1>6 DEF SweepInv, clock
<1> QED BY <1>1, <1>2, <1>7, SweepOnly DEF IInv, Typed

LEMMA MovesOnInv == IInv /\ MovesOn => IInv'
<1> SUFFICES ASSUME IInv, MovesOn, ~(\E d \in DOMAIN logs : Compress(d)) PROVE IInv'
  BY CompressInv
<1>1. /\ sweep' \in Sweep /\ sweep'.start <= now
      /\ sweep'.day = NoDay
      /\ failures' \in 0 .. MaxFailures
      /\ UNCHANGED <<clock, logs, archives, appender, written>>
  <2>1. sweep \in Sweep /\ sweep.start <= now /\ now \in Nat /\ failures \in 0 .. MaxFailures
        /\ NoSweep \in Sweep /\ Entries \subseteq Entry /\ sweep.todo \subseteq Entry
    BY EntriesTyped DEF IInv, Typed, SweepInv, NoSweep, Sweep, Steps
  <2>2. CASE StartSweep
    <3>1. /\ sweep' = [NoSweep EXCEPT !.state = "running", !.start = now, !.todo = Entries]
          /\ UNCHANGED <<clock, logs, archives, appender, written, failures>>
      BY <2>2 DEF StartSweep
    <3>2. sweep'.start = now /\ sweep'.day = NoDay
      BY <3>1 DEF NoSweep
    <3>3. sweep' \in Sweep
      BY <2>1, <3>1 DEF Sweep
    <3> QED BY <2>1, <3>1, <3>2, <3>3
  <2>3. CASE EndSweep
    BY <2>1, <2>3 DEF EndSweep, Between, Sweep
  <2>4. CASE AbortSweep
    BY <2>1, <2>4 DEF AbortSweep, NoSweep, MayFail
  <2>5. CASE CompressFails
    <3>1. sweep.day \in Day
      BY <2>1, <2>5 DEF CompressFails, Sweep, Day
    <3>2. <<"log", sweep.day>> \in Entry
      BY <3>1 DEF Entry
    <3>3. /\ sweep' = [sweep EXCEPT !.day = NoDay, !.step = "create",
                                    !.failed = @ \cup {<<"log", sweep.day>>}]
          /\ UNCHANGED <<clock, logs, archives, appender, written>>
          /\ failures < MaxFailures /\ failures' = failures + 1
      BY <2>5 DEF CompressFails, MayFail
    <3>4. sweep'.start = sweep.start /\ sweep'.day = NoDay
      BY <2>1, <3>3 DEF Sweep
    <3>5. sweep' \in Sweep
      BY <2>1, <3>2, <3>3 DEF Sweep, Steps
    <3>6. failures' \in 0 .. MaxFailures
      BY <2>1, <3>3, RotationAssumption
    <3> QED BY <2>1, <3>3, <3>4, <3>5, <3>6
  <2>6. CASE \E e \in sweep.todo : Leave(e) \/ Skip(e)
    <3> PICK e \in sweep.todo : Leave(e) \/ Skip(e)
      BY <2>6
    <3>1. /\ \/ sweep' = [sweep EXCEPT !.todo = @ \ {e}]
             \/ sweep' = [sweep EXCEPT !.todo = @ \ {e}, !.failed = @ \cup {e}]
          /\ UNCHANGED <<clock, logs, archives, appender, written>>
          /\ failures' = failures \/ (failures < MaxFailures /\ failures' = failures + 1)
          /\ sweep.day = NoDay
      BY DEF Leave, Skip, Between, Finish, GiveUpOn, MayFail
    <3>2. sweep' \in Sweep /\ sweep'.start = sweep.start /\ sweep'.day = NoDay
      <4>1. e \in Entry
        BY <2>1
      <4>2. CASE sweep' = [sweep EXCEPT !.todo = @ \ {e}]
        BY <2>1, <3>1, <4>2 DEF Sweep
      <4>3. CASE sweep' = [sweep EXCEPT !.todo = @ \ {e}, !.failed = @ \cup {e}]
        BY <2>1, <3>1, <4>1, <4>3 DEF Sweep
      <4> QED BY <3>1, <4>2, <4>3
    <3>3. failures' \in 0 .. MaxFailures
      BY <2>1, <3>1, RotationAssumption
    <3> QED BY <2>1, <3>1, <3>2, <3>3
  <2> QED BY <2>2, <2>3, <2>4, <2>5, <2>6 DEF MovesOn
<1>2. SweepInv'
  BY <1>1 DEF SweepInv, clock
<1> QED BY <1>1, <1>2, SweepOnly

LEMMA StopInv == IInv /\ Stop => IInv'
<1> SUFFICES ASSUME IInv, Stop PROVE IInv'
  OBVIOUS
<1>1. sweep' = NoSweep /\ appender' = NoDay /\ UNCHANGED <<clock, logs, archives, written, failures>>
  BY DEF Stop
<1>2. sweep' \in Sweep /\ SweepInv'
  BY <1>1 DEF NoSweep, Sweep, Steps, SweepInv, IInv, Typed, clock
<1> QED BY <1>1, <1>2, SweepOnly DEF IInv, Typed

LEMMA NextInv == IInv /\ [RotationNext]_rotationVars => IInv'
<1>1. IInv /\ UNCHANGED rotationVars => IInv'
  BY DEF IInv, Typed, ClockInv, LogsInv, ArchivesInv, SweepInv, OpenFileStays, NoLineLost, InLog,
         InArchive, rotationVars, clock
<1>2. IInv /\ SweepStep => IInv'
  BY ExpireInv, CreateArchiveInv, CopyInv, RemoveLogInv, MovesOnInv DEF SweepStep, MovesOn
<1> QED BY <1>1, <1>2, TickInv, OpenLogInv, WriteInv, StopInv DEF RotationNext

(* For every length of the day and every retention: no line is lost before *)
(* its time, the file of the day is never removed, and every variable has  *)
(* its type, whatever fails and whenever the process stops                 *)
(* (log_rotation.rs, tokio_filesystem.rs:45-54).                           *)
THEOREM RotationLosesNothing ==
  RotationSpec => [](NoLineLost /\ OpenFileStays /\ RotationTypeOK)
<1>1. IInv => NoLineLost /\ OpenFileStays /\ RotationTypeOK
  BY TypedIsTypeOK DEF IInv
<1> QED BY <1>1, InitInv, NextInv, PTL DEF RotationSpec
-----------------------------------------------------------------------------
(* What was old when the sweep began is still to come, or is being         *)
(* compressed, or has failed.                                              *)
Remaining ==
  sweep.state # "idle" =>
    /\ \A d \in DOMAIN logs : logs[d].mtime + CompressAfter <= sweep.start =>
         <<"log", d>> \in sweep.todo \cup sweep.failed \/ d = sweep.day
    /\ \A d \in DOMAIN archives : archives[d].mtime + Retention <= sweep.start =>
         <<"gz", d>> \in sweep.todo \cup sweep.failed
    /\ sweep.state = "done" => sweep.todo = {} /\ sweep.day = NoDay

LEMMA RemainingNext ==
  ASSUME Retention > 0, IInv, Remaining, [RotationNext]_rotationVars
  PROVE  Remaining'
<1>1. /\ now \in Nat /\ sweep \in Sweep /\ sweep.start <= now
      /\ \A d \in DOMAIN logs : logs[d].mtime \in Nat /\ d \in Day
      /\ \A d \in DOMAIN archives : archives[d].mtime \in Nat /\ d \in Day
  BY DEF IInv, Typed, SweepInv, LogFile, Archive
<1>2. CASE UNCHANGED <<logs, archives, sweep>>
  BY <1>2 DEF Remaining
<1>3. CASE OpenLog
  <2>1. /\ UNCHANGED <<archives, sweep>>
        /\ \A d \in DOMAIN logs' : (d \in DOMAIN logs /\ logs'[d] = logs[d]) \/ logs'[d].mtime = now
    BY <1>3 DEF OpenLog, Put, FileOf
  <2> QED BY <1>1, <2>1 DEF Remaining, Sweep
<1>4. CASE Write
  <2>1. /\ UNCHANGED <<archives, sweep>>
        /\ \A d \in DOMAIN logs' : (d \in DOMAIN logs /\ logs'[d] = logs[d]) \/ logs'[d].mtime = now
    BY <1>4 DEF Write, Put
  <2> QED BY <1>1, <2>1 DEF Remaining, Sweep
<1>5. CASE StartSweep
  <2>1. /\ UNCHANGED <<logs, archives>>
        /\ sweep'.state = "running" /\ sweep'.todo = Entries
    BY <1>5 DEF StartSweep, NoSweep
  <2>2. /\ \A d \in DOMAIN logs : <<"log", d>> \in Entries
        /\ \A d \in DOMAIN archives : <<"gz", d>> \in Entries
    BY DEF Entries
  <2> QED BY <2>1, <2>2 DEF Remaining
<1>6. CASE AbortSweep \/ Stop
  BY <1>6 DEF AbortSweep, Stop, NoSweep, Remaining
<1>7. CASE EndSweep
  BY <1>1, <1>7 DEF EndSweep, Between, Running, Remaining, Sweep
<1>8. CASE CompressFails
  <2>1. /\ UNCHANGED <<logs, archives>>
        /\ sweep'.failed = sweep.failed \cup {<<"log", sweep.day>>} /\ sweep'.todo = sweep.todo
        /\ sweep'.state = "running" /\ sweep.state = "running" /\ sweep'.start = sweep.start
    BY <1>1, <1>8 DEF CompressFails, Running, Sweep
  <2> QED BY <2>1 DEF Remaining
<1>9. ASSUME NEW e \in sweep.todo, Leave(e) \/ Skip(e) PROVE Remaining'
  <2>1. /\ UNCHANGED <<logs, archives>>
        /\ sweep'.todo = sweep.todo \ {e} /\ sweep.failed \subseteq sweep'.failed
        /\ sweep'.state = "running" /\ sweep.state = "running" /\ sweep'.start = sweep.start
        /\ sweep'.day = sweep.day
    BY <1>1, <1>9 DEF Leave, Skip, Finish, GiveUpOn, Between, Running, Sweep
  <2>2. CASE Skip(e)
    <3>1. e \in sweep'.failed
      BY <1>1, <2>2 DEF Skip, GiveUpOn, Sweep
    <3> QED BY <2>1, <3>1 DEF Remaining
  <2>3. CASE Leave(e)
    <3>1. ASSUME NEW d \in DOMAIN logs, logs[d].mtime + CompressAfter <= sweep.start
          PROVE  e # <<"log", d>>
      <4>1. OlderThan(logs[d].mtime, sweep.start, CompressAfter)
        BY <1>1, <3>1 DEF OlderThan, Sweep
      <4>2. e = <<"log", d>> => e[1] = "log" /\ e[2] = d
        OBVIOUS
      <4> QED BY <4>1, <4>2, <2>3 DEF Leave
    <3>2. ASSUME NEW d \in DOMAIN archives, archives[d].mtime + Retention <= sweep.start
          PROVE  e # <<"gz", d>>
      <4>1. OlderThan(archives[d].mtime, sweep.start, Retention)
        BY <1>1, <3>2 DEF OlderThan, Sweep
      <4>2. e = <<"gz", d>> => e[1] = "gz" /\ e[2] = d
        OBVIOUS
      <4> QED BY <4>1, <4>2, <2>3 DEF Leave
    <3> QED BY <2>1, <3>1, <3>2 DEF Remaining
  <2> QED BY <1>9, <2>2, <2>3
<1>10. ASSUME NEW d \in DOMAIN archives, Expire(d) PROVE Remaining'
  <2>1. /\ logs' = logs /\ DOMAIN archives' = DOMAIN archives \ {d}
        /\ \A c \in DOMAIN archives' : archives'[c] = archives[c]
        /\ sweep'.todo = sweep.todo \ {<<"gz", d>>} /\ sweep'.failed = sweep.failed
        /\ sweep'.state = "running" /\ sweep.state = "running" /\ sweep'.start = sweep.start
        /\ sweep'.day = sweep.day
    BY <1>1, <1>10, DropIs DEF Expire, Finish, Between, Running, Sweep
  <2> QED BY <2>1 DEF Remaining
<1>11. ASSUME NEW d \in DOMAIN logs, Compress(d) PROVE Remaining'
  <2>1. /\ UNCHANGED <<logs, archives>>
        /\ sweep'.todo = sweep.todo \ {<<"log", d>>} /\ sweep'.failed = sweep.failed
        /\ sweep'.state = "running" /\ sweep.state = "running" /\ sweep'.start = sweep.start
        /\ sweep'.day = d /\ sweep.day = NoDay
    BY <1>1, <1>11 DEF Compress, Between, Running, Sweep
  <2>2. \A c \in DOMAIN logs : c # NoDay
    BY <1>1 DEF Day
  <2> QED BY <2>1, <2>2 DEF Remaining
<1>12. CASE CreateArchive
  <2>1. /\ logs' = logs /\ sweep.todo \subseteq sweep'.todo /\ sweep'.failed = sweep.failed
        /\ sweep'.state = "running" /\ sweep.state = "running" /\ sweep'.start = sweep.start
        /\ sweep'.day = sweep.day
    BY <1>1, <1>12 DEF CreateArchive, Step, Running, Sweep
  <2>2. \A c \in DOMAIN archives' :
           (c \in DOMAIN archives /\ archives'[c] = archives[c]) \/ archives'[c].mtime = now
    BY <1>12 DEF CreateArchive, Put
  <2> QED BY <1>1, <2>1, <2>2 DEF Remaining, Sweep
<1>13. CASE Copy
  <2>1. /\ logs' = logs /\ sweep'.todo = sweep.todo /\ sweep'.failed = sweep.failed
        /\ sweep'.state = "running" /\ sweep.state = "running" /\ sweep'.start = sweep.start
        /\ sweep'.day = sweep.day
    BY <1>1, <1>13 DEF Copy, Step, Running, Sweep
  <2>2. \A c \in DOMAIN archives' :
           (c \in DOMAIN archives /\ archives'[c] = archives[c]) \/ archives'[c].mtime = now
    BY <1>13 DEF Copy
  <2> QED BY <1>1, <2>1, <2>2 DEF Remaining, Sweep
<1>14. CASE RemoveLog
  <2>1. /\ archives' = archives /\ DOMAIN logs' = DOMAIN logs \ {sweep.day}
        /\ \A c \in DOMAIN logs' : logs'[c] = logs[c]
        /\ sweep'.todo = sweep.todo /\ sweep'.failed = sweep.failed
        /\ sweep'.state = "running" /\ sweep.state = "running" /\ sweep'.start = sweep.start
    <3>1. /\ archives' = archives /\ logs' = Drop(logs, sweep.day)
          /\ sweep' = [sweep EXCEPT !.day = NoDay, !.step = "create"]
          /\ sweep.state = "running"
      BY <1>14 DEF RemoveLog, Step, Running
    <3>2. /\ sweep'.todo = sweep.todo /\ sweep'.failed = sweep.failed
          /\ sweep'.state = "running" /\ sweep'.start = sweep.start
      BY <1>1, <3>1 DEF Sweep
    <3>3. /\ DOMAIN Drop(logs, sweep.day) = DOMAIN logs \ {sweep.day}
          /\ \A c \in DOMAIN logs \ {sweep.day} : Drop(logs, sweep.day)[c] = logs[c]
      BY DropIs
    <3> QED BY <3>1, <3>2, <3>3
  <2> QED BY <2>1 DEF Remaining
<1>15. Tick => UNCHANGED <<logs, archives, sweep>>
  BY DEF Tick
<1>16. UNCHANGED rotationVars => UNCHANGED <<logs, archives, sweep>>
  BY DEF rotationVars
<1> QED
  BY <1>2, <1>3, <1>4, <1>5, <1>6, <1>7, <1>8, <1>9, <1>10, <1>11, <1>12, <1>13, <1>14, <1>15,
     <1>16 DEF RotationNext, SweepStep

(* A sweep that came to its end has passed over nothing that was old when  *)
(* it began, but what failed itself, for every retention that is not zero  *)
(* (log_rotation.rs:62-119).                                               *)
THEOREM RotationIsThorough ==
  ASSUME Retention > 0
  PROVE  RotationSpec => []SweepIsThorough
<1>1. RotationInit => Remaining
  BY DEF RotationInit, NoSweep, Remaining
<1>2. IInv /\ Remaining => SweepIsThorough
  <2> SUFFICES ASSUME IInv, Remaining, sweep.state = "done" PROVE SweepIsThorough
    BY DEF SweepIsThorough
  <2>1. /\ sweep.start \in Nat
        /\ \A d \in DOMAIN logs : logs[d].mtime \in Nat /\ d # NoDay
        /\ \A d \in DOMAIN archives : archives[d].mtime \in Nat
    BY DEF IInv, Typed, LogFile, Archive, Sweep, Day
  <2> QED BY <2>1 DEF SweepIsThorough, Remaining, OlderThan
<1>3. IInv /\ Remaining /\ [RotationNext]_rotationVars => Remaining'
  BY RemainingNext
<1> QED BY <1>1, <1>2, <1>3, InitInv, NextInv, PTL DEF RotationSpec
-----------------------------------------------------------------------------
(* Start-up.  What a process knows follows from the stage it is at and     *)
(* from its configuration.                                                 *)

(* Every set of numbers has a least one.                                   *)
LEMMA HasLeast ==
  ASSUME NEW S, S \subseteq Nat, S # {}
  PROVE  \E x \in S : \A y \in S : x <= y
<1> DEFINE lt == {p \in Nat \X Nat : p[1] < p[2]}
<1>1. IsWellFoundedOn(lt, Nat)
  BY NatLessThanWellFounded DEF OpToRel
<1>2. PICK s \in S : \A t \in S : ~(<<t, s>> \in lt)
  <2> HIDE DEF lt
  <2> QED BY <1>1, WFMin
<1>3. ASSUME NEW t \in S PROVE s <= t
  <2>1. <<t, s>> \in Nat \X Nat /\ <<t, s>>[1] = t /\ <<t, s>>[2] = s
    OBVIOUS
  <2>2. ~(t < s)
    BY <1>2, <2>1
  <2> QED BY <2>2
<1> QED BY <1>3

(* Of the entries with a name, LastEntry is one.                           *)
LEMMA LastEntryIs ==
  ASSUME NEW c \in Configs, NEW name \in ClientNames(c)
  PROVE  \E i \in DOMAIN c.clients : LastEntry(c, name) = c.clients[i] /\ c.clients[i].name = name
<1>1. PICK n \in Nat : DOMAIN c.clients = 1 .. n
  BY StartupAssumption
<1> DEFINE named == {i \in 1 .. n : c.clients[i].name = name}
           back  == {n - i : i \in named}
<1>2. back # {} /\ back \subseteq Nat
  BY <1>1 DEF ClientNames, EntriesOf
<1>3. PICK x \in back : \A y \in back : x <= y
  BY <1>2, HasLeast
<1>4. PICK i \in named : x = n - i
  BY <1>3
<1>5. ASSUME NEW j \in named PROVE j <= i
  <2>1. n - j \in back
    OBVIOUS
  <2>2. n - i <= n - j
    BY <1>3, <1>4, <2>1
  <2> QED BY <2>2
<1>6. \E k \in DOMAIN c.clients :
        /\ c.clients[k].name = name
        /\ \A j \in DOMAIN c.clients : c.clients[j].name = name => j <= k
  BY <1>1, <1>4, <1>5
<1> QED BY <1>6 DEF LastEntry

Resolved   == {"docker", "reconcile", "limits", "tasks", "bind", "serving"}
Reconciled == {"limits", "tasks", "bind", "serving"}
Registered == {"tasks", "bind", "serving"}

Accounts(c) == [name \in ClientNames(c) |-> LastEntry(c, name).unix_user]

StartupInv ==
  /\ stage \in Stages /\ starts \in 0 .. MaxStarts
  /\ outcome \in {"none", "ok", "error", "panic", "crash"}
  /\ reaper \in {"none", "spawned", "running", "panicked"}
  /\ config = NoConfig \/ config \in Configs
  /\ stage # "down" => config \in Configs /\ Valid(config)
  /\ workers = IF stage \in Resolved THEN Accounts(config) ELSE << >>
  /\ registry = IF stage \in Registered THEN ClientRegistry(config) ELSE << >>
  /\ reconciled \in BOOLEAN /\ (reconciled <=> stage \in Reconciled)
  /\ reaper # "none" => stage \in {"bind", "serving"}

(* The steps of start-up, whatever the log does meanwhile.                 *)
StartupNext ==
  \/ \E c \in Configs : Load(c)
  \/ LoadFails \/ Advance \/ ReaperOverflows \/ InitTelemetry \/ Terminate

LEMMA StartupInitInv == StartupInit => StartupInv
<1> SUFFICES ASSUME StartupInit PROVE StartupInv
  OBVIOUS
<1>1. stage = "down" /\ starts \in 0 .. MaxStarts
  BY StartupAssumption DEF StartupInit
<1> QED BY <1>1 DEF StartupInit, StartupInv, Stages, Resolved, Reconciled, Registered

LEMMA EndsInv == ASSUME StartupInv, NEW how \in {"ok", "error", "panic", "crash"}, Ends(how)
                 PROVE  StartupInv'
BY DEF Ends, StartupInv, Stages, Resolved, Reconciled, Registered

LEMMA PassInv ==
  ASSUME StartupInv, NEW s, NEW next, Pass(s, next),
         <<s, next>> \in {<<"directory", "telemetry">>, <<"telemetry", "database">>,
                          <<"database", "accounts">>, <<"docker", "reconcile">>,
                          <<"bind", "serving">>}
  PROVE  StartupInv'
<1>1. /\ stage = s /\ stage' = next
      /\ UNCHANGED <<config, outcome, starts, workers, registry, reconciled, reaper>>
  BY DEF Pass, At, Reach
<1> QED BY <1>1 DEF StartupInv, Stages, Resolved, Reconciled, Registered

LEMMA StartupNextInv == StartupInv /\ [StartupNext]_startupVars => StartupInv'
<1> SUFFICES ASSUME StartupInv, [StartupNext]_startupVars PROVE StartupInv'
  OBVIOUS
<1> USE DEF Stages, Resolved, Reconciled, Registered
<1>1. CASE UNCHANGED startupVars
  BY <1>1 DEF startupVars, StartupInv
<1>2. ASSUME NEW c \in Configs, Load(c) PROVE StartupInv'
  BY <1>2, StartupAssumption DEF Load, At, StartupInv
<1>3. CASE LoadFails
  BY <1>3, StartupAssumption DEF LoadFails, At, StartupInv
<1>4. CASE EnsureDirectory \/ InitTelemetry \/ OpenDatabase \/ ConnectDocker \/ Bind
  BY <1>4, PassInv DEF EnsureDirectory, InitTelemetry, OpenDatabase, ConnectDocker, Bind
<1>5. ASSUME NEW p \in Passwds, ResolveClientWorkers(p) PROVE StartupInv'
  BY <1>5 DEF ResolveClientWorkers, At, Reach, StartupInv, Accounts
<1>6. CASE Reconcile
  BY <1>6 DEF Reconcile, At, Reach, StartupInv
<1>7. CASE BuildLimits
  BY <1>7 DEF BuildLimits, At, Reach, StartupInv
<1>8. CASE SpawnTasks
  BY <1>8 DEF SpawnTasks, At, Reach, StartupInv
<1>9. CASE StartReaper \/ ReaperOverflows
  BY <1>9 DEF StartReaper, ReaperOverflows, StartupInv
<1>10. CASE Terminate
  BY <1>10, EndsInv DEF Terminate, StageFails, OpenLogPanics, Panic, Shutdown, Crash, ResolutionFails
<1> QED
  BY <1>1, <1>2, <1>3, <1>4, <1>5, <1>6, <1>7, <1>8, <1>9, <1>10 DEF StartupNext, Advance

LEMMA EntryValues ==
  ASSUME NEW c \in Configs, NEW name \in ClientNames(c)
  PROVE  /\ LastEntry(c, name) \in EntriesOf(c)
         /\ LastEntry(c, name).name = name
BY LastEntryIs DEF EntriesOf

LEMMA RegistryTyped ==
  ASSUME StartupInv
  PROVE  registry \in [DOMAIN registry -> Hashes]
<1>1. CASE stage \in Registered
  <2>1. config \in Configs /\ Valid(config) /\ registry = ClientRegistry(config)
    BY <1>1 DEF StartupInv, Registered
  <2>2. \A e \in EntriesOf(config) : e.hash \in Hashes
    BY <2>1, StartupAssumption DEF Valid, WellFormed
  <2>3. \A name \in ClientNames(config) : LastEntry(config, name).hash \in Hashes
    BY <2>1, <2>2, EntryValues
  <2> QED BY <2>1, <2>3 DEF ClientRegistry
<1>2. CASE stage \notin Registered
  BY <1>2 DEF StartupInv
<1> QED BY <1>1, <1>2

LEMMA InvAgrees == StartupInv => TokenAndAccountAgree
<1> SUFFICES ASSUME StartupInv, stage = "serving",
                    NEW name \in DOMAIN registry, NEW secret \in Hashes,
                    Authenticate(name, secret)
             PROVE  /\ name \in DOMAIN workers
                    /\ \E e \in EntriesOf(config) :
                         e.name = name /\ e.hash = secret /\ e.unix_user = workers[name]
                    /\ \A other \in DOMAIN workers : workers[other] = workers[name] => other = name
  BY DEF TokenAndAccountAgree
<1>1. config \in Configs /\ Valid(config) /\ registry = ClientRegistry(config)
      /\ workers = Accounts(config)
  BY DEF StartupInv, Registered, Resolved
<1>2. name \in ClientNames(config) /\ LastEntry(config, name).hash = secret
  BY <1>1 DEF ClientRegistry, Authenticate
<1>3. DOMAIN workers = ClientNames(config)
      /\ \A n \in ClientNames(config) : workers[n] = LastEntry(config, n).unix_user
  BY <1>1 DEF Accounts
<1>4. ASSUME NEW other \in DOMAIN workers, workers[other] = workers[name] PROVE other = name
  <2>1. PICK i \in DOMAIN config.clients :
          LastEntry(config, name) = config.clients[i] /\ config.clients[i].name = name
    BY <1>1, <1>2, LastEntryIs
  <2>2. PICK j \in DOMAIN config.clients :
          LastEntry(config, other) = config.clients[j] /\ config.clients[j].name = other
    BY <1>1, <1>3, LastEntryIs
  <2>3. i = j
    BY <1>1, <1>2, <1>3, <1>4, <2>1, <2>2 DEF Valid, AccountsDiffer
  <2> QED BY <2>1, <2>2, <2>3
<1> QED BY <1>1, <1>2, <1>3, <1>4, EntryValues

LEMMA InvReconciled == StartupInv => ReconciledFirst
<1> SUFFICES ASSUME StartupInv PROVE ReconciledFirst
  OBVIOUS
<1>1. stage = "serving" \/ reaper # "none" => reconciled
  BY DEF StartupInv, Reconciled
<1>2. ASSUME reconciled, NEW e \in EntriesOf(config) PROVE e.name \in DOMAIN workers
  <2>1. workers = Accounts(config)
    BY <1>2 DEF StartupInv, Reconciled, Resolved
  <2> QED BY <2>1 DEF Accounts, ClientNames
<1> QED BY <1>1, <1>2 DEF ReconciledFirst
-----------------------------------------------------------------------------
(* The process                                                             *)

OpenStages == Stages \ {"down", "directory", "telemetry"}

ProcessInv ==
  /\ StartupInv
  /\ IInv
  /\ appender # NoDay <=> stage \in OpenStages
  /\ appender = NoDay => sweep = NoSweep

LEMMA ProcessInitInv == Init => ProcessInv
BY StartupInitInv, InitInv DEF Init, StartupInit, RotationInit, ProcessInv, OpenStages

(* A step of the process is a step, or none, of start-up and of the log.   *)
LEMMA ProcessStep ==
  ASSUME ProcessInv, [Next]_vars
  PROVE  [StartupNext]_startupVars /\ [RotationNext]_rotationVars
<1>1. CASE Boot
  BY <1>1 DEF Boot, StartupNext, RotationNext
<1>2. CASE End
  <2>1. appender # NoDay => RotationNext
    BY <1>2 DEF End, RotationNext
  <2>2. appender = NoDay => UNCHANGED rotationVars
    BY <1>2 DEF End, Stop, ProcessInv, rotationVars, clock
  <2> QED BY <1>2, <2>1, <2>2 DEF End, StartupNext
<1>3. CASE Rotate
  <2>1. appender # NoDay
    BY <1>3 DEF Rotate, TasksRun, ProcessInv, OpenStages, Stages
  <2> QED BY <1>3, <2>1 DEF Rotate, RotationNext
<1>4. CASE Log \/ Time
  BY <1>4 DEF Log, Time, RotationNext
<1>5. CASE UNCHANGED vars
  BY <1>5 DEF vars
<1> QED BY <1>1, <1>2, <1>3, <1>4, <1>5 DEF Next

LEMMA OpenStays ==
  ASSUME ProcessInv, [Next]_vars
  PROVE  /\ appender' # NoDay <=> stage' \in OpenStages
         /\ appender' = NoDay => sweep' = NoSweep
<1> USE DEF OpenStages, Stages
<1>0. /\ appender # NoDay <=> stage \in OpenStages
      /\ appender = NoDay => sweep = NoSweep
      /\ today # NoDay
  BY DEF ProcessInv, IInv, Typed, Day
<1>1. CASE End
  BY <1>1 DEF End, Stop, Terminate, StageFails, OpenLogPanics, Panic, Shutdown, Crash,
              ResolutionFails, Ends
<1>2. CASE InitTelemetry /\ OpenLog
  BY <1>0, <1>2 DEF InitTelemetry, Pass, At, Reach, OpenLog
<1>3. ASSUME NEW c \in Configs, Load(c), UNCHANGED rotationVars
      PROVE  /\ appender' # NoDay <=> stage' \in OpenStages
             /\ appender' = NoDay => sweep' = NoSweep
  BY <1>0, <1>3 DEF Load, At, rotationVars
<1>4. CASE (LoadFails \/ Advance \/ ReaperOverflows) /\ UNCHANGED rotationVars
  <2>1. stage' \in OpenStages <=> stage \in OpenStages
    BY <1>4 DEF LoadFails, Advance, EnsureDirectory, OpenDatabase, ConnectDocker, Reconcile,
                ResolveClientWorkers, BuildLimits, SpawnTasks, Bind, StartReaper,
                ReaperOverflows, Pass, At, Reach
  <2> QED BY <1>0, <1>4, <2>1 DEF rotationVars
<1>5. CASE Rotate
  <2>1. appender # NoDay
    BY <1>5, <1>0 DEF Rotate, TasksRun
  <2>2. appender' = appender /\ stage' = stage
    BY <1>5 DEF Rotate, startupVars, SweepStep, StartSweep, EndSweep, AbortSweep, Leave, Skip,
                Expire, Compress, CreateArchive, Copy, RemoveLog, CompressFails
  <2> QED BY <1>0, <2>1, <2>2
<1>6. CASE Log
  BY <1>0, <1>6 DEF Log, Write, startupVars
<1>7. CASE Time \/ UNCHANGED vars
  BY <1>0, <1>7 DEF Time, Tick, vars, startupVars, rotationVars
<1> QED BY <1>1, <1>2, <1>3, <1>4, <1>5, <1>6, <1>7 DEF Next, Boot

LEMMA ProcessNextInv == ProcessInv /\ [Next]_vars => ProcessInv'
BY ProcessStep, OpenStays, StartupNextInv, NextInv DEF ProcessInv

LEMMA ProcessTyped == ProcessInv => TypeOK
BY TypedIsTypeOK, RegistryTyped DEF ProcessInv, IInv, StartupInv, TypeOK, OpenStages

(* Whatever start-up does and however a process ends, the log directory    *)
(* sees what RotationSpec allows and nothing else: the appender is opened  *)
(* once per process, the sweep runs only while it is open (main.rs:48,     *)
(* tasks.rs), and a process that ends takes both with it.                  *)
THEOREM ProcessImplementsRotation == Spec => RotationSpec
<1>1. Init => RotationInit
  BY DEF Init
<1>2. ProcessInv /\ [Next]_vars => [RotationNext]_rotationVars
  BY ProcessStep
<1> QED BY <1>1, <1>2, ProcessInitInv, ProcessNextInv, PTL DEF Spec, RotationSpec

(* Every variable has its type, and the appender holds a file exactly from *)
(* telemetry::init to the end of the process.                              *)
THEOREM ProcessTypes == Spec => []TypeOK
BY ProcessTyped, ProcessInitInv, ProcessNextInv, PTL DEF Spec

(* For every configuration that validates, entries of one name included,   *)
(* and every /etc/passwd: an accepted token runs clusters under the        *)
(* account of its own entry and no other client does (config.rs:153-156,   *)
(* main.rs:build_task_deps).                                               *)
THEOREM TokensRunTheirAccounts == Spec => []TokenAndAccountAgree
<1>1. ProcessInv => TokenAndAccountAgree
  BY InvAgrees DEF ProcessInv
<1> QED BY <1>1, ProcessInitInv, ProcessNextInv, PTL DEF Spec

(* No request is served and nothing reaped before this process has         *)
(* reconciled, with an account for every client (main.rs:113-114).         *)
THEOREM NothingBeforeReconciliation == Spec => []ReconciledFirst
<1>1. ProcessInv => ReconciledFirst
  BY InvReconciled DEF ProcessInv
<1> QED BY <1>1, ProcessInitInv, ProcessNextInv, PTL DEF Spec

(* Over any number of processes no line of the log is lost before its      *)
(* time, and the file that is being written stays in place                 *)
(* (log_rotation.rs).                                                      *)
THEOREM ProcessLosesNothing == Spec => [](NoLineLost /\ OpenFileStays)
BY ProcessImplementsRotation, RotationLosesNothing, PTL

(* A sweep that ends in any of these processes has passed over nothing     *)
(* that was old when it began, but what failed itself.                     *)
THEOREM ProcessIsThorough ==
  ASSUME Retention > 0
  PROVE  Spec => []SweepIsThorough
BY ProcessImplementsRotation, RotationIsThorough, PTL

(* The action PanicsAreKnown asserts of every step.                        *)
KnownPanic ==
  /\ outcome' = "panic" /\ outcome # "panic" =>
       \/ stage = "telemetry"
       \/ /\ stage \in {"limits", "tasks"}
          /\ ~Representable({"min_ttl", "max_ttl", "estimate", "reap_delay"})
  /\ reaper' = "panicked" /\ reaper # "panicked" =>
       \/ config.limits["interval"] = 0
       \/ config.limits["reap_delay"] > MaxDelay

(* Whatever the configuration, /etc/passwd and the system outside do, a    *)
(* process panics where it opens its log or before it binds, over a time a *)
(* TimeDelta does not hold; its reaper over an interval of zero or a delay *)
(* that leads out of the calendar (telemetry.rs:58, main.rs:257-282,       *)
(* ttl_reaper.rs:40).                                                      *)
THEOREM PanicsHaveTheirCauses == Spec => PanicsAreKnown
<1>1. ASSUME [Next]_vars PROVE [KnownPanic]_vars
  <2>1. CASE UNCHANGED startupVars
    BY <2>1 DEF startupVars, KnownPanic
  <2>2. CASE Panic
    <3>1. /\ stage \in {"limits", "tasks"}
          /\ ~Representable({"min_ttl", "max_ttl", "estimate", "reap_delay"})
      BY <2>2 DEF Panic, Representable, At
    <3>2. reaper' = "none"
      BY <2>2 DEF Panic, Ends
    <3> QED BY <3>1, <3>2 DEF KnownPanic
  <2>3. CASE OpenLogPanics
    BY <2>3 DEF OpenLogPanics, At, Ends, KnownPanic
  <2>4. CASE StageFails \/ Shutdown \/ Crash \/ \E p \in Passwds : ResolutionFails(p)
    BY <2>4 DEF StageFails, Shutdown, Crash, ResolutionFails, Ends, KnownPanic
  <2>5. CASE (\E c \in Configs : Load(c)) \/ LoadFails
    BY <2>5 DEF Load, LoadFails, KnownPanic
  <2>6. CASE ReaperOverflows
    BY <2>6 DEF ReaperOverflows, KnownPanic
  <2>7. CASE Advance \/ InitTelemetry
    BY <2>7 DEF Advance, EnsureDirectory, InitTelemetry, OpenDatabase, ConnectDocker, Reconcile,
                ResolveClientWorkers, BuildLimits, SpawnTasks, Bind, StartReaper, Pass, Reach,
                KnownPanic
  <2> QED
    BY <1>1, <2>1, <2>2, <2>3, <2>4, <2>5, <2>6, <2>7
       DEF Next, Boot, End, Rotate, Log, Time, Terminate, vars
<1> QED BY <1>1, PTL DEF Spec, PanicsAreKnown, KnownPanic
=============================================================================
