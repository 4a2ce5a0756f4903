---------------------------- MODULE LogRotation ----------------------------
(***************************************************************************)
(* The log directory: a daily rolling appender writes one file a day, and  *)
(* a periodic sweep replaces old files by archives and deletes old         *)
(* archives.  The two run in one process and share nothing but the         *)
(* directory; the process may stop at any point.  A line of the log is     *)
(* known by the time it was written at.                                    *)
(***************************************************************************)
EXTENDS Naturals, FiniteSets

CONSTANTS DayLength,      \* the appender starts a new file this often
          CompressAfter,  \* the age at which a file is archived
          Retention,      \* the age at which an archive is deleted
          MaxTime,        \* bound on the clock
          MaxLines,       \* bound on the lines written
          MaxFailures     \* bound on the steps of sweeps that fail

(* main.rs hard-codes 24 hours for CompressAfter.                          *)
ASSUME RotationAssumption ==
  /\ DayLength \in Nat \ {0}
  /\ CompressAfter \in Nat /\ CompressAfter >= DayLength
  /\ Retention \in Nat
  /\ MaxTime \in Nat /\ MaxLines \in Nat /\ MaxFailures \in Nat

VARIABLES
  now, today, midnight,  \* the clock: today began at midnight
  logs,       \* the plain log files, by day
  archives,   \* the .gz files, by the day of the file they were made from
  appender,   \* the day whose file the appender holds open
  written,    \* every line that left the appender's buffer
  sweep,      \* the sweep in progress, or the last one
  failures    \* how many steps of sweeps have failed

clock        == <<now, today, midnight>>
rotationVars == <<clock, logs, archives, appender, written, sweep, failures>>

(* Days are numbered from 1; 0 is no day: no file is open, no file is      *)
(* being compressed.                                                       *)
Day   == Nat \ {0}
NoDay == 0

Entry == {"log", "gz"} \X Day
Steps == {"create", "copy", "remove"}

LogFile == [lines : SUBSET Nat, mtime : Nat]
Archive == [lines : SUBSET Nat, mtime : Nat, whole : BOOLEAN]
Sweep   == [state : {"idle", "running", "done"}, start : Nat, todo : SUBSET Entry,
            failed : SUBSET Entry, day : Nat, step : Steps]

NoSweep == [state |-> "idle", start |-> 0, todo |-> {}, failed |-> {},
            day |-> NoDay, step |-> "create"]

Put(f, d, x) == [e \in DOMAIN f \cup {d} |-> IF e = d THEN x ELSE f[e]]
Drop(f, d)   == [e \in DOMAIN f \ {d} |-> f[e]]

(* Slip: the comparison is off by one.                                     *)
BugOlderThan(mtime, at, threshold) == at + 1 >= mtime + threshold

OlderThan(mtime, at, threshold) == at >= mtime + threshold

MayFail == failures < MaxFailures /\ failures' = failures + 1
-----------------------------------------------------------------------------
(* The clock and the appender                                              *)

Tick ==
  /\ now < MaxTime
  /\ now' = now + 1
  /\ IF now + 1 = midnight + DayLength
     THEN today' = today + 1 /\ midnight' = now + 1
     ELSE UNCHANGED <<today, midnight>>
  /\ UNCHANGED <<logs, archives, appender, written, sweep, failures>>

FileOf(d) == IF d \in DOMAIN logs THEN logs[d] ELSE [lines |-> {}, mtime |-> now]

(* The appender is created at start-up and opens, or creates, today's file.*)
OpenLog ==
  /\ appender = NoDay
  /\ appender' = today
  /\ logs' = Put(logs, today, FileOf(today))
  /\ UNCHANGED <<clock, archives, written, sweep, failures>>

(* The first line of a new day goes to a new file.  A line for a file that *)
(* was unlinked while it was open is in no file.                           *)
Write ==
  /\ appender # NoDay
  /\ appender' = today
  /\ written' = written \cup {now} /\ Cardinality(written') <= MaxLines
  /\ IF appender = today /\ today \notin DOMAIN logs
     THEN UNCHANGED logs
     ELSE logs' = Put(logs, today, [lines |-> FileOf(today).lines \cup {now}, mtime |-> now])
  /\ UNCHANGED <<clock, archives, sweep, failures>>
-----------------------------------------------------------------------------
(* run_once                                                                *)

Running == sweep.state = "running"
Between == Running /\ sweep.day = NoDay

Entries == {<<"log", d>> : d \in DOMAIN logs} \cup {<<"gz", d>> : d \in DOMAIN archives}

(* Slip: the sweep runs once and not every hour.                           *)
BugSweepsOnce ==
  /\ sweep.state = "idle"
  /\ sweep' = [NoSweep EXCEPT !.state = "running", !.start = now, !.todo = Entries]
  /\ UNCHANGED <<clock, logs, archives, appender, written, failures>>

StartSweep ==
  /\ ~Running
  /\ sweep' = [NoSweep EXCEPT !.state = "running", !.start = now, !.todo = Entries]
  /\ UNCHANGED <<clock, logs, archives, appender, written, failures>>

Finish(e)   == sweep' = [sweep EXCEPT !.todo = @ \ {e}]
GiveUpOn(e) == sweep' = [sweep EXCEPT !.todo = @ \ {e}, !.failed = @ \cup {e}]

(* An entry is left alone: it is gone, or not old enough by the time the   *)
(* sweep began.                                                            *)
Leave(e) ==
  /\ Between /\ e \in sweep.todo
  /\ e[1] = "log" /\ e[2] \in DOMAIN logs =>
       ~OlderThan(logs[e[2]].mtime, sweep.start, CompressAfter)
  /\ e[1] = "gz" /\ e[2] \in DOMAIN archives =>
       ~OlderThan(archives[e[2]].mtime, sweep.start, Retention)
  /\ Finish(e)
  /\ UNCHANGED <<clock, logs, archives, appender, written, failures>>

(* Slip: one entry that fails ends the sweep.                              *)
BugStopsAtFailure(e) ==
  /\ Between /\ e \in sweep.todo /\ MayFail
  /\ sweep' = [sweep EXCEPT !.todo = {}, !.failed = @ \cup {e}]
  /\ UNCHANGED <<clock, logs, archives, appender, written>>

(* Its type or mtime cannot be read, or it cannot be deleted: the sweep    *)
(* goes on with the next entry.                                            *)
Skip(e) ==
  /\ Between /\ e \in sweep.todo /\ MayFail
  /\ GiveUpOn(e)
  /\ UNCHANGED <<clock, logs, archives, appender, written>>

Expire(d) ==
  /\ Between /\ <<"gz", d>> \in sweep.todo /\ d \in DOMAIN archives
  /\ OlderThan(archives[d].mtime, sweep.start, Retention)
  /\ archives' = Drop(archives, d)
  /\ Finish(<<"gz", d>>)
  /\ UNCHANGED <<clock, logs, appender, written, failures>>

(* Slip: an archive that is already there is taken to be complete.         *)
BugTrustsArchive(d) ==
  /\ Between /\ <<"log", d>> \in sweep.todo /\ d \in DOMAIN logs
  /\ OlderThan(logs[d].mtime, sweep.start, CompressAfter)
  /\ sweep' = [sweep EXCEPT !.todo = @ \ {<<"log", d>>}, !.day = d,
                            !.step = IF d \in DOMAIN archives THEN "remove" ELSE "create"]
  /\ UNCHANGED <<clock, logs, archives, appender, written, failures>>

(* compress: open the file, create the archive, copy, remove the file.     *)
Compress(d) ==
  /\ Between /\ <<"log", d>> \in sweep.todo /\ d \in DOMAIN logs
  /\ OlderThan(logs[d].mtime, sweep.start, CompressAfter)
  /\ sweep' = [sweep EXCEPT !.todo = @ \ {<<"log", d>>}, !.day = d, !.step = "create"]
  /\ UNCHANGED <<clock, logs, archives, appender, written, failures>>

Step(s) == Running /\ sweep.day # NoDay /\ sweep.step = s

(* Creating the archive empties one that is already there.  The directory  *)
(* stream may or may not come to the new entry.                            *)
CreateArchive ==
  /\ Step("create")
  /\ archives' = Put(archives, sweep.day, [lines |-> {}, mtime |-> now, whole |-> FALSE])
  /\ \E seen \in SUBSET {<<"gz", sweep.day>>} :
       sweep' = [sweep EXCEPT !.step = "copy", !.todo = @ \cup seen]
  /\ UNCHANGED <<clock, logs, appender, written, failures>>

Copy ==
  /\ Step("copy")
  /\ archives' = [archives EXCEPT ![sweep.day] =
                    [lines |-> logs[sweep.day].lines, mtime |-> now, whole |-> TRUE]]
  /\ sweep' = [sweep EXCEPT !.step = "remove"]
  /\ UNCHANGED <<clock, logs, appender, written, failures>>

RemoveLog ==
  /\ Step("remove")
  /\ logs' = Drop(logs, sweep.day)
  /\ sweep' = [sweep EXCEPT !.day = NoDay, !.step = "create"]
  /\ UNCHANGED <<clock, archives, appender, written, failures>>

(* A step of compress fails: what it has written stays.                    *)
CompressFails ==
  /\ Running /\ sweep.day # NoDay /\ MayFail
  /\ sweep' = [sweep EXCEPT !.day = NoDay, !.step = "create",
                            !.failed = @ \cup {<<"log", sweep.day>>}]
  /\ UNCHANGED <<clock, logs, archives, appender, written>>

EndSweep ==
  /\ Between /\ sweep.todo = {}
  /\ sweep' = [sweep EXCEPT !.state = "done"]
  /\ UNCHANGED <<clock, logs, archives, appender, written, failures>>

(* next_entry, or read_dir, fails: the rest is left for the next sweep.    *)
AbortSweep ==
  /\ Between /\ MayFail
  /\ sweep' = NoSweep
  /\ UNCHANGED <<clock, logs, archives, appender, written>>

(* The process stops, with its sweep and its appender.                     *)
Stop ==
  /\ appender' = NoDay
  /\ sweep' = NoSweep
  /\ UNCHANGED <<clock, logs, archives, written, failures>>

SweepStep ==
  \/ StartSweep \/ EndSweep \/ AbortSweep
  \/ \E e \in sweep.todo : Leave(e) \/ Skip(e)
  \/ \E d \in DOMAIN archives : Expire(d)
  \/ \E d \in DOMAIN logs : Compress(d)
  \/ CreateArchive \/ Copy \/ RemoveLog \/ CompressFails

RotationInit ==
  /\ now = 0 /\ today = 1 /\ midnight = 0
  /\ logs = << >> /\ archives = << >>
  /\ appender = NoDay
  /\ written = {}
  /\ sweep = NoSweep
  /\ failures = 0

(* The sweep is a task of a process that has opened its log.               *)
RotationNext ==
  \/ Tick \/ OpenLog \/ Write
  \/ appender # NoDay /\ (SweepStep \/ Stop)

RotationSpec == RotationInit /\ [][RotationNext]_rotationVars
-----------------------------------------------------------------------------
RotationTypeOK ==
  /\ now \in Nat /\ today \in Day /\ midnight \in Nat
  /\ logs \in [DOMAIN logs -> LogFile] /\ DOMAIN logs \subseteq Day
  /\ archives \in [DOMAIN archives -> Archive] /\ DOMAIN archives \subseteq Day
  /\ appender \in Nat
  /\ written \subseteq Nat
  /\ sweep \in Sweep
  /\ failures \in 0 .. MaxFailures

InLog(t)     == \E d \in DOMAIN logs : t \in logs[d].lines
InArchive(t) == \E d \in DOMAIN archives : archives[d].whole /\ t \in archives[d].lines

(* A line that was written is in a log file or in a complete archive until *)
(* both its times are over, whatever the process was doing when it stopped *)
(* and although the appender does not know of the sweep (log_rotation.rs,  *)
(* tokio_filesystem.rs:44-53, telemetry.rs:56).                            *)
NoLineLost ==
  \A t \in written : InLog(t) \/ InArchive(t) \/ now >= t + CompressAfter + Retention

(* The file of the day stays as long as the appender may write to it.      *)
OpenFileStays == appender = today => today \in DOMAIN logs

(* A sweep that came to its end has archived and deleted everything that   *)
(* was old when it began, but for the entries that failed themselves: one  *)
(* failure does not stop the rest (log_rotation.rs:52-53).                 *)
SweepIsThorough ==
  sweep.state = "done" =>
    /\ \A d \in DOMAIN logs : OlderThan(logs[d].mtime, sweep.start, CompressAfter)
                                => <<"log", d>> \in sweep.failed
    /\ \A d \in DOMAIN archives : OlderThan(archives[d].mtime, sweep.start, Retention)
                                => <<"gz", d>> \in sweep.failed
=============================================================================
