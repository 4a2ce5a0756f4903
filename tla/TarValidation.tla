--------------------------- MODULE TarValidation ---------------------------
(***************************************************************************)
(* validate_and_extract looks at the entries of an uploaded archive one by *)
(* one and extracts each before it looks at the next.  The checks on one   *)
(* entry, and what they are to mean for the archive as a whole.            *)
(***************************************************************************)
EXTENDS Naturals, Sequences

CONSTANTS MaxEntryBytes, MaxTotalBytes, \* TarLimits
          MaxU64                        \* where the total saturates

ASSUME TarAssumption ==
  /\ MaxTotalBytes \in Nat /\ MaxU64 \in Nat /\ MaxU64 > MaxTotalBytes
  /\ MaxEntryBytes \in Nat /\ MaxEntryBytes <= MaxTotalBytes

(* An entry names its path and type and declares its size; its place is    *)
(* "above" if the path has a ".." component, which the library declines.   *)
(* Slip: the addition wraps around.                                        *)
BugAddSize(total, size) == (total + size) % (MaxU64 + 1)

AddSize(total, size) == IF total + size > MaxU64 THEN MaxU64 ELSE total + size

(* What is wrong with an entry after entries of this total size, in the    *)
(* order of the checks; an I/O error is left to the caller.                *)
Verdict(entry, total) ==
  IF entry.type \notin {"regular", "directory"} THEN "type"
  ELSE IF \/ entry.size > MaxEntryBytes
          \/ AddSize(total, entry.size) > MaxTotalBytes THEN "size"
  ELSE IF entry.place = "above" THEN "path"
  ELSE "ok"
-----------------------------------------------------------------------------
(* The meaning of the checks for a whole archive.                          *)

TotalBytes(tar) ==
  LET upTo[n \in 0 .. Len(tar)] == IF n = 0 THEN 0 ELSE upTo[n - 1] + tar[n].size
  IN upTo[Len(tar)]

Acceptable(tar) ==
  /\ \A i \in DOMAIN tar : /\ tar[i].type \in {"regular", "directory"}
                           /\ tar[i].size <= MaxEntryBytes
                           /\ tar[i].place = "inside"
  /\ TotalBytes(tar) <= MaxTotalBytes
=============================================================================
