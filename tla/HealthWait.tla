----------------------------- MODULE HealthWait -----------------------------
(***************************************************************************)
(* wait_until_healthy: one look at a container every PollInterval until it *)
(* is ready, is gone, or the deadline has passed.  Time is counted from    *)
(* the start of the wait, in units of which a look takes less than         *)
(* RequestTimeout: that is when the adapter gives up on an answer.         *)
(***************************************************************************)
EXTENDS Naturals

CONSTANTS HealthTimeout, PollInterval, RequestTimeout

ASSUME WaitAssumption ==
  /\ HealthTimeout \in Nat
  /\ PollInterval \in Nat \ {0}
  /\ RequestTimeout \in Nat \ {0}

Delays == 0 .. RequestTimeout - 1

(* Slip: a container that runs is ready.                                   *)
BugReady(status, requires) == status.is = "Running"

(* A container without a health check is ready as soon as it runs.         *)
Ready(status, requires) ==
  status.is = "Running" /\ (requires => status.health = "healthy")

(* Slip: the comparison with the deadline is strict.                       *)
BugWaitsOneMore(status, requires, now) ==
  IF Ready(status, requires) THEN "ready"
  ELSE IF status.is # "Running" THEN "gone"
  ELSE IF now > HealthTimeout THEN "deadline"
  ELSE "again"

(* Slip: one unhealthy report is taken as final.                           *)
BugUnhealthyIsFinal(status, requires, now) ==
  IF Ready(status, requires) THEN "ready"
  ELSE IF status.is # "Running" \/ status.health = "unhealthy" THEN "gone"
  ELSE IF now >= HealthTimeout THEN "deadline"
  ELSE "again"

(* What a look that ends at time now leads to.  The deadline is looked at  *)
(* last: a container that is ready is ready however late it is seen.       *)
Verdict(status, requires, now) ==
  IF Ready(status, requires) THEN "ready"
  ELSE IF status.is # "Running" THEN "gone"
  ELSE IF now >= HealthTimeout THEN "deadline"
  ELSE "again"

(* The last look starts at most one interval after a look before the       *)
(* deadline.                                                               *)
MaxWait == (HealthTimeout - 1) + PollInterval + (RequestTimeout - 1)
=============================================================================
