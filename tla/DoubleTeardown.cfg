CONSTANTS
  Clusters = {c1}
  Owners = {o1}
  MaxPerUser = 1
  Requests = {r1, r2}
  TtlsExpire = FALSE
  Faults = {}
  MaxFaults = 0
SPECIFICATION Spec
INVARIANT AtMostOneTeardown
CHECK_DEADLOCK FALSE
