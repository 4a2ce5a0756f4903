CONSTANTS
  Clusters = {c1, c2}
  Owners = {o1}
  MaxPerUser = 1
  Requests = {r1}
  TtlsExpire = FALSE
  Faults = {"crash", "timeout"}
  MaxFaults = 1
SPECIFICATION FairSpec
INVARIANTS ReadyIntact AtMostOneTeardown NothingOutlivesItsRow
PROPERTIES CancelledSpawnGoes
CHECK_DEADLOCK FALSE
