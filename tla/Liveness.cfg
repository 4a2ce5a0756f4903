CONSTANTS
  Clusters = {c1, c2}
  Owners = {o1}
  MaxPerUser = 1
  Requests = {}
  TtlsExpire = TRUE
  Faults = {"exit", "crash", "timeout"}
  MaxFaults = 2
SPECIFICATION FairSpec
PROPERTY EveryClusterGoes
CHECK_DEADLOCK FALSE
