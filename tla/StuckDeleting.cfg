CONSTANTS
  Clusters = {c1}
  Owners = {o1}
  MaxPerUser = 1
  Requests = {}
  TtlsExpire = TRUE
  Faults = {"db"}
  MaxFaults = 1
SPECIFICATION FairSpec
PROPERTY DeletingGoes
CHECK_DEADLOCK FALSE
