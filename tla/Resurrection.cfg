CONSTANTS
  Clusters = {c1}
  Owners = {o1}
  MaxPerUser = 1
  Requests = {r1}
  TtlsExpire = FALSE
  Faults = {}
  MaxFaults = 0
SPECIFICATION Spec
PROPERTY DeletingIsFinal
CHECK_DEADLOCK FALSE
