CONSTANTS
  Clusters = {c1, c2}
  Owners = {o1}
  MaxPerUser = 1
  Requests = {r1, r2}
  TtlsExpire = TRUE
  Faults = {}
  MaxFaults = 0
SPECIFICATION Spec
SYMMETRY Symmetry
INVARIANTS TeardownOnlyWhenDeleting NothingOutlivesItsRow
CHECK_DEADLOCK FALSE
