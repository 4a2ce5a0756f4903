CONSTANTS
  Clusters = {c1}
  Owners = {o1, o2}
  MaxPerUser = 1
  Requests = {r1, r2}
  TtlsExpire = TRUE
  Faults = {"db", "backend", "exec", "timeout", "drop", "exit", "crash"}
  MaxFaults = 3
SPECIFICATION HttpSpec
SYMMETRY Symmetry
INVARIANTS TypeOK Ownership NoNewsIsUndone
PROPERTIES RowStepsLegal OnlyForAReason
CHECK_DEADLOCK FALSE
