CONSTANTS
  Clusters = {c1, c2, c3}
  Owners = {o1}
  MaxPerUser = 2
  Requests = {}
  TtlsExpire = TRUE
  Faults = {"exit", "crash", "exec"}
  MaxFaults = 1
SPECIFICATION Spec
SYMMETRY Symmetry
INVARIANTS SlotsExclusive QuotaRespected ReadyIntact DeletingIsHandled
PROPERTIES ImplementsLifecycle ReconcileSettles
CHECK_DEADLOCK FALSE
