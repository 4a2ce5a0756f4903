CONSTANTS
  HealthTimeout = 2
  PollInterval = 1
  RequestTimeout = 2
  Faults = {"error", "timeout", "port", "exit", "crash"}
  MaxFaults = 2
SPECIFICATION Spec
INVARIANTS TypeOK SpawnedComplete NothingRefused OrphansNeverRun FailureIsHonest
PROPERTIES CallsReturn ImplementsBackend
CHECK_DEADLOCK FALSE
