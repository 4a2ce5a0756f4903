CONSTANTS
  MaxEntryBytes = 2
  MaxTotalBytes = 3
  MaxU64 = 4
  BodyLimit = 3
  MaxTtl = 1
  Requests <- MCRequests
  MaxTenants = 3
  MaxFaults = 2
SPECIFICATION Spec
INVARIANTS
  TypeOK
  LeftoversAreOfTheCut
  ReadyIsComplete
  OnlyAcceptedIsServed
PROPERTIES
  SpawnAnswers
CHECK_DEADLOCK FALSE
