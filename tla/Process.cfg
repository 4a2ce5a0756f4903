CONSTANTS
  h1 = h1
  h2 = h2
  malformed = malformed
  Malformed = malformed
  Hashes <- MCHashes
  Configs <- MCConfigs
  Passwds <- MCPasswds
  MaxSeconds = 3
  MaxDelay = 2
  MaxStarts = 3
  DayLength = 2
  CompressAfter = 2
  Retention = 1
  MaxTime = 3
  MaxLines = 2
  MaxFailures = 1
SPECIFICATION Spec
INVARIANTS
  TypeOK
  TokenAndAccountAgree
  ReconciledFirst
  NoLineLost
  OpenFileStays
  SweepIsThorough
PROPERTIES
  PanicsAreKnown
  StartupEnds
  OldFilesGo
CHECK_DEADLOCK FALSE
