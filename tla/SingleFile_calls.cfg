SPECIFICATION FairSpec
CONSTANTS
  Files <- MCFiles
  Bases <- MCBases
  MaxOpens = 2
  MaxFaults = 1
  CHUNK = 2
  HEAD = 2
  WINDOWMAX = 3
INVARIANTS
  CleanExit
  ErrorReported
  HeaderInStep
  OkMeansWhole
  IntactWorks
PROPERTY
  CallsEnd
CHECK_DEADLOCK FALSE
