SPECIFICATION FairSpec
CONSTANTS
  Dirs <- Directories
  Names <- AllNames
  MaxFaults = 2
  NULL = NULL
INVARIANTS
  FindsListed
  FoundIsNamed
  FailureReported
PROPERTY
  FindEnds
