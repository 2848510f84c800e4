SPECIFICATION FairSpec
CONSTANTS
  Images <- Files
  BufSizes <- Sizes
  MaxFaults = 2
CHECK_DEADLOCK FALSE
INVARIANTS
  FoundExactly
  ChainApart
  HandleInPlace
PROPERTY
  SearchEnds
