SPECIFICATION FairSpec
CONSTANTS
  Streams <- MCStreams
  Asks <- MCAsks
  Lengths <- MCLengths
  MaxFaults = 1
  JUNK = JUNK
INVARIANTS
  TypeOK
  InOrder
  IntactDecodes
PROPERTIES
  ImplementsStream
  DecodeReturns
CHECK_DEADLOCK FALSE
