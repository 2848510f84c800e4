SPECIFICATION Spec
CONSTANTS
  AWAY = AWAY
  NULL = NULL
  x = x
  y = y
  Helpfile <- TwoOpen
  Image <- Disks
  Opens <- OpensAs
  FRAME = 2
  BUFFER = 2
  MaxFaults = 1
INVARIANTS
  OutputInPlace
  IntactExtracts
  DecoderInStep
