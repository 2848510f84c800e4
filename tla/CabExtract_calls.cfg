SPECIFICATION FairSpec
CONSTANTS
  NULL = NULL
  Folder <- Folders
  File <- FileIds
  Method <- MethodOf
  FirstCab <- FirstOfFolder
  Parts <- PartsOf
  FileAt <- FileTable
  Cabs = 2
  BLOCKMAX = 2
  INPUTMAX = 3
  INPUTMAX_SALVAGE = 4
  FOLDERMAX = 3
  Buffers <- BufferSizes
  MaxFaults = 2
INVARIANTS
  OutputRight
  InputFits
  HandleInSegment
  ReadErrorKept
PROPERTIES
  IntactExtracts
  ExtractReturns
