SPECIFICATION Spec
CONSTANTS
  X = X
  Y = Y
  Z = Z
  imgA = imgA
  imgB = imgB
  imgC = imgC
  NULL = NULL
  Comp <- Known
  Key <- Keys
  Cab <- ThreeCabs
  Image <- Parts
  ImageFolders <- SetFolders
  ImageFiles <- DamagedFiles
  MaxFolders = 2
  MaxFiles = 2
  FolderMax = 6
  Supported <- OnlyLzx
  Salvage = TRUE
  JoinChains = FALSE
  Faults <- AnyCall
SYMMETRY Symmetric
INVARIANTS
  TypeOK
  NoMemoryError
  ListsHoldTheHeap
  SetSharesLists
  PointersIntoSet
  FoldersAddUp
  DecoderFolderLive
PROPERTY
  ImplementsView
