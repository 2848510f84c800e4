SPECIFICATION Spec
CONSTANTS
  X = X
  Y = Y
  Z = Z
  imgA = imgA
  imgB = imgB
  imgC = imgC
  NULL = NULL
  Comp <- Known
  Key <- Keys
  Cab <- TwoCabs
  Image <- Parts
  ImageFolders <- SetFolders
  ImageFiles <- SetFiles
  MaxFolders = 2
  MaxFiles = 2
  FolderMax = 6
  Supported <- Known
  Salvage = FALSE
  JoinChains = FALSE
  Faults <- SeekOnly
SYMMETRY Symmetric
INVARIANT
  HandleMatches
