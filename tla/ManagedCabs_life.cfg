SPECIFICATION FairSpec
CONSTANTS
  NULL = NULL
  a = a
  b = b
  c = c
  Obj <- Parts
  Files <- FilesOf
  Follows <- Order
  Split <- SplitFirst
CHECK_DEADLOCK FALSE
INVARIANTS
  FilenameOutlives
  NothingFreedInUse
  HeadsCurrent
PROPERTY
  Reclaimed
