SPECIFICATION FairSpec
CONSTANTS
  Dirs <- MCDirs
  Files <- MCFiles
  Hidden <- MCHidden
  Selection <- MCSelection
  MaxDepth = 4
  MaxPartial = 1
INVARIANTS
  TypeOK
  CompleteUnlessReported
  OnlySelection
  FolderGoneUnlessReported
  AstrayOnlyBelowLocked
PROPERTIES
  WalkEnds
CHECK_DEADLOCK FALSE
