\* Both paste threads and the web server's move.
SPECIFICATION Spec
CONSTANTS
  Entries <- MCEntries
  Selection <- MCSelection
  Parent <- MCParent
  Above <- MCAbove
  Kind <- MCKind
  Hidden <- MCHidden
  Handlers = {"copy", "move", "web"}
INVARIANTS
  LossExplained
  CompleteUnlessReported
PROPERTIES
  OthersKept
CHECK_DEADLOCK FALSE
