\* Transfers and deletes, every interleaving of two threads.
SPECIFICATION Spec
CONSTANTS
  Workers = {w1, w2}
  Operations = {"ACTION_DELETE_LOCAL", "ACTION_DOWNLOAD"}
  MaxFiles = 2
  AlwaysUse = {FALSE}
  HurriedUser = FALSE
SYMMETRY Threads
INVARIANTS
  TypeOK
  SingleOperation
  OverwriteConsent
  DestinationStable
  
PROPERTIES
  DeleteConsent
