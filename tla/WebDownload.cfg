\* A native operation beside downloads of the web server.
SPECIFICATION WebSpec
CONSTANTS
  Workers = {w1, w2}
  Operations = {"ACTION_DELETE_LOCAL"}
  MaxFiles = 1
  AlwaysUse = {FALSE}
  HurriedUser = FALSE
SYMMETRY Threads
INVARIANTS
  SingleOperation
