\* Files of up to three chunks, three attempts, every fault.
SPECIFICATION Spec
CONSTANTS
  ChunkSize = 2
  MaxSize = 5
  MaxOld = 3
  MaxAttempts = 3
  Faults = TRUE
INVARIANTS
  PrefixKept
  OldFileResult
CHECK_DEADLOCK FALSE
