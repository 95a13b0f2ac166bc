\* Two archives of up to two entries, local or on a server.
SPECIFICATION ExtractionSpec
CONSTANTS
  MaxItems = 2
  MaxEntries = 2
  ArchiveSizes = {0, 4}
  Transfer = 3
INVARIANTS
  ExtractedUnlessReported
  MisreadExplained
CHECK_DEADLOCK FALSE
