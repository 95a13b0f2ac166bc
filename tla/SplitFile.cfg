\* Up to five blocks of two bytes, so that a forward reader deletes blocks.
SPECIFICATION FairSpec
CONSTANTS
  BlockSize = 2
  MaxLength = 9
  MaxWrite = 3
  MaxRead = 4
INVARIANTS
  TypeOK
  InOrder
  WindowKept
PROPERTIES
  ReadReturns
  StreamSpec
CHECK_DEADLOCK FALSE
