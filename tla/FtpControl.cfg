SPECIFICATION FairSpec
CONSTANTS
  Length = 2
  MaxCalls = 5
  Requests <- MCRequests
INVARIANTS
  TypeOK
  SuccessIsReal
  WholeFileMoved
PROPERTIES
  ConnectedExplained
  EveryCallReturns
CHECK_DEADLOCK FALSE
