\* A native operation of any kind, and a copy or a download of the web server.
SPECIFICATION FairSpec
CONSTANTS
  Actors = {"native", "web"}
  Offered <- MCOffered
  Buffer = 2
  Sizes = {0, 3}
INVARIANTS
  ResultExplained
PROPERTIES
  LoopEnds
CHECK_DEADLOCK FALSE
