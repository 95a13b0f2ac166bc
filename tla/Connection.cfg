\* Two connections of any two kinds, two keep-alive threads.
SPECIFICATION FairSpec
CONSTANTS
  Kinds = {"FTP", "HTTP", "SFTP"}
  MaxClients = 2
  KeepAlives = {k1, k2}
  MaxFiles = 2
  Second = 2
  Threshold = 3
INVARIANTS
  MisuseExplained
  OneRequestAtATime
  SessionKept
  ListingCurrent
PROPERTIES
  KeepAliveEnds
