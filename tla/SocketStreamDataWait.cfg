CONSTANTS
  s1 = s1
  s2 = s2
  r1 = r1
  r2 = r2
  Sockets <- OneSocket
  Readers <- OneReader
  BufSizes <- Sizes
  Timeouts = {}
  ShutModes = {}
  MaxSent = 3
SPECIFICATION FairSpec
PROPERTIES DataEndsRecv
CHECK_DEADLOCK FALSE
