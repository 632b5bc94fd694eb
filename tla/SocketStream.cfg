CONSTANTS
  s1 = s1
  s2 = s2
  r1 = r1
  r2 = r2
  Sockets <- OneSocket
  Readers <- OneReader
  BufSizes <- Sizes
  Timeouts = {"none", "zero", "some"}
  ShutModes = {"RD", "WR", "RDWR"}
  MaxSent = 3
SPECIFICATION FairSpec
INVARIANTS TypeOK StreamInOrder NoLostWakeup ResetMeansAllRead
PROPERTIES CloseEndsRecv ImplementsByteStream
CHECK_DEADLOCK FALSE
