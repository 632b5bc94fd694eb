CONSTANTS
  t1 = t1
  t2 = t2
  c1 = c1
  c2 = c2
  Threads <- OneThread
  Ports <- OnePort
  Channels <- TwoChannels
  MaxSockets = 3
  MaxWrappers = 3
  Limits = {"none"}
  Connects = TRUE
  Dups = TRUE
SPECIFICATION FairSpec
PROPERTIES ClientEndsAccept SleepEnds
CHECK_DEADLOCK FALSE
