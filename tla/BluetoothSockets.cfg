CONSTANTS
  t1 = t1
  t2 = t2
  c1 = c1
  c2 = c2
  Threads <- OneThread
  Ports <- TwoPorts
  Channels <- OneChannel
  MaxSockets = 3
  MaxWrappers = 3
  Limits = {"none", "zero", "some"}
  Connects = TRUE
  Dups = FALSE
SPECIFICATION Spec
INVARIANTS PortExclusive OneOwner NoOrphans OnlySocketErrors ServiceLeadsHome
CHECK_DEADLOCK FALSE
