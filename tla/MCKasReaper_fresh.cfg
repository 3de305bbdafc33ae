SPECIFICATION FairReaperSpec
CONSTANTS
  i1 = i1
  i2 = i2
  o1 = o1
  Incarnation <- MCIncarnation
  Orphan <- MCOrphan
  Pid = {n1, n2, n3}
  NoPid = NoPid
  NoEntry = NoEntry
  Empty = Empty
  Vanished = Vanished
  Failed = Failed
  PidFd = TRUE
  Reuse = FALSE
INVARIANTS NoStaleEntry
PROPERTIES ImplementsExitReport NoZombieStays
CHECK_DEADLOCK FALSE
