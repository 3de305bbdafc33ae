SPECIFICATION FairSpec
CONSTANTS
  Prog <- TwoProg
  Config <- AllConfig
  File <- OnceFiles
  Inst = {1, 2, 3, 4, 5}
  Absent = Absent
  BadFile = BadFile
  NoInst = NoInst
  NoCmd = NoCmd
  Budget <- OneEach
INVARIANTS NothingStrays DepsRunFirst OnceRunsOnce
PROPERTIES DependentStarts KeptUp
CHECK_DEADLOCK FALSE
