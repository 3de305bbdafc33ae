SPECIFICATION FairSpec
CONSTANTS
  Prog <- OneProg
  Config <- AllConfig
  File <- AskedFiles
  Inst = {1, 2, 3}
  Absent = Absent
  BadFile = BadFile
  NoInst = NoInst
  NoCmd = NoCmd
  Budget <- NoFaults
INVARIANTS LiveIsTracked OneCopy PanicNeedsEarlyClose
PROPERTIES StopIsAnswered ReloadIsTaken
CHECK_DEADLOCK FALSE
