SPECIFICATION Spec
CONSTANTS
  Sender = {s1, s2}
  Reader = reader
  OwnerCloses = FALSE
  None = None
  MaxOut = 3
  MaxIn = 1
  Budget = 1
CHECK_DEADLOCK FALSE
INVARIANT FramesAreWhole
