SPECIFICATION Spec
CONSTANTS
  Window = 1
  Grace = 1
  Chunk = 2
  MaxSent <- MostlyDown
  Budget = 1
  None = None
CHECK_DEADLOCK FALSE
INVARIANTS BytesIntact
PROPERTY EndIsShared
