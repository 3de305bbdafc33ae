SPECIFICATION Spec
CONSTANTS
  c1 = c1
  c2 = c2
  c3 = c3
  m1 = m1
  m2 = m2
  Conn = {c1, c2, c3}
  Asks <- Clients
  Slow = {c1}
  Device = {s1}
  Mid = {m1, m2}
  None = None
  Budget = 1
CHECK_DEADLOCK FALSE
INVARIANTS DataStaysInPair GhostNeedsTimer
PROPERTIES BothLearn
