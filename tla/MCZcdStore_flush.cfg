SPECIFICATION Spec
CONSTANTS
  Device = {s1, s2}
  Mid = {m1}
  App = {a1, a2}
  Setting = {k1}
  Text = {x1}
  Request = {q1, q2}
  None = None
  Nameless = Nameless
  Budget <- ThreeRequests
CHECK_DEADLOCK FALSE
INVARIANTS IndexAgrees ExitKeepsEdits
PROPERTIES EditsReachDisk
