SPECIFICATION RegistrySpec
CONSTANTS
  Kvs = {k1}
  Svc = {s1, s2}
  Configured <- Same
  Pid = {p1, p2}
  Handler = {h1}
  Main = main
  PID1 = init
  Elsewhere = elsewhere
  None = None
  Limit <- Generations
SYMMETRY Symmetry
CHECK_DEADLOCK FALSE
INVARIANTS RecordedOrLost NoOrphanAfterBoot
PROPERTIES OnlyReuseMisleads
