SPECIFICATION Spec
CONSTANTS
  c1 = c1
  c2 = c2
  c3 = c3
  t1 = t1
  t2 = t2
  d1 = d1
  d2 = d2
  Asks <- Workers
  Conn = {c1, c2, c3}
  Client = {s1}
  Token = {t1, t2}
  Device = {d1, d2}
  None = None
  MaxTunnels = 2
  MaxSessions = 1
  MaxPerTunnel = 1
  MaxMiss = 1
  Budget = 2
CHECK_DEADLOCK FALSE
INVARIANTS NoStrayChannel OneChannelPerDevice CountMatches LiveIsCovered
PROPERTIES SessionsEnd
