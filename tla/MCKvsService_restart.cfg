SPECIFICATION FairSpec
CONSTANTS
  Req = {r1}
  Worker = {1, 2}
  Op = {o1}
  Child = {c1, c2}
  Config <- OneVersion
  Ver = {1}
  NoCfg = NoCfg
  NoChild = NoChild
  Budget <- OneRestart
INVARIANTS PreparingCovers NoStuckLoading OneChild OnceFirst
PROPERTIES Settles
CHECK_DEADLOCK FALSE
