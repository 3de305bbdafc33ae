SPECIFICATION Spec
CONSTANTS
  o1 = o1
  e1 = e1
  Req = {r1, r2, r3}
  Host = {h1, h2}
  Order <- Rules
  Each = {e1}
  Applies = {o1, e1}
  Rewrites <- Meddling
  Answers <- Served
  Brotli = TRUE
  None = None
  Budget = 1
CHECK_DEADLOCK FALSE
INVARIANTS HitRepeatsMiss MixNeedsOverlap
SYMMETRY Same
