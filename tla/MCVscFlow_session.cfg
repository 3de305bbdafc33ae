SPECIFICATION Spec
CONSTANTS
  SinkHigh = 2
  SinkCap = 2
  ChanHigh = 1
  LinkCap = 1
  MaxDown = 3
  MaxUp = 2
  Budget = 1
CHECK_DEADLOCK FALSE
INVARIANTS PauseIsOwed ErrorStandsAlone
PROPERTIES IsByteStream GoroutinesEnd
