SPECIFICATION PublisherSpec
CONSTANTS
  perURI <- TwoWindows
  Timer = {t1, t2, t3}
  NoTimer = NoTimer
  MaxTouches = 4
INVARIANTS
  NoDeadEntry
  NoTouchLost
PROPERTY Delivered
CHECK_DEADLOCK FALSE
