SPECIFICATION Spec
CONSTANTS
  Node = {n1, n2}
  Hottest = 3
  AccessBoost = 2
  ColdThreshold = 2
  NotifyThreshold = 1
  ColdNotifyTTL = 2
  ColdNotifyLimit = 2
INVARIANT
  MarkedWasSent
PROPERTIES
  NotTwice
  ColdIsNotified
