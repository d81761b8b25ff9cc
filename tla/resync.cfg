SPECIFICATION Spec
CONSTANTS
  m = m
  n = n
  o = o
  a = a
  Node <- ThreeNodes
  Texts <- ThreeTexts
  Gone = Gone
  MaxSnapshot = 3
  PageCap = 2
INVARIANT
  CaughtUp
PROPERTY
  Arrives
CHECK_DEADLOCK FALSE
