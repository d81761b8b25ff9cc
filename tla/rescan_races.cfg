SPECIFICATION Spec
CONSTANTS
  File = {f1, f2}
  Settle = 1
  MaxEdits = 3
  MaxClock = 3
  MaxRestarts = 1
  MaxFailures = 1
INVARIANT
  NoLostEdit
PROPERTIES
  ChangesArrive
  DeletionsArrive
