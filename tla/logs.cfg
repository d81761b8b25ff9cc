SPECIFICATION Spec
CONSTANTS
  Goroutine = {g1, g2}
  Size = {1, 3}
  MaxFileSize = 2
  BufferSize = 2
  None = None
  MaxRecord = 3
  MaxFailures = 1
  MaxCrashes = 1
CHECK_DEADLOCK FALSE
INVARIANTS
  ReadsInOrder
  TailKept
  MissingTold
SYMMETRY GoroutineSymmetry
