SPECIFICATION Spec
CONSTANTS
  a = a
  b = b
  NodeCount = 3
  Content <- MCContent
  File = {"f", "g"}
  WriteFile = "mcp:write"
  HomeParent <- PairParent
  HomeFile <- PairFile
  Elder <- NoElder3
  PayloadNode <- MCPayloadNode
  None = None
  Root = {"dir"}
  NoRoot = ""
  Calls <- PruneCalls
  MaxSnapshot = 3
CHECK_DEADLOCK FALSE
INVARIANTS
  RestoreEverywhere
