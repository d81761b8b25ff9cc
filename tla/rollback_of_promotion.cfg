SPECIFICATION Spec
CONSTANTS
  a = a
  b = b
  NodeCount = 4
  Content <- MCContent
  File = {"f"}
  WriteFile = "mcp:write"
  HomeParent <- ChainParent
  HomeFile <- ChainFile
  Elder <- NoElder
  PayloadNode <- MCPayloadNode
  None = None
  Root = {"dir"}
  NoRoot = ""
  Calls <- PromoteUndoCalls
  MaxSnapshot = 4
CHECK_DEADLOCK FALSE
PROPERTIES
  RollbackAlwaysLands
