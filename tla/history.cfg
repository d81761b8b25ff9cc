SPECIFICATION Spec
CONSTANTS
  a = a
  b = b
  NodeCount = 4
  Content <- MCContent
  File = {"f"}
  WriteFile = "mcp:write"
  HomeParent <- TwistedParent
  HomeFile <- ChainFile
  Elder <- NoElder
  PayloadNode <- MCPayloadNode
  None = None
  Root = {"dir"}
  NoRoot = ""
  Calls <- AllCalls
  MaxSnapshot = 4
CHECK_DEADLOCK FALSE
INVARIANTS
  TypeOK
  UniqueCursor
  Rooted
  StepReversible
  RestoreExact
  NetChangeExact
PROPERTIES
  LogRefined
  RollbackLands
SYMMETRY ContentSymmetry
