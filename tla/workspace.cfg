SPECIFICATION Spec
CONSTANTS
  a = a
  b = b
  NodeCount = 6
  Content <- MCContent
  File = {"f", "g"}
  WriteFile = "mcp:write"
  HomeParent <- MCHomeParent
  HomeFile <- MCHomeFile
  Elder <- MCElder
  PayloadNode <- MCPayloadNode
  None = None
  DoubleStar = DoubleStar
  Star = "*"
  NoTemp = NoTemp
  Conflict = Conflict
  Path <- MCPath
  Versions <- MCVersions
  Oversize <- MCOversize
  Absent = Absent
  Malformed = Malformed
  Configs <- MCConfigs
  Starts <- MCStarts
  Workers = 2
  DefaultTemp = 1
  PinTemps = {0}
  MaxCalls = 3
  TokenCount <- MCTokenCount
  Budgets = {0, 2}
  Depths = {0, 1, 9}
  Anchors = {1, 2}
  Asks <- MCAsks
  MaxDepth = 5
  TreeDepth = 5
  DepthCap = 5
  SearchLimit = 1
  TopTemp = 2
CHECK_DEADLOCK FALSE
INVARIANTS
  ChoiceKept
  FetchFits
  FetchSees
PROPERTIES
  StoredIsCompiled
  TempsAsSaid
  CompileReturns
