SPECIFICATION DoctorSpec
CONSTANTS
  a = a
  t1 = t1
  t2 = t2
  p1 = p1
  p2 = p2
  Thread <- Threads
  Deployments <- OneOrTwoServers
  Server = {p1, p2}
  NoThread = NoThread
  NodeCount = 2
  Content <- OneContent
  File = {"f"}
  WriteFile = "mcp:write"
  HomeParent <- LoneParent
  HomeFile <- LoneFile
  Elder <- NoElder
  PayloadNode <- MCPayloadNode
  None = None
  Root = {"dir"}
  NoRoot = ""
  Calls <- SharingCalls
  MaxSnapshot = 3
  Damaged <- Broken
INVARIANT
  LinearChain
PROPERTIES
  AtomicTrail
  CallsReturn
  DoctorHeals
