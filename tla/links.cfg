SPECIFICATION Spec
CONSTANTS
  NodeCount = 3
  HomeParent <- ChapterParent
  FileOf <- ChapterFile
  Heading <- MCNode
  Rank <- MCRank
  Titles <- ChapterTitles
  Refs <- ChapterTexts
  ManualRefs <- ChapterManual
  AnyFile = ""
  NoId = 0
  MaxKept = 1
  Weight <- MCWeight
  Tokens <- MCTokens
  WeightMins = {0, 2}
  Depths = {0, 2}
  Limits = {1, 100}
  Budgets = {0, 1}
  DefaultBudget = 2
INVARIANTS
  LinkKept
  RelatedRight
PROPERTIES
  Healed
  FallsBack
