SPECIFICATION Spec
CONSTANTS
  Procs = {p1, p2}
  Sources <- TheSources
  AllRules <- TheRules
  Bundles <- TheBundles
  Directories <- TheDirectories
  Corpora <- TheCorpora
  MaxCount <- TheMaxCount
  U95 <- TheU95
  AdviseMax = 2
  DenyMax = 1
  Unresolved = {}
  MaxTrials = 2
  NoEvidence = NoEvidence
  NoReport = NoReport
  MaxEvents = 1
  MaxActive = 2
INVARIANTS
  LaneIsEarned
  PromotionIsExplicit
  PromotionHoldsWhereChecked
CHECK_DEADLOCK FALSE
