SPECIFICATION MaintenanceSpec
CHECK_DEADLOCK FALSE
CONSTANTS
  HighFirst = 10
  HighLast = 12
  LowFirst = 13
  LowLast = 15
  Astral = 20
  MaxPortedRanges = 2
  NestedAtoms <- NestedOnes
  BranchingAtoms = {}
  ReferenceAtoms = {}
  BrokenAtoms = {}
  MaxPatternLen = 4
  MaxBranches = 2
  TextFields = {"content", "tool_args"}
  ToolFields = {"tool_args", "tool_name", "tool_input"}
  SkippedStatuses = {"draft"}
  BlockedMaturities = {"test"}
  ExemptTargets = {"skill"}
  Denylist = {}
  DenylistApplied = FALSE
  CompoundFloor = 2
  Checkouts <- SmallCheckouts
  SweepSlow <- SlowTexts
  ReplaySlow <- ReplayTexts
  MaxEdits = 1
  MaxSources = 2
  MaxSweeps = 1
  SurfaceSets = {{"OUT", "IN", "CFG"}}
  HeldBack = {}
  ContentFree <- BlankTexts
  Payloads <- SmallPayloads
  Nothing = Nothing
  RuleLists <- TheRuleLists
  CorpusLists <- TheCorpusLists
  Workers = 2
  EmptyText = ""
  U95 <- TheU95
  Exact <- TheExact
  AdviseMax = 97
  DenyMax = 85
  Unresolved <- TheUnresolved
  MaxChanges = 1
  MaxCalls = 1
  NoReport = NoReport
  Figures <- TheFigures
  Revs <- TheRevs
  RuleFiles <- TheRuleFiles
  CorpusFiles <- TheCorpusFiles
  Worlds <- TheWorlds
  AnyScores <- TheScores
  Tolerance = 5
  MinAgreeing = 2
  MaxKills = 1
  MaxTaken = 1
INVARIANTS
  NoUntimedPatternRuns
  CorrectionsSurvive
  FlatIsFaithful
  BindingOnlyLoses
  CountsAreExact
  AdmissionIsEarned
  VerdictIsExact
  PrepareRepairs
