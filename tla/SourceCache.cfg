SPECIFICATION Spec
CONSTANTS
  Procs = {p1, p2}
  Lock <- TheLock
  Path <- ThePath
  Fold <- TheFold
  NeverExtract <- TheNever
  Declared <- TheDeclared
  License <- TheLicense
  Archives <- TheArchives
  MaxCalls = 2
  MaxTouches = 1
INVARIANTS
  WholeOrAbsent
  NothingExcluded
  AnswersAreRight
  FailuresHaveReasons
