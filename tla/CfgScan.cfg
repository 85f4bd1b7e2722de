SPECIFICATION Spec
CONSTANTS
  Jobs <- AllJobs
  MaxTexts = 2
  MaxConditions = 2
  MaxRules = 2
  MaxChars = 3
  MaxFrames = 2
INVARIANTS
  EveryRuleInPlace
PROPERTIES
  KeepsPromise
