SPECIFICATION Spec
CONSTANTS
  Rules = {1, 2, 3}
  NumLeaves = 3
  Jobs <- AllJobs
  MaxRules = 2
  MaxLeaves = 2
  MaxChars = 3
  MaxFrames = 3
INVARIANTS
  TypeOK
  CompleteLeafIsExhaustive
  FinishedRowsAreWhole
  HonestStreamAccepted
  LateCancelHarmless
  AcceptedIsRowMajor
PROPERTIES
  KeepsPromise
