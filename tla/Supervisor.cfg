SPECIFICATION CallerSpec
CONSTANTS
  c1 = c1
  c2 = c2
  Calls = {c1}
  Slots = 1
  MaxLines = 2
INVARIANTS
  RepliesInterpretable
PROPERTIES
  CallerReturns
  SlotsReturn
