SPECIFICATION Spec
CONSTANTS
  Rules = {1, 2}
  Events <- AdviceEvents
  MaxDepth = 1
  MaxNodes = 4
INVARIANTS
  CompletedAdviceIsGiven
