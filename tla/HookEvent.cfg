SPECIFICATION Spec
CONSTANTS
  Rules = {1, 2}
  Events <- SomeEvents
  MaxDepth = 1
  MaxNodes = 4
INVARIANTS
  SilenceMeansChecked
  DenyIsExact
  UnfinishedDenyAsks
  LanesBoundPower
  NoStringLost
PROPERTIES
  EventIsAnswered
