SPECIFICATION Spec
CONSTANTS
  c1 = c1
  c2 = c2
  Calls = {c1, c2}
  Slots = 1
  MaxLines = 0
SYMMETRY Symmetry
INVARIANTS
  SlotsCoverProcesses
