SPECIFICATION FairSpec
CHECK_DEADLOCK FALSE
CONSTANTS
  Procs = {p1, p2}
  Specs = {"v1", "v2"}
  Foreign = {"guard"}
  PersonDocs <- MixDocs
  Absent = Absent
  Invalid = Invalid
  NoReceipt = NoReceipt
  MaxCommands = 3
  MaxEdits = 1
INVARIANTS
  Recoverable
  UninstallRestores
PROPERTIES
  OnlyOursChanges
  RunsOnce
  CommandEnds
  LockGivenBack
