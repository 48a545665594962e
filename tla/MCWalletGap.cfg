SPECIFICATION Spec
CONSTANTS
  Identity = "identity"
  Stranger = "stranger"
  NoFile = NoFile
  Recipients = {"identity"}
  Procs = {p1}
  Paths = {a, b}
  ROOT_HISTORY = 2
  OtherKinds = {"mint_from_xburn"}
  StrayIndexes = {}
  MaxNotes = 2
  MaxFaults = 0
INVARIANTS
  PathsMatchTheTree
CHECK_DEADLOCK FALSE
