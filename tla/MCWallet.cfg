SPECIFICATION Spec
CONSTANTS
  Identity = "identity"
  Stranger = "stranger"
  NoFile = NoFile
  Recipients = {"identity", "stranger"}
  Procs = {p1}
  Paths = {a, b}
  ROOT_HISTORY = 1
  OtherKinds = {"transfer", "cpi"}
  StrayIndexes = {0}
  MaxNotes = 3
  MaxFaults = 1
INVARIANTS
  TypeOK
  SecretsAreKept
  DiscoveredNotesAreReal
  PathsMatchLegibleTree
PROPERTIES
  SentNotesAreFound
  OwnNotesAreSpent
CHECK_DEADLOCK FALSE
