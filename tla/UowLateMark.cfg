SPECIFICATION Spec
CONSTANTS
  Goroutines = {g1}
  Scopes = {s1, s2}
  NoOne = NoOne
  NoScope = NoScope
  NestedMode = "strict"
  Savepoints = TRUE
  CallbackPanics = FALSE
PROPERTIES
  RollbackOnlyBlocksCommit
