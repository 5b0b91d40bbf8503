SPECIFICATION ManagerSpec
CONSTANTS
  Goroutines = {g1}
  Scopes = {s1, s2}
  NoOne = NoOne
  NoScope = NoScope
  NestedMode = "strict"
  Savepoints = TRUE
  CallbackPanics = FALSE
  DefaultPolicy = TRUE
  ManualScopes = FALSE
INVARIANTS
  RootRollbackAttempted
