SPECIFICATION GormSpec
CONSTANTS
  Goroutines = {g1, g2}
  Scopes = {s1, s2, s3}
  NoOne = NoOne
  NoScope = NoScope
  NestedMode = "strict"
  Savepoints = TRUE
  CallbackPanics = FALSE
  DefaultPolicy = TRUE
  ManualScopes = FALSE
  MaxWrites = 1
SYMMETRY Symmetry
INVARIANTS
  GormTypeOK CallbackHasScope KeepsExactly WritesAreInside SavepointsStand
PROPERTIES
  WithinContract
