SPECIFICATION ManagerSpec
CONSTANTS
  Goroutines = {g1, g2}
  Scopes = {s1, s2, s3}
  NoOne = NoOne
  NoScope = NoScope
  NestedMode = "emulated"
  Savepoints = FALSE
  CallbackPanics = FALSE
  DefaultPolicy = FALSE
  ManualScopes = TRUE
SYMMETRY Symmetry
INVARIANTS
  IInv EmulatedRollbackSticks AllOrNothing OpenOnlyIfRefused
PROPERTIES
  DoomIsSticky
