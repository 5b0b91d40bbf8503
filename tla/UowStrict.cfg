SPECIFICATION Spec
CONSTANTS
  Goroutines = {g1, g2}
  Scopes = {s1, s2, s3}
  NoOne = NoOne
  NoScope = NoScope
  NestedMode = "strict"
  Savepoints = TRUE
  CallbackPanics = FALSE
SYMMETRY Symmetry
INVARIANTS
  TypeOK ScopesNest FinalizesTop HonestOutcome NoOrphan ResultTellsOutcome
PROPERTIES
  TerminalIsFinal ImplementsRootTransaction
