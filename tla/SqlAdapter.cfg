SPECIFICATION FairSqlSpec
CONSTANTS
  Goroutines = {g1, g2}
  Scopes = {s1, s2}
  NoOne = NoOne
  NoScope = NoScope
  NestedMode = "strict"
  Savepoints = FALSE
  CallbackPanics = TRUE
INVARIANTS
  EndedRootHoldsNothing
PROPERTIES
  WithinContract CallsReturn ContextEndsAll
