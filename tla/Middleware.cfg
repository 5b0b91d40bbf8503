SPECIFICATION FairMiddlewareSpec
CONSTANTS
  Goroutines = {g1}
  Request = g1
  Scopes = {s1, s2}
  NoOne = NoOne
  NoScope = NoScope
  NestedMode = "strict"
  Savepoints = TRUE
  CallbackPanics = FALSE
  DefaultPolicy = TRUE
  ManualScopes = FALSE
  Chains <- TwoLayers
INVARIANTS
  MiddlewareTypeOK ReplyTellsCommit StatusPreventsCommit StatusPreserved PanicKeepsNothing BufferedUntilEnd
PROPERTIES
  RequestAnswered
CHECK_DEADLOCK FALSE
