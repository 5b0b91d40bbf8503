--------------------------- MODULE RootTransaction ---------------------------
(***************************************************************************)
(* What a UnitOfWork promises about its root transaction, without locks,   *)
(* callbacks or an adapter: one root per UnitOfWork; nested scopes open    *)
(* and close above it; a doomed root never commits; a commit or a rollback *)
(* of the root happens only when nothing is open above it, and is final.   *)
(***************************************************************************)
EXTENDS Naturals

VARIABLES
  root,     \* "none", "active", "committed", "rolledBack" or "failed"
  open,     \* the number of nested scopes above the root
  doomed    \* the root can only be rolled back

vars == <<root, open, doomed>>

TypeOK ==
  /\ root \in {"none", "active", "committed", "rolledBack", "failed"}
  /\ open \in Nat
  /\ doomed \in BOOLEAN

Init == root = "none" /\ open = 0 /\ doomed = FALSE

Begin == root = "none" /\ root' = "active" /\ UNCHANGED <<open, doomed>>

OpenNested ==
  /\ root = "active"
  /\ open' = open + 1
  /\ doomed' \in {doomed, TRUE}
  /\ UNCHANGED root

CloseNested ==
  /\ root = "active" /\ open > 0
  /\ open' = open - 1
  /\ doomed' \in {doomed, TRUE}
  /\ UNCHANGED root

Doom == root = "active" /\ doomed' = TRUE /\ UNCHANGED <<root, open>>

End(status) == root' = status /\ open' = 0 /\ doomed' = FALSE

Commit == root = "active" /\ open = 0 /\ ~doomed /\ End("committed")
Rollback == root = "active" /\ open = 0 /\ End("rolledBack")

\* A failing rollback, of the root or of a nested scope, ends everything.
Fail == root = "active" /\ End("failed")

Next == Begin \/ OpenNested \/ CloseNested \/ Doom \/ Commit \/ Rollback \/ Fail

Spec == Init /\ [][Next]_vars
=============================================================================
