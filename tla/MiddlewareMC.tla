--------------------------- MODULE MiddlewareMC ---------------------------
(* Instances of Middleware for TLC.                                         *)
EXTENDS Middleware

Layer(mode, statuses, tolerant) ==
  [mode |-> mode, rollbackOn |-> statuses, tolerant |-> tolerant]

\* Up to two layers: any outer one, and three inner ones that differ in what
\* they do to the transaction around them.
Outer == [mode : Transactional, rollbackOn : {{}, RollbackOn4xx5xx}, tolerant : BOOLEAN]
Inner == {Layer("on", {}, FALSE), Layer("on", RollbackOn4xx5xx, FALSE),
          Layer("off", RollbackOn5xx, FALSE)}
TwoLayers == {<<o>> : o \in Outer} \cup {<<o, i>> : o \in Outer, i \in Inner}
=============================================================================
