----------------------------- MODULE GormAdapter -----------------------------
(***************************************************************************)
(* Managed executions over the GORM adapter with savepoints, down to the   *)
(* writes of the callbacks.  All handles of a root are one connection: a   *)
(* nested scope is a savepoint in the log of that connection, its commit   *)
(* does nothing, and its rollback cuts the log back to the savepoint.      *)
(*                                                                         *)
(* A write is named by the scope whose callback makes it (bounds: one      *)
(* write per callback, MaxWrites in all).  It goes to CurrentHandle, which *)
(* is the handle of the innermost open scope, whoever opened it, or,       *)
(* without an active root, the client itself.                              *)
(***************************************************************************)
EXTENDS Manager

CONSTANT MaxWrites

ASSUME MaxWritesAssumption == MaxWrites \in Nat

VARIABLES
  log,       \* the open transaction of the root: savepoints and writes
  durable,   \* the writes that the database keeps
  under,     \* history: the scopes that were open when a write was made
  raced,     \* history: writes made while the database was ahead of the stack
  outside    \* history: writes that went to the client

dataVars == <<log, durable, under, raced, outside>>
gormVars == <<managerVars, dataVars>>

\* Every savepoint has a name of its own (BadSavepoint: only that of its label).
BadSavepoint(s) == [kind |-> "savepoint", of |-> NoScope]
Savepoint(s) == [kind |-> "savepoint", of |-> s]
Write(s) == [kind |-> "write", of |-> s]

GormTypeOK ==
  /\ log \in Seq([kind : {"savepoint", "write"}, of : Scopes])
  /\ durable \subseteq Scopes /\ raced \subseteq Scopes /\ outside \subseteq Scopes
  /\ under \in [Scopes -> SUBSET Scopes]

GormInit ==
  /\ ManagerInit
  /\ log = <<>> /\ durable = {} /\ raced = {} /\ outside = {}
  /\ under = [s \in Scopes |-> {}]

Writes(entries) == {s \in Scopes : Write(s) \in ToSet(entries)}

\* ROLLBACK TO keeps the savepoint and what precedes it.
Place(e) == CHOOSE i \in DOMAIN log : log[i] = e
BadBackTo(s) == SelectSeq(log, LAMBDA e : e # Savepoint(s))
BackTo(s) == SubSeq(log, 1, Place(Savepoint(s)))

-----------------------------------------------------------------------------
(* The calls of the adapter; the sql.Tx below it as in SqlAdapter.         *)

GormBegin(g) ==
  /\ Calling(g, "beginRoot")
  /\ \/ ~ctxDone /\ Answer(g, {}, "open", "publish")
     \/ Answer(g, {"AdapterError"}, "none", "after")
  /\ UNCHANGED dataVars

\* A savepoint that fails, whatever the reason, is answered as a database that
\* cannot nest.
GormBeginNested(g) ==
  /\ Calling(g, "beginNested")
  /\ \/ /\ Savepoints /\ backend[Root] = "open"
        /\ Answer(g, {}, "open", "publish")
        /\ log' = Append(log, Savepoint(op[g].scope))
     \/ Answer(g, {"NestedTxUnsupported"}, "none", "after") /\ UNCHANGED log
  /\ UNCHANGED <<durable, under, raced, outside>>

\* What the database does with the log when the transaction ends.
Ends(status) ==
  /\ log' = <<>>
  /\ durable' = IF status = "committed" THEN durable \cup Writes(log) ELSE durable

BadGormCommit(g) ==
  /\ Calling(g, "commit")
  /\ Answer(g, {}, "committed", "publish") /\ Ends("committed")
  /\ UNCHANGED <<under, raced, outside>>
GormCommit(g) ==
  LET s == op[g].scope IN
  /\ Calling(g, "commit")
  /\ \/ /\ scope[s].depth > 0
        /\ Answer(g, {}, "committed", "publish") /\ UNCHANGED <<log, durable>>
     \/ /\ scope[s].depth = 0 /\ backend[s] = "open" /\ ~ctxDone
        /\ \/ Answer(g, {}, "committed", "publish") /\ Ends("committed")
           \/ \E end \in {"committed", "rolledBack"} :
                Answer(g, {"AdapterError"}, end, "after") /\ Ends(end)
     \/ /\ scope[s].depth = 0 /\ (backend[s] # "open" \/ ctxDone)
        /\ Answer(g, {"AdapterError"}, backend[s], "after")
        /\ UNCHANGED <<log, durable>>
  /\ UNCHANGED <<under, raced, outside>>

\* gorm.DB keeps its first error: after a failed commit a rollback on the same
\* handle answers that error although it is done.
RollbackAnswers(g) ==
  IF "AdapterError" \in op[g].commitErr THEN {{"AdapterError"}} ELSE {{}, {"AdapterError"}}

GormRollback(g) ==
  LET s == op[g].scope IN
  /\ Calling(g, "rollback")
  /\ \/ /\ scope[s].depth > 0 /\ backend[Root] = "open"
        /\ Answer(g, {}, "rolledBack", "publish")
        /\ log' = BackTo(s)
     \/ /\ scope[s].depth > 0
        /\ Answer(g, {"AdapterError"}, backend[s], "publish") /\ UNCHANGED log
     \/ /\ scope[s].depth = 0 /\ backend[s] = "open"
        /\ \E err \in RollbackAnswers(g) : Answer(g, err, "rolledBack", "publish")
        /\ log' = <<>>
     \/ /\ scope[s].depth = 0 /\ backend[s] # "open"
        /\ Answer(g, {"AdapterError"}, backend[s], "publish") /\ UNCHANGED log
  /\ UNCHANGED <<durable, under, raced, outside>>

\* The database ends a transaction by itself: that of the root, or one that a
\* panicking begin has left behind and that no callback has written to.
RootOpen == \E s \in Scopes :
  scope[s].status # "none" /\ scope[s].depth = 0 /\ backend[s] = "open"
GormAborts ==
  /\ BackendAborts
  /\ log' = IF RootOpen' THEN log ELSE <<>>
  /\ UNCHANGED <<durable, under, raced, outside>>

-----------------------------------------------------------------------------
(* The writes of the callbacks.                                            *)

\* The database is ahead of the stack: it has a savepoint that the UnitOfWork
\* has not published yet, or has rolled back a scope that is still on the stack.
DatabaseAhead == \E g \in Goroutines :
  op[g].pc = "publish" /\ op[g].kind \in {"beginNested", "rollback"}

InTransaction == rootStatus = "active" /\ stack # <<>>

Written == outside \cup {s \in Scopes : under[s] # {}}

\* A handle of a transaction that is over refuses the write.
WriteAny(g) ==
  LET s == Running(g).scope IN
  /\ At(g, "fn") /\ op[g].pc = "idle"
  /\ s \notin Written /\ Cardinality(Written) < MaxWrites
  /\ markCancelledIfNeeded
  /\ \/ /\ InTransaction /\ backend[Root] = "open"
        /\ log' = Append(log, Write(s))
        /\ under' = [under EXCEPT ![s] = ToSet(stack)]
        /\ raced' = IF DatabaseAhead THEN raced \cup {s} ELSE raced
        /\ UNCHANGED <<durable, outside>>
     \/ /\ ~InTransaction
        /\ durable' = durable \cup {s}
        /\ outside' = outside \cup {s}
        /\ UNCHANGED <<log, under, raced>>
  /\ UNCHANGED <<rootStatus, stack, scope, ctxDone, opMu, op, backend, frames, manual>>

-----------------------------------------------------------------------------

GormCall(g) == GormBegin(g) \/ GormBeginNested(g) \/ GormCommit(g) \/ GormRollback(g)

\* The steps of UnitOfWork and of its environment that touch no data.
Plain(g) ==
  \/ Enter(g) \/ RunBefore(g) \/ Publish(g) \/ Finish(g) \/ Compensate(g)
  \/ CallbackPanic(g)
PlainEnvironment ==
  \/ Query \/ Cancel
  \/ \E reason \in {"none", "user"} : SetRollbackOnly(reason)

GormNext ==
  \/ \E g \in Goroutines : GormCall(g) /\ UNCHANGED <<frames, manual>>
  \/ GormAborts /\ UNCHANGED <<frames, manual>>
  \/ \E g \in Goroutines : WriteAny(g)
  \/ /\ PlainEnvironment \/ \E g \in Goroutines : Plain(g)
     /\ UNCHANGED <<frames, manual, dataVars>>
  \/ /\ \E g \in Goroutines : Execute(g) \/ ManualCall(g) \/ ManualReturn(g)
     /\ UNCHANGED dataVars

GormSpec == GormInit /\ [][GormNext]_gormVars

-----------------------------------------------------------------------------
(* Properties.                                                             *)

\* The adapter keeps to what the manager expects of any adapter.
WithinContract == ManagerSpec

\* The database keeps a write if and only if it commits the transaction and
\* every nested scope that was open when the write was made has committed: a
\* rollback to a savepoint takes back its own scope, and all of it, and leaves
\* the work around it.  (Writes that raced with the begin or the rollback of a
\* scope, and those that did not go to the transaction, are the exceptions.)
KeepsExactly == \A s \in Scopes \ raced :
  under[s] # {} =>
    (s \in durable <=> \A t \in under[s] :
       IF scope[t].depth = 0 THEN backend[t] = "committed"
                             ELSE scope[t].status = "committed")

\* A callback's write misses the transaction only after a failing rollback has
\* ended the execution around it.
WritesAreInside == outside # {} => rootStatus = "failed"

\* While the transaction is open the savepoint of every open scope is still in
\* it, under a name of its own and in the order of the stack: a rollback never
\* names one that is gone.  (An emulated scope has none.)
SavepointsStand ==
  stack # <<>> /\ backend[Root] = "open" =>
    LET nested == {i \in 2 .. Len(stack) : ~Soft(stack[i])} IN
    /\ IsInjective(log)
    /\ \A i \in nested : Savepoint(stack[i]) \in ToSet(log)
    /\ \A i, j \in nested :
         i < j => Place(Savepoint(stack[i])) < Place(Savepoint(stack[j]))
=============================================================================
