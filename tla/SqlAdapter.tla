----------------------------- MODULE SqlAdapter -----------------------------
(***************************************************************************)
(* A UnitOfWork over the database/sql adapter: the adapter actions that    *)
(* UnitOfWork leaves open, as adapters/sql and the sql.Tx below it answer. *)
(*                                                                         *)
(* A sql.Tx holds a connection of the pool until it is done, and it is     *)
(* done exactly when the transaction has ended in the database: a driver   *)
(* that fails to commit or to roll back loses the transaction with the     *)
(* connection.  So backend, of the scope of the root, is the sql.Tx too.   *)
(***************************************************************************)
EXTENDS UnitOfWork

\* Capabilities: no nested transactions and no savepoints.
CanNest == FALSE
ASSUME SqlAssumption == Savepoints = CanNest

-----------------------------------------------------------------------------
(* The calls of the adapter.                                               *)

\* The context that Begin hands to BeginTx, which ends the tx when it is done.
BadTxContextDone == FALSE
TxContextDone == ctxDone

\* A client or an isolation level of the wrong kind, or the driver, may refuse.
SqlBegin(g) ==
  /\ Calling(g, "beginRoot")
  /\ \/ ~TxContextDone /\ Answer(g, {}, "open", "publish")
     \/ Answer(g, {"AdapterError"}, "none", "after")

\* (BadSqlCommit takes ErrTxDone for a commit that was done before.)
BadSqlCommit(g) ==
  LET s == op[g].scope IN
  /\ Calling(g, "commit")
  /\ \/ backend[s] = "open" /\ ~TxContextDone /\ Answer(g, {}, "committed", "publish")
     \/ backend[s] # "open" /\ Answer(g, {}, backend[s], "publish")
     \/ backend[s] = "open" /\ Answer(g, {"AdapterError"}, "open", "after")

\* tx.Commit: ErrTxDone when the tx is over; the context's error, and nothing
\* is done, when that is done; otherwise the tx ends, one way or the other.
SqlCommit(g) ==
  LET s == op[g].scope IN
  /\ Calling(g, "commit")
  /\ \/ /\ backend[s] = "open" /\ ~TxContextDone
        /\ \/ Answer(g, {}, "committed", "publish")
           \/ \E end \in {"committed", "rolledBack"} :
                Answer(g, {"AdapterError"}, end, "after")
     \/ /\ backend[s] # "open" \/ TxContextDone
        /\ Answer(g, {"AdapterError"}, backend[s], "after")

\* tx.Rollback: ErrTxDone when the tx is over; otherwise the tx ends, also
\* when the driver answers an error.
BadSqlRollback(g) ==
  LET s == op[g].scope IN
  /\ Calling(g, "rollback")
  /\ \/ /\ backend[s] = "open" /\ ~ctxDone
        /\ \E err \in {{}, {"AdapterError"}} : Answer(g, err, "rolledBack", "publish")
     \/ /\ backend[s] # "open" \/ ctxDone
        /\ Answer(g, {"AdapterError"}, backend[s], "publish")
SqlRollback(g) ==
  LET s == op[g].scope IN
  /\ Calling(g, "rollback")
  /\ \/ /\ backend[s] = "open"
        /\ \E err \in {{}, {"AdapterError"}} : Answer(g, err, "rolledBack", "publish")
     \/ backend[s] # "open" /\ Answer(g, {"AdapterError"}, backend[s], "publish")

\* awaitDone: a goroutine of each sql.Tx that rolls it back.
AwaitDone == TxContextDone /\ BackendAborts

-----------------------------------------------------------------------------

SqlCall(g) == SqlBegin(g) \/ AdapterBeginNested(g) \/ SqlCommit(g) \/ SqlRollback(g)

SqlProgress(g) ==
  RunBefore(g) \/ SqlCall(g) \/ Publish(g) \/ Finish(g) \/ Compensate(g)

SqlNext ==
  \/ Query \/ Cancel \/ AwaitDone
  \/ \E reason \in {"none", "user"} : SetRollbackOnly(reason)
  \/ \E g \in Goroutines :
       CallAny(g) \/ Enter(g) \/ SqlProgress(g) \/ CallbackPanic(g) \/ Return(g)

SqlSpec == Init /\ [][SqlNext]_vars

\* As in UnitOfWork; and the goroutine of a sql.Tx runs when its context ends.
FairSqlSpec ==
  /\ SqlSpec
  /\ WF_vars(AwaitDone)
  /\ \A g \in Goroutines :
       WF_vars(SqlProgress(g)) /\ WF_vars(Return(g)) /\ SF_vars(Enter(g))

-----------------------------------------------------------------------------
(* Properties.                                                             *)

\* The adapter keeps to what UnitOfWork expects of any adapter: a UnitOfWork
\* over it behaves as one of UnitOfWork's.
WithinContract == Spec

\* When the root has ended its transaction is over in the database and the
\* connection back in the pool, also when the execution counts as failed
\* because Rollback answered ErrTxDone for a tx that had ended by itself.
\* (Over an adapter that may leave the tx open this does not hold.)
EndedRootHoldsNothing == \A s \in Scopes :
  scope[s].status \in Terminal /\ scope[s].depth = 0 => backend[s] # "open"

\* When the context is done no transaction stays open for ever, not even one
\* that a panicking AfterBegin has left where nobody can end it.
ContextEndsAll == ctxDone ~> \A s \in Scopes : backend[s] # "open"
=============================================================================
