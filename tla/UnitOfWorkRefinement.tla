------------------------ MODULE UnitOfWorkRefinement ------------------------
(***************************************************************************)
(* What every step of UnitOfWork keeps, and the proof that it implements   *)
(* RootTransaction.  Only a publication changes the root, the stack or a   *)
(* scope; every other step is quiet, and at most dooms the root.           *)
(***************************************************************************)
EXTENDS UnitOfWorkProofs

\* The mark belongs to an active root.
MarkNeedsRoot == rollbackOnly => rootStatus = "active"

\* A step that publishes nothing.
Quiet ==
  /\ UNCHANGED <<rootStatus, stack, scope>>
  /\ rollbackOnly => rollbackOnly'
  /\ rollbackOnly' => rollbackOnly \/ rootStatus = "active"
  /\ rollbackReason # "none" => rollbackReason' = rollbackReason
  /\ CommittingRoot' => CommittingRoot \/ ~rollbackOnly
  /\ rootStatus \in Terminal => BackendAborts \/ UNCHANGED backend

\* Whoever is between its checks and its publication has a root that is not
\* finished, and alone.
LEMMA InsideFacts ==
  ASSUME IInv, NEW g \in Goroutines, op[g].pc \in {"before", "adapter", "publish"},
         op[g].kind \in BeginKind \cup FinalizeKind
  PROVE  /\ rootStatus \notin Terminal
         /\ op[g].kind = "beginRoot" => rootStatus = "none"
         /\ op[g].kind \in {"beginNested", "commit", "rollback"} => rootStatus = "active"
         /\ \A h \in Goroutines \ {g} : op[h].pc \notin Inside
<1> USE DEF IInv, TypeOK
<1>1. \A h \in Goroutines \ {g} : op[h].pc \notin Inside
  BY DEF Exclusive, Inside
<1>2. CASE op[g].kind \in BeginKind
  BY <1>1, <1>2 DEF BeginSound, Inside, BeginKind, Terminal
<1>3. CASE op[g].kind \in FinalizeKind
  <2>1. stack # <<>>
    BY <1>3 DEF FinalizeSound, Inside
  <2>2. rootStatus = "active"
    BY <2>1 DEF ScopesNest
  <2> QED BY <1>1, <1>3, <2>2 DEF FinalizeKind, Terminal
<1> QED BY <1>2, <1>3

-----------------------------------------------------------------------------
(* Quiet steps.                                                            *)

\* Refreshing the mark never takes it back.
LEMMA Refreshed ==
  ASSUME IInv, markCancelledIfNeeded
  PROVE  /\ rollbackOnly => rollbackOnly'
         /\ rollbackOnly' => rollbackOnly \/ rootStatus = "active"
         /\ rollbackReason # "none" => rollbackReason' = rollbackReason
BY DEF markCancelledIfNeeded, MarkedOnly, MarkedReason, Cancelled

\* The environment only marks the root or ends a transaction in the database.
LEMMA EnvironmentQuiet == ASSUME IInv, Environment PROVE Quiet
<1>1. CASE Query
  BY <1>1, Refreshed DEF Query, Quiet, CommittingRoot, Root
<1>2. CASE \E reason \in {"none", "user"} : SetRollbackOnly(reason)
  <2>1. rollbackReason # "none" => rollbackReason' = rollbackReason
    BY <1>2 DEF SetRollbackOnly, FirstReason, MarkedReason
  <2> QED BY <1>2, <2>1 DEF SetRollbackOnly, Quiet, CommittingRoot, Root
<1>3. CASE Cancel
  BY <1>3 DEF Cancel, state, Quiet, CommittingRoot, Root
<1>4. CASE BackendAborts
  <2>1. UNCHANGED <<rootStatus, stack, scope, rollbackOnly, rollbackReason, op>>
    BY <1>4 DEF BackendAborts, state
  <2> QED BY <1>4, <2>1 DEF Quiet, CommittingRoot, Root
<1> QED BY <1>1, <1>2, <1>3, <1>4 DEF Environment

\* A step of g that does not put it past the checks of a root commit, or that
\* does so while the root is not marked, is quiet.
LEMMA CallQuiet ==
  ASSUME IInv, NEW g \in Goroutines, UNCHANGED <<rootStatus, stack, scope>>,
         rollbackOnly => rollbackOnly',
         rollbackOnly' => rollbackOnly \/ rootStatus = "active",
         rollbackReason # "none" => rollbackReason' = rollbackReason,
         NEW o, op' = [op EXCEPT ![g] = o],
         \/ o.pc \notin {"before", "adapter", "publish"}
         \/ o.kind # "commit" \/ o.scope # Root \/ ~rollbackOnly
         \/ /\ op[g].pc \in {"before", "adapter", "publish"}
            /\ o.kind = op[g].kind /\ o.scope = op[g].scope,
         rootStatus \in Terminal => UNCHANGED backend
  PROVE  Quiet
<1>1. op'[g] = o /\ \A h \in Goroutines \ {g} : op'[h] = op[h]
  BY DEF IInv, TypeOK
<1>2. CommittingRoot' => CommittingRoot \/ ~rollbackOnly
  BY <1>1 DEF CommittingRoot, Root
<1> QED BY <1>2 DEF Quiet

\* So is every call, and every return.
LEMMA OutsideQuiet ==
  ASSUME IInv, NEW g \in Goroutines, CallAny(g) \/ Return(g) PROVE Quiet
<1>1. PICK o : op' = [op EXCEPT ![g] = o] /\ o.pc \in {"lock", "done", "idle"}
  BY DEF CallAny, CallBegin, CallScope, CallRoot, CallNoRoot, Call, Return, Idle
<1>2. UNCHANGED <<rootStatus, stack, scope, rollbackOnly, rollbackReason, backend>>
  BY DEF CallAny, CallBegin, CallScope, CallRoot, CallNoRoot, Call, Return, state
<1> QED BY <1>1, <1>2, CallQuiet

\* So are the checks of the four operations.
LEMMA EnterQuiet == ASSUME IInv, NEW g \in Goroutines, Enter(g) PROVE Quiet
<1>0. op[g] \in Operation
  BY DEF IInv, TypeOK
<1>1. ASSUME NEW err, Refuse(g, err)
      PROVE  \E o : op' = [op EXCEPT ![g] = o] /\ o.pc = "done"
  <2> DEFINE o == [op[g] EXCEPT !.pc = "done", !.ret = IF op[g].commitErr = {} THEN err
                     ELSE {"FinalizationFailed"} \cup op[g].commitErr \cup err]
  <2>1. op' = [op EXCEPT ![g] = o] /\ o.pc = "done"
    BY <1>0, <1>1 DEF Refuse, Operation
  <2> QED BY <2>1
<1>2. ASSUME NEW s, NEW mode, Admit(g, s, mode)
      PROVE  \E o : op' = [op EXCEPT ![g] = o] /\ o.kind = op[g].kind /\ o.scope = s
  <2> DEFINE o == [op[g] EXCEPT !.pc = "before", !.scope = s, !.mode = mode,
                                !.before = {}, !.attempt = {}]
  <2>1. op' = [op EXCEPT ![g] = o] /\ o.kind = op[g].kind /\ o.scope = s
    BY <1>0, <1>2 DEF Admit, Operation
  <2> QED BY <2>1
<1>3. CASE beginRoot(g)
  BY <1>1, <1>2, <1>3, CallQuiet DEF beginRoot, state
<1>4. CASE beginNestedScope(g)
  BY <1>1, <1>2, <1>4, CallQuiet, Refreshed DEF beginNestedScope
<1>5. CASE commitScope(g)
  <2> DEFINE s == op[g].scope
  <2>1. CASE Refuse(g, CommitRefusal(s))
    BY <1>1, <1>5, <2>1, CallQuiet, Refreshed DEF commitScope
  <2>2. CASE CommitRefusal(s) = {} /\ Admit(g, s, scope[s].mode)
    <3>1. /\ stack # <<>> /\ Last(stack) = s
          /\ scope[s].depth = 0 => ~MarkedOnly
      BY <2>2 DEF CommitRefusal, ScopeRefusal
    <3>2. s = Root => scope[s].depth = 0
      BY <3>1, LastFacts DEF Root, IInv, TypeOK, ScopesNest
    <3>3. s # Root \/ ~rollbackOnly
      BY <3>1, <3>2 DEF MarkedOnly
    <3> QED BY <1>2, <1>5, <2>2, <3>3, CallQuiet, Refreshed DEF commitScope
  <2> QED BY <1>5, <2>1, <2>2 DEF commitScope
<1>6. CASE rollbackScope(g)
  BY <1>1, <1>2, <1>6, CallQuiet DEF rollbackScope, state
<1> QED BY <1>3, <1>4, <1>5, <1>6 DEF Enter

\* So are the interceptors, the adapter and the end of a call.
LEMMA ProgressQuiet ==
  ASSUME IInv, NEW g \in Goroutines,
         RunBefore(g) \/ Adapter(g) \/ Finish(g) \/ Compensate(g) \/ CallbackPanic(g)
  PROVE  Quiet
<1>0. op[g] \in Operation
  BY DEF IInv, TypeOK
<1>1. CASE RunBefore(g)
  <2> PICK err \in {{}, {"Veto"}} : op' = [op EXCEPT
         ![g].before = err,
         ![g].pc = IF err # {} /\ op[g].kind # "rollback" THEN "after"
                   ELSE IF op[g].mode = "physical" THEN "adapter"
                   ELSE "publish"]
    BY <1>1 DEF RunBefore
  <2> DEFINE pc == IF err # {} /\ op[g].kind # "rollback" THEN "after"
                   ELSE IF op[g].mode = "physical" THEN "adapter" ELSE "publish"
             o == [op[g] EXCEPT !.before = err, !.pc = pc]
  <2>1. op' = [op EXCEPT ![g] = o] /\ o.kind = op[g].kind /\ o.scope = op[g].scope
    BY <1>0 DEF Operation
  <2>2. op[g].pc = "before" /\ UNCHANGED <<state, backend>>
    BY <1>1 DEF RunBefore
  <2> HIDE DEF o
  <2> QED BY <2>1, <2>2, CallQuiet DEF state
<1>2. CASE Adapter(g)
  <2> PICK err, status, next : Answer(g, err, status, next)
    BY <1>2 DEF Adapter, AdapterBegin, AdapterBeginNested, AdapterCommit, AdapterRollback
  <2> DEFINE o == [op[g] EXCEPT !.attempt = err, !.pc = next]
  <2>1. op' = [op EXCEPT ![g] = o] /\ o.kind = op[g].kind /\ o.scope = op[g].scope
    BY <1>0 DEF Answer, Operation
  <2>2. op[g].pc = "adapter" /\ op[g].kind \in BeginKind \cup FinalizeKind
    BY <1>2 DEF Adapter, AdapterBegin, AdapterBeginNested, AdapterCommit, AdapterRollback,
       Calling, BeginKind, FinalizeKind
  <2>3. rootStatus \notin Terminal
    BY <2>2, InsideFacts
  <2> QED BY <2>1, <2>2, <2>3, CallQuiet DEF Answer, state
<1>3. CASE Finish(g)
  <2> DEFINE o == [op[g] EXCEPT !.pc = "done", !.ret = Result(op[g]),
                     !.scope = IF BeginFailed(op[g]) THEN NoScope ELSE @]
  <2>1. op' = [op EXCEPT ![g] = o] /\ o.pc = "done"
    BY <1>0, <1>3 DEF Finish, Operation
  <2> QED BY <1>3, <2>1, CallQuiet DEF Finish, state
<1>4. CASE Compensate(g)
  <2> DEFINE o == [op[g] EXCEPT !.pc = "lock", !.kind = "rollback",
                     !.commitErr = op[g].before \cup op[g].attempt]
  <2>1. op' = [op EXCEPT ![g] = o] /\ o.pc = "lock"
    BY <1>0, <1>4 DEF Compensate, Operation
  <2> QED BY <1>4, <2>1, CallQuiet DEF Compensate, state
<1>5. CASE CallbackPanic(g)
  <2> DEFINE o == [op[g] EXCEPT !.pc = "done", !.ret = {"Panic"},
                     !.scope = IF op[g].kind \in BeginKind THEN NoScope ELSE @]
  <2>1. op' = [op EXCEPT ![g] = o] /\ o.pc = "done"
    BY <1>0, <1>5 DEF CallbackPanic, Operation
  <2> QED BY <1>5, <2>1, CallQuiet DEF CallbackPanic, state
<1> QED BY <1>1, <1>2, <1>3, <1>4, <1>5

-----------------------------------------------------------------------------
(* Publications.                                                           *)

\* What a publication does to a step of the abstract transaction.
Kept == MarkNeedsRoot' /\ TerminalKept /\ DoomKept /\ [Abs!Next]_(Abs!vars)

\* A begin publishes a root where there was none, or a scope above the root.
LEMMA PublishBeginKeeps ==
  ASSUME IInv, MarkNeedsRoot, NEW g \in Goroutines,
         PublishBeginRoot(g) \/ PublishBeginNested(g)
  PROVE  Kept
<1> USE DEF IInv, TypeOK
<1>0. op[g].pc = "publish" /\ op[g].kind \in {"beginRoot", "beginNested"}
  BY DEF PublishBeginRoot, PublishBeginNested
<1>1. /\ op[g].kind = "beginRoot" => rootStatus = "none"
      /\ op[g].kind = "beginNested" => rootStatus = "active"
      /\ \A h \in Goroutines \ {g} : op[h].pc \notin Inside
  BY <1>0, InsideFacts DEF BeginKind
<1>2. op[g].scope \in Scopes /\ scope[op[g].scope].status = "none"
  BY <1>0 DEF BeginSound, BeginKind, Inside
<1>3. ~CommittingRoot
  BY <1>0, <1>1 DEF CommittingRoot, Inside
<1>4. ~CommittingRoot'
  BY <1>0, Published DEF PublishBeginRoot, PublishBeginNested
<1>5. CASE PublishBeginRoot(g)
  <2>1. rootStatus = "none" /\ stack = <<>> /\ ~rollbackOnly
    BY <1>1, <1>5 DEF PublishBeginRoot, ScopesNest, MarkNeedsRoot
  <2>2. Len(stack') = 1 /\ stack' # <<>>
    BY <1>5 DEF PublishBeginRoot
  <2>3. Abs!Begin
    BY <1>5, <2>1, <2>2 DEF PublishBeginRoot, Abs!Begin
  <2>4. TerminalKept
    BY <1>2, <1>5, <2>1 DEF PublishBeginRoot, TerminalKept, Terminal
  <2> QED BY <1>5, <2>1, <2>3, <2>4 DEF PublishBeginRoot, Kept, MarkNeedsRoot, DoomKept, Abs!Next
<1>6. CASE PublishBeginNested(g)
  <2>1. rootStatus = "active" /\ stack # <<>> /\ Len(stack) \in Nat
    BY <1>1, <1>6 DEF PublishBeginNested, ScopesNest
  <2>2. Len(stack') = Len(stack) + 1 /\ stack' # <<>>
    BY <1>2, <1>6 DEF PublishBeginNested
  <2>3. Abs!OpenNested
    <3>1. Len(stack') - 1 = (Len(stack) - 1) + 1
      BY <2>1, <2>2
    <3>2. rootStatus' = rootStatus /\ rollbackOnly' = rollbackOnly
      BY <1>6 DEF PublishBeginNested
    <3> HIDE DEF IInv, TypeOK
    <3>3. (rollbackOnly /\ ~CommittingRoot)' \in {rollbackOnly /\ ~CommittingRoot, TRUE}
      BY <1>3, <1>4, <3>2, Zenon
    <3> QED BY <2>1, <2>2, <3>1, <3>2, <3>3 DEF Abs!OpenNested
  <2>4. TerminalKept
    BY <1>2, <1>6, <2>1 DEF PublishBeginNested, TerminalKept, Terminal
  <2> QED BY <1>6, <2>1, <2>3, <2>4 DEF PublishBeginNested, Kept, MarkNeedsRoot, DoomKept, Abs!Next
<1> QED BY <1>5, <1>6

\* A commit or a rollback ends the root when nothing is above it, ends the top
\* nested scope, or fails the execution.
LEMMA PublishFinalizeKeeps ==
  ASSUME IInv, MarkNeedsRoot, NEW g \in Goroutines,
         PublishCommit(g) \/ PublishRollback(g)
  PROVE  Kept
<1> USE DEF IInv, TypeOK
<1> DEFINE s == op[g].scope
<1>0. op[g].pc = "publish" /\ op[g].kind \in FinalizeKind
  BY DEF PublishCommit, PublishRollback, FinalizeKind
<1>1. stack # <<>> /\ Last(stack) = s
  BY <1>0 DEF FinalizeSound, Inside
<1>2. /\ s \in Scopes /\ rootStatus = "active" /\ scope[s].status = "active"
      /\ Len(stack) \in Nat \ {0} /\ stack[Len(stack)] = s
      /\ scope[s].depth = Len(stack) - 1
      /\ Root = stack[1] /\ Root \in Scopes
  BY <1>1, TopOfStack
<1>3. scope[Root].status = "active" /\ scope[Root].depth = 0
  BY <1>2 DEF ScopesNest
<1>4. \A h \in Goroutines \ {g} : op[h].pc \notin Inside
  BY <1>0, InsideFacts
<1>5. CommittingRoot <=> op[g].kind = "commit" /\ s = Root
  BY <1>0, <1>4 DEF CommittingRoot, Inside
<1>6. ~CommittingRoot'
  BY <1>0, Published DEF PublishCommit, PublishRollback
<1>7. scope[s].depth = 0 => s = Root /\ Len(stack) = 1
  <2> HIDE DEF IInv, TypeOK
  <2>1. ASSUME scope[s].depth = 0 PROVE Len(stack) = 1
    <3>1. Len(stack) - 1 = 0 /\ Len(stack) \in Nat
      BY <1>2, <2>1, Zenon
    <3> QED BY <3>1
  <2> QED BY <1>2, <2>1
<1>8. scope[s].depth > 0 => s # Root
  BY <1>3
<1>9. ASSUME NEW status \in {"committed", "rolledBack"}, finishRootLocked(s, status)
      PROVE  MarkNeedsRoot' /\ TerminalKept /\ DoomKept
  BY <1>2, <1>9 DEF finishRootLocked, MarkNeedsRoot, TerminalKept, DoomKept, Terminal
<1>10. ASSUME NEW status \in {"committed", "rolledBack"}, finishNestedLocked(s, status),
              scope[s].depth > 0
       PROVE  /\ rootStatus' = "active" /\ stack' # <<>> /\ Len(stack') = Len(stack) - 1
              /\ TerminalKept
  <2>1. Len(stack') = Len(stack) - 1 /\ stack' # <<>>
    BY <1>1, <1>2, <1>10, FrontFacts DEF finishNestedLocked
  <2> QED BY <1>2, <1>10, <2>1 DEF finishNestedLocked, TerminalKept, Terminal
<1>11. CASE PublishCommit(g) /\ scope[s].depth = 0
  <2>1. finishRootLocked(s, "committed") /\ op[g].kind = "commit"
    BY <1>11 DEF PublishCommit
  <2>2. Abs!Commit
    BY <1>1, <1>2, <1>5, <1>7, <1>11, <2>1 DEF finishRootLocked, Abs!Commit, Abs!End
  <2> QED BY <1>9, <2>1, <2>2 DEF Kept, Abs!Next
<1>12. CASE PublishCommit(g) /\ scope[s].depth > 0
  <2>1. finishNestedLocked(s, "committed") /\ UNCHANGED <<rollbackOnly, rollbackReason>>
    BY <1>12 DEF PublishCommit
  <2>2. /\ rootStatus' = "active" /\ stack' # <<>> /\ Len(stack') = Len(stack) - 1
        /\ TerminalKept
    BY <1>10, <1>12, <2>1
  <2>3. Abs!CloseNested
    BY <1>1, <1>2, <1>5, <1>6, <1>8, <1>12, <2>1, <2>2 DEF Abs!CloseNested
  <2> QED BY <2>1, <2>2, <2>3 DEF Kept, MarkNeedsRoot, DoomKept, Abs!Next
<1>13. CASE PublishRollback(g) /\ ~RolledBack(g)
  <2>1. failExecutionLocked(s)
    BY <1>13 DEF PublishRollback
  <2>2. Abs!Fail
    BY <1>2, <2>1 DEF failExecutionLocked, Abs!Fail, Abs!End
  <2>3. MarkNeedsRoot' /\ TerminalKept /\ DoomKept
    BY <1>2, <1>3, <2>1 DEF failExecutionLocked, MarkNeedsRoot, TerminalKept, DoomKept, Terminal
  <2> QED BY <2>2, <2>3 DEF Kept, Abs!Next
<1>14. CASE PublishRollback(g) /\ RolledBack(g) /\ scope[s].depth = 0
  <2>1. finishRootLocked(s, "rolledBack")
    BY <1>14 DEF PublishRollback
  <2>2. Abs!Rollback
    BY <1>1, <1>2, <1>7, <1>14, <2>1 DEF finishRootLocked, Abs!Rollback, Abs!End
  <2> QED BY <1>9, <2>1, <2>2 DEF Kept, Abs!Next
<1>15. CASE PublishRollback(g) /\ RolledBack(g) /\ scope[s].depth > 0
  <2>1. /\ finishNestedLocked(s, "rolledBack") /\ op[g].kind = "rollback"
        /\ rollbackOnly' = (rollbackOnly \/ Dooms(s))
        /\ rollbackReason # "none" => rollbackReason' = rollbackReason
    BY <1>15 DEF PublishRollback, FirstReason
  <2>2. /\ rootStatus' = "active" /\ stack' # <<>> /\ Len(stack') = Len(stack) - 1
        /\ TerminalKept
    BY <1>10, <1>15, <2>1
  <2>3. Abs!CloseNested
    BY <1>1, <1>2, <1>5, <1>6, <1>15, <2>1, <2>2 DEF Abs!CloseNested
  <2> QED BY <2>1, <2>2, <2>3 DEF Kept, MarkNeedsRoot, DoomKept, Abs!Next
<1>16. scope[s].depth \in Nat
  BY <1>2
<1> QED BY <1>11, <1>12, <1>13, <1>14, <1>15, <1>16

-----------------------------------------------------------------------------
(* Every step.                                                             *)

\* A quiet step dooms the abstract root or does nothing to it: a mark that
\* counts goes on counting, since nobody can pass the checks any more.
LEMMA QuietKeeps == ASSUME IInv, MarkNeedsRoot, Quiet PROVE Kept
<1>1. UNCHANGED <<rootStatus, stack, scope>>
  BY DEF Quiet
<1>2. MarkNeedsRoot' /\ DoomKept
  BY DEF Quiet, MarkNeedsRoot, DoomKept
<1>3. TerminalKept
  BY DEF Quiet, TerminalKept
<1>4. rollbackOnly /\ ~CommittingRoot => rollbackOnly' /\ ~CommittingRoot'
  BY Zenon DEF Quiet
<1>5. rollbackOnly' /\ ~CommittingRoot' => rootStatus = "active"
  BY DEF Quiet, MarkNeedsRoot
<1>6. CASE rollbackOnly' /\ ~CommittingRoot'
  <2>1. Abs!Doom
    BY <1>1, <1>5, <1>6 DEF Abs!Doom
  <2> QED BY <1>2, <1>3, <2>1 DEF Kept, Abs!Next
<1>7. CASE ~(rollbackOnly' /\ ~CommittingRoot')
  <2>1. UNCHANGED Abs!vars
    BY <1>1, <1>4, <1>7 DEF Abs!vars
  <2> QED BY <1>2, <1>3, <2>1 DEF Kept
<1> QED BY <1>6, <1>7

\* Every step of the UnitOfWork maps to one of RootTransaction or to none.
LEMMA NextKeeps == IInv /\ MarkNeedsRoot /\ [Next]_vars => Kept
<1> SUFFICES ASSUME IInv, MarkNeedsRoot, [Next]_vars PROVE Kept
  OBVIOUS
<1>1. CASE Environment
  BY <1>1, EnvironmentQuiet, QuietKeeps
<1>2. ASSUME NEW g \in Goroutines, CallAny(g) \/ Return(g) PROVE Kept
  BY <1>2, OutsideQuiet, QuietKeeps
<1>3. ASSUME NEW g \in Goroutines, Step(g) PROVE Kept
  <2>1. CASE Publish(g)
    BY <2>1, PublishBeginKeeps, PublishFinalizeKeeps DEF Publish
  <2>2. CASE Enter(g)
    BY <2>2, EnterQuiet, QuietKeeps
  <2>3. CASE RunBefore(g) \/ Adapter(g) \/ Finish(g) \/ Compensate(g) \/ CallbackPanic(g)
    BY <2>3, ProgressQuiet, QuietKeeps
  <2> QED BY <1>3, <2>1, <2>2, <2>3 DEF Step, Progress
<1>4. CASE UNCHANGED vars
  <2>1. Quiet
    BY <1>4 DEF vars, state, Quiet, CommittingRoot, Root
  <2> QED BY <2>1, QuietKeeps
<1> QED BY <1>1, <1>2, <1>3, <1>4 DEF Next

\* The mark is only ever set on an active root.
LEMMA MarkInvariance == Spec => []MarkNeedsRoot
<1>1. Init => MarkNeedsRoot
  BY DEF Init, MarkNeedsRoot
<1>2. IInv /\ MarkNeedsRoot /\ [Next]_vars => MarkNeedsRoot'
  BY NextKeeps DEF Kept
<1> QED BY <1>1, <1>2, Invariance, PTL DEF Spec

\* A finished root and a finished scope keep their outcome, and nothing that
\* this code does reaches the database after the root has finished.
THEOREM OutcomeIsFinal == Spec => TerminalIsFinal
<1>1. IInv /\ MarkNeedsRoot /\ [Next]_vars => [TerminalKept]_vars
  BY NextKeeps DEF Kept
<1> QED BY <1>1, Invariance, MarkInvariance, PTL DEF Spec, TerminalIsFinal

\* The rollback-only mark of an active root, and its first reason, stay.
THEOREM MarkIsSticky == Spec => DoomIsSticky
<1>1. IInv /\ MarkNeedsRoot /\ [Next]_vars => [DoomKept]_vars
  BY NextKeeps DEF Kept
<1> QED BY <1>1, Invariance, MarkInvariance, PTL DEF Spec, DoomIsSticky

\* The UnitOfWork implements the abstract root transaction: in particular a
\* root whose mark counts never commits, and it ends with nothing above it.
THEOREM Refinement == Spec => ImplementsRootTransaction
<1>1. Init => Abs!Init
  BY DEF Init, Abs!Init
<1>2. IInv /\ MarkNeedsRoot /\ [Next]_vars => [Abs!Next]_(Abs!vars)
  BY NextKeeps DEF Kept
<1> QED
  BY <1>1, <1>2, Invariance, MarkInvariance, PTL DEF Spec, ImplementsRootTransaction, Abs!Spec
=============================================================================
