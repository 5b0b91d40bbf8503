------------------------------ MODULE SqlProofs ------------------------------
(***************************************************************************)
(* A UnitOfWork over the database/sql adapter is a UnitOfWork, so that all *)
(* that is proved of one holds of it; and an ended root holds no           *)
(* connection.                                                             *)
(***************************************************************************)
EXTENDS SqlAdapter, OutcomeProofs

\* A call that is about to publish: without savepoints no nested scope has a
\* transaction, and a rollback that called the adapter has ended the one of the
\* root.
SqlPublishing(g) ==
  op[g].pc = "publish" =>
    /\ op[g].kind = "beginNested" => op[g].mode # "physical"
    /\ op[g].kind = "rollback" =>
         IF op[g].mode = "physical" THEN backend[op[g].scope] # "open"
                                    ELSE op[g].attempt = {}

\* The root alone is physical, and an ended root holds nothing.
SqlInv ==
  /\ \A s \in Scopes : scope[s].status # "none" => (Soft(s) <=> scope[s].depth > 0)
  /\ \A g \in Goroutines : SqlPublishing(g)
  /\ EndedRootHoldsNothing

\* All that is known of a UnitOfWork over this adapter.
Ready == IInv /\ OutcomeInv /\ SqlInv

-----------------------------------------------------------------------------
(* Each step is a step of UnitOfWork.                                      *)

\* The adapter is called for the scope of the root only.
LEMMA CalledForRoot ==
  ASSUME Ready, NEW g \in Goroutines, op[g].pc = "adapter", op[g].kind \in FinalizeKind
  PROVE  op[g].scope = Root /\ op[g].scope \in Scopes /\ scope[op[g].scope].depth = 0
<1> DEFINE s == op[g].scope
<1>1. stack # <<>> /\ Last(stack) = s /\ op[g].mode = scope[s].mode
  BY DEF Ready, IInv, FinalizeSound, Inside
<1>2. s \in Scopes /\ scope[s].status = "active"
  BY <1>1, TopOfStack DEF Ready
<1>3. scope[s].mode = "physical"
  BY <1>1 DEF Ready, OutcomeInv, Placed, InPlace
<1>4. scope[s].depth \in Nat
  BY <1>2 DEF Ready, IInv, TypeOK, ScopeState
<1>5. scope[s].depth = 0
  BY <1>2, <1>3, <1>4 DEF Ready, SqlInv, Soft
<1>6. Len(stack) \in Nat \ {0} /\ stack[Len(stack)] = s /\ Len(stack) - 1 = 0
  BY <1>1, <1>5, TopOfStack DEF Ready
<1>7. stack[1] = s
  <2>1. Len(stack) = 1
    BY <1>6
  <2> QED BY <1>6, <2>1
<1>8. Root = stack[1]
  BY <1>1, TopOfStack DEF Ready
<1> QED BY <1>2, <1>5, <1>7, <1>8

\* What this adapter answers, UnitOfWork allows.
LEMMA SqlCallAllowed ==
  ASSUME Ready, NEW g \in Goroutines, SqlCall(g) PROVE Adapter(g)
<1>1. CASE SqlBegin(g)
  BY <1>1 DEF SqlBegin, Adapter, AdapterBegin
<1>2. CASE SqlCommit(g)
  BY <1>2 DEF SqlCommit, Adapter, AdapterCommit, AfterFailure
<1>3. CASE SqlRollback(g)
  <2>1. op[g].scope = Root
    BY <1>3, CalledForRoot DEF SqlRollback, Calling, FinalizeKind
  <2> QED BY <1>3, <2>1 DEF SqlRollback, Adapter, AdapterRollback, AfterFailure
<1> QED BY <1>1, <1>2, <1>3 DEF SqlCall, Adapter

\* So every step of a UnitOfWork over this adapter is one of UnitOfWork.
LEMMA SqlNextAllowed == Ready /\ [SqlNext]_vars => [Next]_vars
<1> SUFFICES ASSUME Ready, SqlNext PROVE Next
  OBVIOUS
<1>1. CASE Query \/ Cancel \/ AwaitDone \/ \E reason \in {"none", "user"} : SetRollbackOnly(reason)
  BY <1>1 DEF AwaitDone, Next, Environment
<1>2. ASSUME NEW g \in Goroutines, SqlProgress(g) PROVE Progress(g)
  BY <1>2, SqlCallAllowed DEF SqlProgress, Progress
<1> QED BY <1>1, <1>2 DEF SqlNext, Next, Step

-----------------------------------------------------------------------------
(* The invariant.                                                          *)

\* A step that opens no transaction, begins and ends no scope, and publishes
\* nothing.
LEMMA SqlStill ==
  ASSUME Ready, UNCHANGED scope,
         \A s \in Scopes : scope[s].status # "none" /\ backend'[s] = "open" => backend[s] = "open",
         \A g \in Goroutines : SqlPublishing(g)'
  PROVE  SqlInv'
BY DEF Ready, SqlInv, EndedRootHoldsNothing, Soft, Terminal

\* The adapter opens the transaction of a root only, and a rollback ends it.
LEMMA SqlCallKeeps ==
  ASSUME Ready, NEW g \in Goroutines, SqlCall(g) PROVE SqlInv'
<1> DEFINE s == op[g].scope
<1>1. Adapter(g) /\ IInv
  BY SqlCallAllowed DEF Ready
<1>2. op[g].mode = "physical"
  BY <1>1, AdapterStep DEF Ready, OutcomeInv, Placed, InPlace
<1>3. \A h \in Goroutines \ {g} : op'[h] = op[h] /\ op[h].pc # "publish"
  BY <1>1, AdapterStep, Alone DEF Inside, OthersKept
<1>4. /\ s \in Scopes
      /\ op[g].kind = "rollback" => backend'[s] # "open"
      /\ op[g].kind = "beginNested" => op'[g].pc # "publish"
      /\ op[g].kind \in FinalizeKind /\ backend'[s] = "open" => backend[s] = "open"
      /\ op[g].kind \in BeginKind => scope[s].status = "none"
  <2>1. /\ s \in Scopes /\ op[g].pc = "adapter" /\ op[g] \in Operation
        /\ backend[s] \in {"none", "open", "committed", "rolledBack"}
    BY <1>1, AdapterStep DEF IInv, TypeOK
  <2>2. op[g].kind \in BeginKind => scope[s].status = "none"
    BY <1>1, <2>1 DEF IInv, BeginSound, Inside
  <2>3. ASSUME NEW err, NEW status, NEW next, Answer(g, err, status, next)
        PROVE  backend'[s] = status /\ op'[g].pc = next
    BY <1>1, <2>1, <2>3 DEF Answer, IInv, TypeOK, Operation
  <2>4. CASE SqlBegin(g)
    BY <2>1, <2>2, <2>4 DEF SqlBegin, Calling, FinalizeKind
  <2>5. CASE AdapterBeginNested(g)
    BY <2>1, <2>2, <2>3, <2>5, SqlAssumption DEF AdapterBeginNested, Calling, CanNest, FinalizeKind
  <2>6. CASE SqlCommit(g)
    BY <2>1, <2>3, <2>6 DEF SqlCommit, Calling, BeginKind
  <2>7. CASE SqlRollback(g)
    BY <2>1, <2>3, <2>7 DEF SqlRollback, Calling, BeginKind
  <2> QED BY <2>4, <2>5, <2>6, <2>7 DEF SqlCall
<1>5. \A h \in Goroutines : SqlPublishing(h)'
  BY <1>1, <1>2, <1>3, <1>4, AdapterStep DEF SqlPublishing
<1>6. op[g].kind \in BeginKind \cup FinalizeKind /\ UNCHANGED scope
  BY <1>1, AdapterStep DEF Ready, OutcomeInv, Known, Aware
<1>7. \A t \in Scopes : scope[t].status # "none" /\ backend'[t] = "open" => backend[t] = "open"
  BY <1>1, <1>4, <1>6, AdapterStep
<1> QED BY <1>5, <1>6, <1>7, SqlStill

\* A root that is published as ended has ended in the database; a rollback that
\* failed was the root's own.
LEMMA SqlPublishKeeps ==
  ASSUME Ready, NEW g \in Goroutines, Publish(g) PROVE SqlInv'
<1> DEFINE s == op[g].scope
<1>0. IInv /\ SqlInv
  BY DEF Ready
<1>1. /\ \A h \in Goroutines \ {g} : op'[h] = op[h] /\ op[h].pc # "publish"
      /\ op[g].pc = "publish" /\ op'[g].pc = "after" /\ s \in Scopes /\ UNCHANGED backend
  BY <1>0, PublishStep, Alone DEF Inside, OthersKept
<1>2. \A h \in Goroutines : SqlPublishing(h)'
  BY <1>1 DEF SqlPublishing
<1>3. CASE PublishBeginRoot(g)
  <2>1. op[g].mode = "physical"
    BY <1>0, <1>3, PublishStep DEF PublishBeginRoot, PublishBeginNested, PublishCommit, PublishRollback
  <2> QED BY <1>0, <1>1, <1>2, <1>3, <2>1, PublishedBegin DEF SqlInv, Soft, EndedRootHoldsNothing, Terminal
<1>4. CASE PublishBeginNested(g)
  <2>1. op[g].mode # "physical"
    BY <1>0, <1>1, <1>4 DEF SqlInv, SqlPublishing, PublishBeginNested
  <2> QED BY <1>0, <1>1, <1>2, <1>4, <2>1, PublishedBegin DEF SqlInv, Soft, EndedRootHoldsNothing, Terminal
<1>5. CASE PublishCommit(g) \/ PublishRollback(g)
  <2>1. op[g].kind \in FinalizeKind
    BY <1>5 DEF PublishCommit, PublishRollback, FinalizeKind
  <2>2. op[g].mode = scope[s].mode /\ Soft(s) = (scope[s].depth > 0) /\ scope[s].depth \in Nat
    <3>1. scope[s].status = "active"
      BY <1>0, <1>5, PublishedEnd
    <3> QED BY <1>0, <1>1, <2>1, <3>1 DEF IInv, TypeOK, ScopeState, FinalizeSound, Inside, SqlInv, Soft
  <2>3. scope[s].depth = 0 => backend[s] # "open"
    BY <1>0, <1>1, <2>1, <2>2 DEF IInv, FinalizeSound, Inside, SqlInv, SqlPublishing, Soft, FinalizeKind
  <2>4. op[g].kind = "rollback" /\ op[g].attempt # {} => scope[s].depth = 0
    BY <1>0, <1>1, <2>2 DEF SqlInv, SqlPublishing, Soft
  <2>5. \A t \in Scopes : scope'[t].status # "none" => (Soft(t)' <=> scope'[t].depth > 0)
    BY <1>0, <1>5, PublishedEnd DEF SqlInv, Soft
  <2>6. ASSUME NEW t \in Scopes, scope'[t].status \in Terminal, scope'[t].depth = 0
        PROVE  backend[t] # "open"
    <3>1. t = s \/ scope'[t] = scope[t]
      BY <1>0, <1>5, <2>4, PublishedEnd
    <3>2. scope[t].depth = 0
      BY <1>0, <1>5, <2>6, PublishedEnd
    <3> QED BY <1>0, <2>3, <2>6, <3>1, <3>2 DEF SqlInv, EndedRootHoldsNothing
  <2> QED BY <1>1, <1>2, <2>5, <2>6 DEF SqlInv, EndedRootHoldsNothing
<1> QED BY <1>3, <1>4, <1>5 DEF Publish

\* Every step keeps the invariant.
LEMMA SqlNextKeeps == Ready /\ [SqlNext]_vars => SqlInv'
<1> SUFFICES ASSUME Ready, [SqlNext]_vars PROVE SqlInv'
  OBVIOUS
<1>0. IInv /\ SqlInv
  BY DEF Ready
<1>1. CASE Environment
  <2>1. \A g \in Goroutines : SqlPublishing(g)'
    <3>1. \A g \in Goroutines : op[g].pc = "publish" /\ op[g].kind = "rollback" => op[g].scope \in Scopes
      BY <1>0 DEF IInv, FinalizeSound, Inside, FinalizeKind
    <3> QED BY <1>0, <1>1, <3>1, EnvironmentStep DEF SqlInv, SqlPublishing
  <2> QED BY <1>0, <1>1, <2>1, EnvironmentStep, SqlStill
<1>2. ASSUME NEW g \in Goroutines,
             \/ CallAny(g) \/ Return(g) \/ Enter(g)
             \/ RunBefore(g) \/ Finish(g) \/ Compensate(g) \/ CallbackPanic(g)
      PROVE  SqlInv'
  <2>1. StateKept /\ OthersKept(g)
    BY <1>0, <1>2, OutsideStep, EnterStep, InnerStep DEF IInv
  <2>2. SqlPublishing(g)'
    <3>1. CASE RunBefore(g)
      BY <1>0, <3>1, InnerStep DEF SqlPublishing, Ready, OutcomeInv, Known, Aware, ErrorsGiven
    <3>2. CASE ~RunBefore(g)
      <4>1. CASE CallAny(g) \/ Return(g) \/ Enter(g)
        BY <1>0, <4>1, OutsideStep, EnterStep DEF IInv, Idle, SqlPublishing
      <4>2. CASE Finish(g) \/ Compensate(g) \/ CallbackPanic(g)
        BY <1>0, <4>2 DEF Finish, Compensate, CallbackPanic, SqlPublishing, IInv, TypeOK, Operation
      <4> QED BY <1>2, <3>2, <4>1, <4>2
    <3> QED BY <3>1, <3>2
  <2>3. \A h \in Goroutines : SqlPublishing(h)'
    BY <1>0, <2>1, <2>2 DEF SqlInv, SqlPublishing, StateKept, OthersKept
  <2> QED BY <2>1, <2>3, SqlStill DEF StateKept
<1>3. CASE UNCHANGED vars
  <2>1. \A h \in Goroutines : SqlPublishing(h)'
    BY <1>0, <1>3 DEF vars, SqlInv, SqlPublishing
  <2> QED BY <1>3, <2>1, SqlStill DEF vars, state
<1> QED BY <1>1, <1>2, <1>3, SqlCallKeeps, SqlPublishKeeps
     DEF SqlNext, SqlProgress, AwaitDone, Environment

-----------------------------------------------------------------------------

\* In every reachable state all of it holds.
LEMMA SqlInvariance == SqlSpec => []Ready
<1>1. Init => Ready
  <2> SUFFICES ASSUME Init PROVE SqlInv
    BY InitIInv, InitOutcome DEF Ready
  <2> QED BY DEF Init, SqlInv, SqlPublishing, EndedRootHoldsNothing, Idle, Unused, Terminal
<1>2. Ready /\ [SqlNext]_vars => Ready'
  BY SqlNextAllowed, SqlNextKeeps, NextIInv, NextLasts, NextPlaced, NextKnown DEF Ready, OutcomeInv
<1> QED BY <1>1, <1>2, PTL DEF SqlSpec

\* A UnitOfWork over this adapter behaves as UnitOfWork says, so that every
\* theorem about Spec is one about it.
THEOREM SqlWithinContract == SqlSpec => WithinContract
<1>1. Ready /\ [SqlNext]_vars => [Next]_vars
  BY SqlNextAllowed
<1> QED BY <1>1, SqlInvariance, PTL DEF SqlSpec, Spec, WithinContract

\* When the root has ended its connection is back in the pool.
THEOREM EndedRootReleased == SqlSpec => []EndedRootHoldsNothing
<1>1. Ready => EndedRootHoldsNothing
  BY DEF Ready, SqlInv
<1> QED BY <1>1, SqlInvariance, PTL
=============================================================================
