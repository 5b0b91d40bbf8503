-------------------------- MODULE UnitOfWorkProofs --------------------------
(***************************************************************************)
(* The inductive invariant IInv of UnitOfWork, for any number of           *)
(* goroutines and scopes, and the safety properties that follow from it.   *)
(***************************************************************************)
EXTENDS UnitOfWork, SequenceTheorems, TLAPS

\* What the pop of a non-empty stack leaves.
LEMMA FrontFacts == ASSUME NEW S, NEW s \in Seq(S), s # <<>>
  PROVE  /\ Front(s) \in Seq(S)
         /\ Len(Front(s)) = Len(s) - 1
         /\ \A i \in 1 .. Len(s) - 1 : Front(s)[i] = s[i]
<1> DEFINE n == Len(s) - 1
<1>1. Len(s) \in Nat /\ n \in Nat
  BY EmptySeq
<1>2. \A i \in 1 .. n : s[i] \in S
  BY <1>1
<1>3. SubSeq(s, 1, n) \in Seq(S)
  BY <1>1
<1> HIDE DEF n
<1>4. Len(SubSeq(s, 1, n)) = IF 1 <= n THEN n - 1 + 1 ELSE 0
  BY <1>1, <1>2, SubSeqProperties
<1>5. \A i \in 1 .. n : SubSeq(s, 1, n)[i] = s[i]
  BY <1>1, <1>2 DEF n
<1>6. Len(SubSeq(s, 1, n)) = n
  BY <1>1, <1>4
<1> QED BY <1>3, <1>5, <1>6 DEF Front, n

\* The top of a non-empty stack, as an element of it.
LEMMA LastFacts == ASSUME NEW S, NEW s \in Seq(S), s # <<>>
  PROVE  /\ Len(s) \in Nat \ {0} /\ Last(s) = s[Len(s)] /\ Head(s) = s[1]
         /\ Last(s) \in S /\ s[1] \in S
BY EmptySeq DEF Last

\* Initially the invariant holds.
LEMMA InitIInv == Init => IInv
<1> SUFFICES ASSUME Init PROVE IInv
  OBVIOUS
<1>1. Idle \in Operation
  BY DEF Idle, Operation, PC, ScopeMode, Error
<1>1a. Unused \in ScopeState
  BY DEF Unused, ScopeState, TxStatus, Terminal, ScopeMode
<1>1b. stack \in Seq(Scopes)
  BY DEF Init
<1>2. TypeOK
  BY <1>1, <1>1a, <1>1b DEF Init, TypeOK, TxStatus, Terminal, Reason
<1>3. Exclusive /\ ScopesNest /\ HonestOutcome /\ EmulatedRollbackSticks
  BY NullAssumption DEF Init, Exclusive, ScopesNest, HonestOutcome, EmulatedRollbackSticks,
     Idle, Inside, Unused
<1>4. \A g \in Goroutines : BeginSound(g) /\ FinalizeSound(g)
  BY DEF Init, Idle, Inside, BeginSound, FinalizeSound, BeginKind, FinalizeKind
<1>5. Doomed
  BY DEF Init, Doomed, Unused, Soft
<1> QED BY <1>2, <1>3, <1>4, <1>5 DEF IInv

-----------------------------------------------------------------------------
(* Steps of the environment.                                               *)

\* A step that leaves calls, scopes and database alone and does not unmark the
\* root preserves the invariant.
LEMMA MarkPreserves ==
  ASSUME IInv, UNCHANGED <<rootStatus, stack, scope, opMu, op, backend>>,
         rollbackOnly' \in BOOLEAN, rollbackReason' \in Reason, ctxDone' \in BOOLEAN,
         rollbackOnly => rollbackOnly'
  PROVE  IInv'
<1>1. TypeOK' /\ Exclusive' /\ ScopesNest' /\ HonestOutcome'
  BY DEF IInv, TypeOK, Exclusive, ScopesNest, OnStack, HonestOutcome
<1>2. ASSUME NEW g \in Goroutines PROVE BeginSound(g)' /\ FinalizeSound(g)'
  BY <1>2 DEF IInv, BeginSound, FinalizeSound
<1>3. Doomed' /\ EmulatedRollbackSticks'
  BY DEF IInv, Doomed, Soft, CommittingRoot, Root, EmulatedRollbackSticks
<1> QED BY <1>1, <1>2, <1>3 DEF IInv

\* Queries, marks, a cancellation and an abort by the database preserve it.
LEMMA EnvironmentPreserves == ASSUME IInv, Environment PROVE IInv'
<1> USE DEF IInv, TypeOK
<1>1. CASE Query
  <2>1. rollbackOnly' \in BOOLEAN /\ rollbackReason' \in Reason
    BY <1>1 DEF Query, markCancelledIfNeeded, MarkedOnly, MarkedReason, Cancelled, Reason
  <2>2. rollbackOnly => rollbackOnly'
    BY <1>1 DEF Query, markCancelledIfNeeded, MarkedOnly
  <2> QED BY <1>1, <2>1, <2>2, MarkPreserves DEF Query
<1>2. CASE \E reason \in {"none", "user"} : SetRollbackOnly(reason)
  <2>1. rollbackReason' \in Reason
    BY <1>2 DEF SetRollbackOnly, FirstReason, MarkedReason, Reason
  <2> QED BY <1>2, <2>1, MarkPreserves DEF SetRollbackOnly
<1>3. CASE Cancel
  BY <1>3, MarkPreserves DEF Cancel, state
<1>4. CASE BackendAborts
  <2> PICK s \in Scopes : backend[s] = "open" /\ backend' = [backend EXCEPT ![s] = "rolledBack"]
    BY <1>4 DEF BackendAborts
  <2>1. TypeOK' /\ Exclusive' /\ ScopesNest' /\ HonestOutcome'
    BY <1>4 DEF BackendAborts, state, Exclusive, ScopesNest, OnStack, HonestOutcome
  <2>2. ASSUME NEW g \in Goroutines PROVE BeginSound(g)' /\ FinalizeSound(g)'
    BY <1>4, <2>2 DEF BackendAborts, state, BeginSound, FinalizeSound
  <2>3. Doomed' /\ EmulatedRollbackSticks'
    BY <1>4 DEF BackendAborts, state, Doomed, Soft, CommittingRoot, Root, EmulatedRollbackSticks
  <2> QED BY <2>1, <2>2, <2>3
<1> QED BY <1>1, <1>2, <1>3, <1>4 DEF Environment

-----------------------------------------------------------------------------
(* Steps of a call that change no scope and no database transaction.       *)

\* Such a step of g preserves the invariant if it takes opMu only when that is
\* free, keeps what is known of g's own operation, and does not pass the check
\* of a root commit while the root is marked.
LEMMA CallStepPreserves ==
  ASSUME IInv, NEW g \in Goroutines,
         UNCHANGED <<rootStatus, stack, scope, ctxDone, backend>>,
         rollbackOnly' \in BOOLEAN, rollbackReason' \in Reason, rollbackOnly => rollbackOnly',
         op' \in [Goroutines -> Operation],
         \A h \in Goroutines \ {g} : op'[h] = op[h],
         op'[g].pc \in Inside => opMu \in {g, NoOne} /\ opMu' = g,
         op'[g].pc \notin Inside => opMu' = IF opMu = g THEN NoOne ELSE opMu,
         BeginSound(g)', FinalizeSound(g)',
         CommittingRoot' => CommittingRoot \/ (rootStatus = "active" /\ ~rollbackOnly)
  PROVE  IInv'
<1> USE DEF IInv
<1>1. TypeOK' /\ ScopesNest' /\ HonestOutcome'
  BY DEF TypeOK, ScopesNest, OnStack, HonestOutcome
<1>2. Exclusive'
  BY NullAssumption DEF TypeOK, Exclusive
<1>3. ASSUME NEW h \in Goroutines PROVE BeginSound(h)' /\ FinalizeSound(h)'
  BY <1>3 DEF BeginSound, FinalizeSound
<1>4. EmulatedRollbackSticks'
  BY DEF EmulatedRollbackSticks
<1>5. Doomed'
  BY DEF Doomed, Soft, EmulatedRollbackSticks
<1> QED BY <1>1, <1>2, <1>3, <1>4, <1>5

\* What a step does to the record of its goroutine, and to no other.
LEMMA Updated ==
  ASSUME TypeOK, NEW g \in Goroutines, NEW o \in Operation, op' = [op EXCEPT ![g] = o]
  PROVE  /\ op' \in [Goroutines -> Operation] /\ op'[g] = o
         /\ \A h \in Goroutines \ {g} : op'[h] = op[h]
BY DEF TypeOK

\* A step of a goroutine that leaves opMu, or never had it, preserves it.
LEMMA OutsidePreserves ==
  ASSUME IInv, NEW g \in Goroutines, NEW o \in Operation, op' = [op EXCEPT ![g] = o],
         o.pc \notin Inside, opMu' = IF opMu = g THEN NoOne ELSE opMu,
         UNCHANGED <<rootStatus, stack, scope, ctxDone, backend>>,
         rollbackOnly' \in BOOLEAN, rollbackReason' \in Reason, rollbackOnly => rollbackOnly'
  PROVE  IInv'
<1>1. /\ op' \in [Goroutines -> Operation] /\ op'[g] = o
      /\ \A h \in Goroutines \ {g} : op'[h] = op[h]
  BY Updated DEF IInv
<1>2. BeginSound(g)' /\ FinalizeSound(g)'
  BY <1>1 DEF BeginSound, FinalizeSound, Inside
<1>3. CommittingRoot' => CommittingRoot
  BY <1>1 DEF CommittingRoot, Root, Inside
<1> QED BY <1>1, <1>2, <1>3, CallStepPreserves

\* A new call preserves it: its goroutine only waits for opMu.
LEMMA CallPreserves ==
  ASSUME IInv, NEW g \in Goroutines, CallAny(g) \/ Return(g) PROVE IInv'
<1> USE DEF IInv, TypeOK
<1>0. opMu # g \/ op[g].pc \in Inside
  BY DEF Exclusive
<1>1. ASSUME NEW kind \in BeginKind \cup FinalizeKind, NEW s \in Scopes \cup {NoScope},
             Call(g, kind, s)
      PROVE  IInv'
  <2> DEFINE o == [Idle EXCEPT !.pc = "lock", !.kind = kind, !.scope = s]
  <2>1. o \in Operation /\ o.pc \notin Inside
    BY DEF Idle, Operation, PC, ScopeMode, Error, Inside
  <2>2. opMu' = IF opMu = g THEN NoOne ELSE opMu
    BY <1>0, <1>1 DEF Call, Inside
  <2> QED BY <1>1, <2>1, <2>2, OutsidePreserves DEF Call, state
<1>2. ASSUME NEW kind \in BeginKind, CallBegin(g, kind) PROVE IInv'
  BY <1>1, <1>2 DEF CallBegin
<1>3. ASSUME NEW kind \in FinalizeKind, CallScope(g, kind) \/ CallRoot(g, kind) PROVE IInv'
  <2>1. Root # NoScope => Root \in Scopes
    BY LastFacts DEF Root
  <2> QED BY <1>1, <1>3, <2>1 DEF CallScope, CallRoot, Handles
<1>4. ASSUME NEW kind \in FinalizeKind, CallNoRoot(g, kind) PROVE IInv'
  <2> DEFINE o == [Idle EXCEPT !.pc = "done", !.kind = kind, !.ret = ScopeRefusal(NoScope)]
  <2>1. ScopeRefusal(NoScope) \in Error
    BY DEF ScopeRefusal, Error, Sentinel
  <2>2. o \in Operation /\ o.pc \notin Inside
    BY <2>1 DEF Idle, Operation, PC, ScopeMode, Error, Inside, FinalizeKind
  <2>3. opMu' = IF opMu = g THEN NoOne ELSE opMu
    BY <1>0, <1>4 DEF CallNoRoot, Inside
  <2> QED BY <1>4, <2>2, <2>3, OutsidePreserves DEF CallNoRoot, state
<1>5. CASE Return(g)
  <2>1. Idle \in Operation /\ Idle.pc \notin Inside
    BY DEF Idle, Operation, PC, ScopeMode, Error, Inside
  <2>2. opMu' = IF opMu = g THEN NoOne ELSE opMu
    BY <1>0, <1>5 DEF Return, Inside
  <2> QED BY <1>5, <2>1, <2>2, OutsidePreserves DEF Return, state
<1> QED BY <1>2, <1>3, <1>4, <1>5 DEF CallAny

\* So does a call that its checks refuse, with the mark it may have set.
LEMMA RefusePreserves ==
  ASSUME IInv, NEW g \in Goroutines, NEW err \in Error, Refuse(g, err),
         op[g].pc = "lock", opMu = NoOne,
         UNCHANGED <<rootStatus, stack, scope, ctxDone, backend>>,
         rollbackOnly' \in BOOLEAN, rollbackReason' \in Reason, rollbackOnly => rollbackOnly'
  PROVE  IInv'
<1> DEFINE o == [op[g] EXCEPT !.pc = "done",
                   !.ret = IF op[g].commitErr = {} THEN err
                           ELSE {"FinalizationFailed"} \cup op[g].commitErr \cup err]
<1>1. op[g] \in Operation
  BY DEF IInv, TypeOK
<1>2. o \in Operation /\ o.pc \notin Inside
  BY <1>1 DEF Operation, PC, Error, Sentinel, Inside
<1>3. op' = [op EXCEPT ![g] = o]
  BY <1>1 DEF Refuse, Operation, IInv, TypeOK
<1>4. opMu' = IF opMu = g THEN NoOne ELSE opMu
  BY DEF Refuse
<1> QED BY <1>2, <1>3, <1>4, OutsidePreserves

\* The record of a call that has passed its checks.
LEMMA Admitted ==
  ASSUME IInv, NEW g \in Goroutines, NEW s \in Scopes, NEW mode \in ScopeMode,
         Admit(g, s, mode), opMu = NoOne
  PROVE  /\ op' \in [Goroutines -> Operation]
         /\ \A h \in Goroutines \ {g} : op'[h] = op[h]
         /\ op'[g].pc = "before" /\ op'[g].kind = op[g].kind
         /\ op'[g].scope = s /\ op'[g].mode = mode
         /\ opMu' = g
<1> DEFINE o == [op[g] EXCEPT !.pc = "before", !.scope = s, !.mode = mode,
                   !.before = {}, !.attempt = {}]
<1>1. op[g] \in Operation
  BY DEF IInv, TypeOK
<1>2. o \in Operation
  BY <1>1 DEF Operation, PC, Error
<1>3. op' = [op EXCEPT ![g] = o]
  BY <1>1 DEF Admit, Operation, IInv, TypeOK
<1>4. /\ op' \in [Goroutines -> Operation] /\ op'[g] = o
      /\ \A h \in Goroutines \ {g} : op'[h] = op[h]
  BY <1>2, <1>3, Updated DEF IInv
<1> QED BY <1>1, <1>4 DEF Admit, Operation

\* The checks of the four operations establish what is known inside them.
LEMMA EnterPreserves == ASSUME IInv, NEW g \in Goroutines, Enter(g) PROVE IInv'
<1> USE DEF IInv, TypeOK
<1>0. markCancelledIfNeeded =>
        rollbackOnly' \in BOOLEAN /\ rollbackReason' \in Reason /\ (rollbackOnly => rollbackOnly')
  BY DEF markCancelledIfNeeded, MarkedOnly, MarkedReason, Cancelled, Reason
<1>1. CASE beginRoot(g)
  <2>1. CASE RootUsed /\ Refuse(g, {"RootOwnershipViolation"})
    <3>1. {"RootOwnershipViolation"} \in Error
      BY DEF Error, Sentinel
    <3> QED BY <1>1, <2>1, <3>1, RefusePreserves DEF beginRoot, state
  <2>2. CASE \E s \in Fresh : ~RootUsed /\ Admit(g, s, "physical")
    <3> PICK s \in Scopes : ~RootUsed /\ scope[s].status = "none" /\ Admit(g, s, "physical")
      BY <2>2 DEF Fresh
    <3>1. /\ op' \in [Goroutines -> Operation]
          /\ \A h \in Goroutines \ {g} : op'[h] = op[h]
          /\ op'[g].pc = "before" /\ op'[g].kind = "beginRoot"
          /\ op'[g].scope = s /\ op'[g].mode = "physical" /\ opMu' = g
      BY <1>1, Admitted DEF beginRoot, ScopeMode
    <3>2. BeginSound(g)' /\ FinalizeSound(g)'
      BY <1>1, <3>1 DEF beginRoot, state, RootUsed, BeginSound, FinalizeSound, BeginKind, FinalizeKind
    <3>3. CommittingRoot' => CommittingRoot
      BY <1>1, <3>1 DEF beginRoot, state, CommittingRoot, Root
    <3> QED BY <1>1, <3>1, <3>2, <3>3, CallStepPreserves DEF beginRoot, state, Inside
  <2> QED BY <1>1, <2>1, <2>2 DEF beginRoot
<1>2. CASE beginNestedScope(g)
  <2>1. CASE Refuse(g, BeginNestedRefusal)
    <3>1. BeginNestedRefusal \in Error
      BY DEF BeginNestedRefusal, Error, Sentinel
    <3> QED BY <1>0, <1>2, <2>1, <3>1, RefusePreserves DEF beginNestedScope
  <2>2. CASE \E s \in Fresh : BeginNestedRefusal = {} /\ Admit(g, s, NestedScopeMode)
    <3> PICK s \in Scopes : /\ BeginNestedRefusal = {} /\ scope[s].status = "none"
                            /\ Admit(g, s, NestedScopeMode)
      BY <2>2 DEF Fresh
    <3>0. NestedScopeMode \in ScopeMode
      BY DEF NestedScopeMode, ScopeMode
    <3>1. /\ op' \in [Goroutines -> Operation]
          /\ \A h \in Goroutines \ {g} : op'[h] = op[h]
          /\ op'[g].pc = "before" /\ op'[g].kind = "beginNested"
          /\ op'[g].scope = s /\ op'[g].mode = NestedScopeMode /\ opMu' = g
      BY <1>2, <3>0, Admitted DEF beginNestedScope
    <3>2. rootStatus = "active"
      BY DEF BeginNestedRefusal
    <3>3. NestedScopeMode = "inherited" => rollbackOnly'
      BY <1>2 DEF beginNestedScope, markCancelledIfNeeded, NestedScopeMode
    <3>4. BeginSound(g)' /\ FinalizeSound(g)'
      BY <1>2, <3>1, <3>2, <3>3 DEF beginNestedScope, BeginSound, FinalizeSound, FinalizeKind
    <3>5. CommittingRoot' => CommittingRoot
      BY <1>2, <3>1 DEF beginNestedScope, CommittingRoot, Root
    <3> QED BY <1>0, <1>2, <3>1, <3>4, <3>5, CallStepPreserves DEF beginNestedScope, Inside
  <2> QED BY <1>2, <2>1, <2>2 DEF beginNestedScope
<1>3. ASSUME NEW s, ScopeRefusal(s) = {}, stack \in Seq(Scopes)
      PROVE  /\ rootStatus = "active" /\ stack # <<>> /\ Last(stack) = s
             /\ s \in Scopes /\ scope[s].mode \in ScopeMode
  <2>1. rootStatus = "active" /\ stack # <<>> /\ Last(stack) = s
    BY <1>3 DEF ScopeRefusal
  <2> QED BY <2>1, LastFacts DEF ScopeState
<1>4. \A s : ScopeRefusal(s) \in Error /\ CommitRefusal(s) \in Error
  BY DEF ScopeRefusal, CommitRefusal, Error, Sentinel
<1>5. CASE commitScope(g)
  <2> DEFINE s == op[g].scope
  <2>1. CASE Refuse(g, CommitRefusal(s))
    BY <1>0, <1>4, <1>5, <2>1, RefusePreserves DEF commitScope
  <2>2. CASE CommitRefusal(s) = {} /\ Admit(g, s, scope[s].mode)
    <3>1. ScopeRefusal(s) = {} /\ (scope[s].depth = 0 => ~MarkedOnly)
      BY <2>2 DEF CommitRefusal
    <3>2. /\ rootStatus = "active" /\ stack # <<>> /\ Last(stack) = s
          /\ s \in Scopes /\ scope[s].mode \in ScopeMode
      BY <1>3, <3>1
    <3>3. /\ op' \in [Goroutines -> Operation]
          /\ \A h \in Goroutines \ {g} : op'[h] = op[h]
          /\ op'[g].pc = "before" /\ op'[g].kind = "commit"
          /\ op'[g].scope = s /\ op'[g].mode = scope[s].mode /\ opMu' = g
      BY <1>5, <2>2, <3>2, Admitted DEF commitScope
    <3>4. BeginSound(g)' /\ FinalizeSound(g)'
      BY <1>5, <3>2, <3>3 DEF commitScope, BeginSound, FinalizeSound, BeginKind
    <3>5. s = Root => scope[s].depth = 0
      BY <3>2, LastFacts DEF Root, ScopesNest
    <3>6. CommittingRoot' => CommittingRoot \/ (rootStatus = "active" /\ ~rollbackOnly)
      BY <1>5, <3>1, <3>2, <3>3, <3>5 DEF commitScope, CommittingRoot, Root, MarkedOnly
    <3> QED BY <1>0, <1>5, <3>3, <3>4, <3>6, CallStepPreserves DEF commitScope, Inside
  <2> QED BY <1>5, <2>1, <2>2 DEF commitScope
<1>6. CASE rollbackScope(g)
  <2> DEFINE s == op[g].scope
  <2>1. CASE Refuse(g, ScopeRefusal(s))
    BY <1>4, <1>6, <2>1, RefusePreserves DEF rollbackScope, state
  <2>2. CASE ScopeRefusal(s) = {} /\ Admit(g, s, scope[s].mode)
    <3>1. /\ rootStatus = "active" /\ stack # <<>> /\ Last(stack) = s
          /\ s \in Scopes /\ scope[s].mode \in ScopeMode
      BY <1>3, <2>2
    <3>2. /\ op' \in [Goroutines -> Operation]
          /\ \A h \in Goroutines \ {g} : op'[h] = op[h]
          /\ op'[g].pc = "before" /\ op'[g].kind = "rollback"
          /\ op'[g].scope = s /\ op'[g].mode = scope[s].mode /\ opMu' = g
      BY <1>6, <2>2, <3>1, Admitted DEF rollbackScope
    <3>3. BeginSound(g)' /\ FinalizeSound(g)'
      BY <1>6, <3>1, <3>2 DEF rollbackScope, state, BeginSound, FinalizeSound, BeginKind
    <3>4. CommittingRoot' => CommittingRoot
      BY <1>6, <3>2 DEF rollbackScope, state, CommittingRoot, Root
    <3> QED BY <1>6, <3>2, <3>3, <3>4, CallStepPreserves DEF rollbackScope, state, Inside
  <2> QED BY <1>6, <2>1, <2>2 DEF rollbackScope
<1> QED BY <1>1, <1>2, <1>5, <1>6 DEF Enter

\* The steps with which a call leaves opMu, and the one in which its Before
\* interceptors answer.
LEMMA CallbackPreserves ==
  ASSUME IInv, NEW g \in Goroutines,
         RunBefore(g) \/ Finish(g) \/ Compensate(g) \/ CallbackPanic(g)
  PROVE  IInv'
<1> USE DEF IInv, TypeOK
<1>0. op[g] \in Operation
  OBVIOUS
<1>1. CASE RunBefore(g)
  <2> PICK err \in {{}, {"Veto"}} : op' = [op EXCEPT
         ![g].before = err,
         ![g].pc = IF err # {} /\ op[g].kind # "rollback" THEN "after"
                   ELSE IF op[g].mode = "physical" THEN "adapter"
                   ELSE "publish"]
    BY <1>1 DEF RunBefore
  <2> DEFINE pc == IF err # {} /\ op[g].kind # "rollback" THEN "after"
                   ELSE IF op[g].mode = "physical" THEN "adapter" ELSE "publish"
             o == [op[g] EXCEPT !.before = err, !.pc = pc]
  <2>1. o \in Operation
    BY <1>0 DEF Operation, PC, Error, Sentinel
  <2>2. op' = [op EXCEPT ![g] = o]
    BY <1>0 DEF Operation
  <2>3. /\ op' \in [Goroutines -> Operation] /\ op'[g] = o
        /\ \A h \in Goroutines \ {g} : op'[h] = op[h]
    BY <2>1, <2>2, Updated
  <2>4. /\ o.pc = pc /\ o.kind = op[g].kind /\ o.scope = op[g].scope /\ o.mode = op[g].mode
        /\ o.attempt = op[g].attempt
    BY <1>0 DEF Operation
  <2>5. op[g].pc = "before" /\ opMu = g /\ opMu' = g
    BY <1>1 DEF RunBefore, Exclusive, Inside
  <2>6. BeginSound(g)' /\ FinalizeSound(g)'
    BY <1>1, <2>3, <2>4, <2>5 DEF RunBefore, state, BeginSound, FinalizeSound, Inside
  <2>7. CommittingRoot' => CommittingRoot
    BY <1>1, <2>3, <2>4, <2>5 DEF RunBefore, state, CommittingRoot, Root
  <2>8. op'[g].pc \in Inside
    BY <2>3, <2>4 DEF Inside
  <2> QED BY <1>1, <2>3, <2>5, <2>6, <2>7, <2>8, CallStepPreserves DEF RunBefore, state
<1>2. CASE Finish(g)
  <2> DEFINE o == [op[g] EXCEPT !.pc = "done", !.ret = Result(op[g]),
                     !.scope = IF BeginFailed(op[g]) THEN NoScope ELSE @]
  <2>1. Result(op[g]) \in Error
    BY <1>0 DEF Result, BeginResult, RollbackResult, commitFailureError, Operation, Error, Sentinel
  <2>2. o \in Operation /\ o.pc \notin Inside
    BY <1>0, <2>1 DEF Operation, PC, Inside
  <2>3. op' = [op EXCEPT ![g] = o]
    BY <1>0, <1>2 DEF Finish, Operation
  <2>4. opMu' = IF opMu = g THEN NoOne ELSE opMu
    BY <1>2 DEF Finish, Exclusive, Inside
  <2> QED BY <1>2, <2>2, <2>3, <2>4, OutsidePreserves DEF Finish, state
<1>3. CASE Compensate(g)
  <2> DEFINE o == [op[g] EXCEPT !.pc = "lock", !.kind = "rollback",
                     !.commitErr = op[g].before \cup op[g].attempt]
  <2>1. o \in Operation /\ o.pc \notin Inside
    BY <1>0 DEF Operation, PC, Inside, FinalizeKind, Error
  <2>2. op' = [op EXCEPT ![g] = o]
    BY <1>0, <1>3 DEF Compensate, Operation
  <2>3. opMu' = IF opMu = g THEN NoOne ELSE opMu
    BY <1>3 DEF Compensate, Exclusive, Inside
  <2> QED BY <1>3, <2>1, <2>2, <2>3, OutsidePreserves DEF Compensate, state
<1>4. CASE CallbackPanic(g)
  <2> DEFINE o == [op[g] EXCEPT !.pc = "done", !.ret = {"Panic"},
                     !.scope = IF op[g].kind \in BeginKind THEN NoScope ELSE @]
  <2>1. o \in Operation /\ o.pc \notin Inside
    BY <1>0 DEF Operation, PC, Inside, Error, Sentinel
  <2>2. op' = [op EXCEPT ![g] = o]
    BY <1>0, <1>4 DEF CallbackPanic, Operation
  <2>3. opMu' = IF opMu = g THEN NoOne ELSE opMu
    BY <1>4 DEF CallbackPanic, AtCallback, Exclusive, Inside
  <2> QED BY <1>4, <2>1, <2>2, <2>3, OutsidePreserves DEF CallbackPanic, state
<1> QED BY <1>1, <1>2, <1>3, <1>4

-----------------------------------------------------------------------------
(* The adapter's answer.                                                   *)

\* An answer of the adapter touches only the tx of the scope that it is about.
LEMMA AnswerPreserves ==
  ASSUME IInv, NEW g \in Goroutines, op[g].pc = "adapter",
         op[g].kind \in BeginKind \cup FinalizeKind,
         NEW err \in Error, NEW status \in {"none", "open", "committed", "rolledBack"},
         NEW next \in {"publish", "after"}, Answer(g, err, status, next),
         op[g].kind \in FinalizeKind /\ next = "publish" =>
           \/ op[g].kind = "commit" /\ status = "committed"
           \/ op[g].kind = "rollback" /\ err # {}
           \/ op[g].kind = "rollback" /\ status = "rolledBack"
  PROVE  IInv'
<1> USE DEF IInv, TypeOK
<1> DEFINE o == [op[g] EXCEPT !.attempt = err, !.pc = next]
<1>0. op[g] \in Operation
  OBVIOUS
<1>1. o \in Operation
  BY <1>0 DEF Operation, PC
<1>2. op' = [op EXCEPT ![g] = o]
  BY <1>0 DEF Answer, Operation
<1>3. /\ op' \in [Goroutines -> Operation] /\ op'[g] = o
      /\ \A h \in Goroutines \ {g} : op'[h] = op[h]
  BY <1>1, <1>2, Updated
<1>4. /\ o.pc = next /\ o.kind = op[g].kind /\ o.scope = op[g].scope /\ o.mode = op[g].mode
      /\ o.attempt = err
  BY <1>0 DEF Operation
<1>5. opMu = g /\ opMu' = g
  BY DEF Answer, Exclusive, Inside
<1>6. TypeOK'
  BY <1>3 DEF Answer, state
<1>7. Exclusive'
  BY <1>3, <1>4, <1>5 DEF Exclusive, Inside
<1>8. ScopesNest' /\ EmulatedRollbackSticks'
  BY DEF Answer, state, ScopesNest, OnStack, EmulatedRollbackSticks
<1>9. ASSUME NEW h \in Goroutines PROVE BeginSound(h)' /\ FinalizeSound(h)'
  <2>1. CASE h = g
    BY <1>3, <1>4, <2>1 DEF Answer, state, BeginSound, FinalizeSound, Inside
  <2>2. CASE h # g
    <3>1. op'[h].pc \notin Inside
      BY <1>3, <1>5, <1>9, <2>2 DEF Exclusive
    <3> QED BY <3>1 DEF BeginSound, FinalizeSound
  <2> QED BY <2>1, <2>2
<1>10. scope[op[g].scope].status \notin {"committed", "rolledBack"}
  <2>1. op[g].kind \in BeginKind => scope[op[g].scope].status = "none"
    BY DEF BeginSound, Inside
  <2>2. op[g].kind \in FinalizeKind => scope[op[g].scope].status = "active"
    <3> SUFFICES ASSUME op[g].kind \in FinalizeKind PROVE scope[op[g].scope].status = "active"
      OBVIOUS
    <3>1. stack # <<>> /\ Last(stack) = op[g].scope
      BY DEF FinalizeSound, Inside
    <3> QED BY <3>1, LastFacts DEF ScopesNest
  <2> QED BY <2>1, <2>2
<1>11. HonestOutcome'
  BY <1>10 DEF Answer, state, HonestOutcome
<1>12. Doomed'
  <2>1. CommittingRoot' => CommittingRoot
    BY <1>3, <1>4 DEF Answer, state, CommittingRoot, Root
  <2> QED BY <2>1 DEF Answer, state, Doomed, Soft
<1> QED BY <1>6, <1>7, <1>8, <1>9, <1>11, <1>12

\* Every adapter call preserves it.
LEMMA AdapterPreserves == ASSUME IInv, NEW g \in Goroutines, Adapter(g) PROVE IInv'
<1>0. {} \in Error /\ {"AdapterError"} \in Error /\ {"NestedTxUnsupported"} \in Error
  BY DEF Error, Sentinel
<1>1. CASE AdapterBegin(g)
  BY <1>0, <1>1, AnswerPreserves DEF AdapterBegin, Calling, BeginKind, FinalizeKind
<1>2. CASE AdapterBeginNested(g)
  BY <1>0, <1>2, AnswerPreserves DEF AdapterBeginNested, Calling, BeginKind, FinalizeKind
<1>3. ASSUME op[g].pc = "adapter", op[g].kind \in FinalizeKind
      PROVE  backend[op[g].scope] \in {"none", "open", "committed", "rolledBack"}
  BY <1>3 DEF IInv, FinalizeSound, TypeOK, Inside
<1>4. CASE AdapterCommit(g)
  BY <1>0, <1>3, <1>4, AnswerPreserves DEF AdapterCommit, Calling, AfterFailure, FinalizeKind
<1>5. CASE AdapterRollback(g)
  BY <1>0, <1>3, <1>5, AnswerPreserves DEF AdapterRollback, Calling, AfterFailure, FinalizeKind
<1> QED BY <1>1, <1>2, <1>4, <1>5 DEF Adapter

-----------------------------------------------------------------------------
(* Publication.                                                            *)

\* After a publication no operation is between its checks and its publication.
LEMMA Published ==
  ASSUME IInv, NEW g \in Goroutines, op[g].pc = "publish",
         op' = [op EXCEPT ![g].pc = "after"], opMu' = opMu
  PROVE  /\ op' \in [Goroutines -> Operation] /\ Exclusive' /\ ~CommittingRoot'
         /\ \A h \in Goroutines : BeginSound(h)' /\ FinalizeSound(h)'
<1> USE DEF IInv, TypeOK
<1>1. op' \in [Goroutines -> Operation] /\ op'[g].pc = "after"
  BY DEF Operation, PC
<1>2. \A h \in Goroutines \ {g} : op'[h] = op[h] /\ op[h].pc \notin Inside
  BY DEF Exclusive, Inside
<1>3. Exclusive'
  BY <1>1, <1>2 DEF Exclusive, Inside
<1>4. \A h \in Goroutines : op'[h].pc \notin Inside \ {"after"}
  BY <1>1, <1>2
<1> QED BY <1>1, <1>3, <1>4 DEF BeginSound, FinalizeSound, CommittingRoot, Inside

\* A begin pushes a fresh scope at its depth.
LEMMA PublishBeginPreserves ==
  ASSUME IInv, NEW g \in Goroutines, PublishBeginRoot(g) \/ PublishBeginNested(g) PROVE IInv'
<1> USE DEF IInv, TypeOK
<1> DEFINE s == op[g].scope
<1>1. s \in Scopes /\ scope[s].status = "none"
  BY DEF PublishBeginRoot, PublishBeginNested, BeginSound, BeginKind, Inside
<1>2. /\ op' \in [Goroutines -> Operation] /\ Exclusive' /\ ~CommittingRoot'
      /\ \A h \in Goroutines : BeginSound(h)' /\ FinalizeSound(h)'
  BY Published DEF PublishBeginRoot, PublishBeginNested
<1>3. op[g].mode \in ScopeMode
  BY DEF Operation
<1>4. CASE PublishBeginRoot(g)
  <2>1. rootStatus = "none" /\ op[g].mode = "physical"
    BY <1>4 DEF PublishBeginRoot, BeginSound, BeginKind, Inside
  <2>2. Started(g, 0) \in ScopeState
    BY <1>3 DEF Started, ScopeState, TxStatus, Terminal
  <2>2a. stack' \in Seq(Scopes) /\ scope' \in [Scopes -> ScopeState]
    BY <1>1, <1>4, <2>2 DEF PublishBeginRoot
  <2>3. TypeOK'
    BY <1>2, <1>4, <2>2a DEF PublishBeginRoot, TxStatus, Terminal, Reason
  <2>4. /\ scope'[s] = Started(g, 0) /\ stack' = <<s>>
        /\ \A t \in Scopes \ {s} : scope'[t] = scope[t] /\ scope[t].status = "none"
    BY <1>1, <1>4, <2>1 DEF PublishBeginRoot, Doomed
  <2>5. ScopesNest' /\ HonestOutcome' /\ EmulatedRollbackSticks' /\ Doomed'
    BY <1>1, <1>2, <1>4, <2>1, <2>4 DEF PublishBeginRoot, Started, ScopesNest, OnStack,
       HonestOutcome, EmulatedRollbackSticks, Doomed, Soft
  <2> QED BY <1>2, <2>3, <2>5
<1>5. CASE PublishBeginNested(g)
  <2>1. rootStatus = "active" /\ (op[g].mode = "inherited" => rollbackOnly)
    BY <1>5 DEF PublishBeginNested, BeginSound, BeginKind, Inside
  <2>2. Len(stack) \in Nat /\ Started(g, Len(stack)) \in ScopeState
    BY <1>3 DEF Started, ScopeState, TxStatus, Terminal
  <2>3. TypeOK'
    BY <1>1, <1>2, <1>5, <2>2 DEF PublishBeginNested
  <2>4. /\ scope'[s] = Started(g, Len(stack))
        /\ \A t \in Scopes \ {s} : scope'[t] = scope[t]
    BY <1>1, <1>5 DEF PublishBeginNested
  <2>5. /\ stack' = Append(stack, s) /\ stack' # <<>> /\ Len(stack') = Len(stack) + 1
        /\ stack'[Len(stack) + 1] = s
        /\ \A i \in 1 .. Len(stack) : stack'[i] = stack[i] /\ stack[i] # s
    BY <1>1, <1>5 DEF PublishBeginNested, ScopesNest
  <2>6. ScopesNest'
    <3>1. \A i \in DOMAIN stack' : scope'[stack'[i]].status = "active" /\ scope'[stack'[i]].depth = i - 1
      BY <1>5, <2>4, <2>5 DEF PublishBeginNested, Started, ScopesNest
    <3>2. ASSUME NEW t \in Scopes, scope'[t].status = "active" PROVE OnStack(t)'
      <4>1. CASE t = s
        BY <1>1, <1>5, <2>5, <4>1 DEF PublishBeginNested, OnStack
      <4>2. CASE t # s
        <5> PICK i \in DOMAIN stack : stack[i] = t
          BY <2>1, <2>4, <3>2, <4>2 DEF ScopesNest, OnStack
        <5>1. i \in DOMAIN stack' /\ stack'[i] = t
          BY <1>1, <1>5, <2>5 DEF PublishBeginNested
        <5> QED BY <5>1 DEF OnStack
      <4> QED BY <4>1, <4>2
    <3> QED BY <1>5, <2>1, <2>5, <3>1, <3>2 DEF PublishBeginNested, ScopesNest
  <2>7. HonestOutcome' /\ EmulatedRollbackSticks' /\ Doomed'
    BY <1>1, <1>2, <1>5, <2>1, <2>4 DEF PublishBeginNested, Started, HonestOutcome,
       EmulatedRollbackSticks, Doomed, Soft
  <2> QED BY <1>2, <2>3, <2>6, <2>7
<1> QED BY <1>4, <1>5

\* The top of the stack, seen from the scope that is being finished.
LEMMA TopOfStack ==
  ASSUME IInv, NEW s, stack # <<>>, Last(stack) = s
  PROVE  /\ s \in Scopes /\ rootStatus = "active" /\ scope[s].status = "active"
         /\ Len(stack) \in Nat \ {0} /\ stack[Len(stack)] = s
         /\ scope[s].depth = Len(stack) - 1
         /\ Root = stack[1] /\ Root \in Scopes
BY LastFacts DEF IInv, TypeOK, ScopesNest, Root

\* Finishing the root empties the stack and leaves no scope active.
LEMMA FinishRoot ==
  ASSUME IInv, NEW s, stack # <<>>, Last(stack) = s, scope[s].depth = 0,
         NEW status \in {"committed", "rolledBack"}, finishRootLocked(s, status),
         UNCHANGED <<ctxDone, backend>>,
         scope[s].mode = "physical" => backend[s] = status,
         status = "committed" => CommittingRoot,
         op' \in [Goroutines -> Operation], opMu' = opMu, Exclusive', ~CommittingRoot',
         \A h \in Goroutines : BeginSound(h)' /\ FinalizeSound(h)'
  PROVE  IInv'
<1> USE DEF IInv, TypeOK
<1>0. /\ s \in Scopes /\ scope[s].status = "active" /\ rootStatus = "active"
      /\ Len(stack) \in Nat \ {0} /\ stack[Len(stack)] = s /\ scope[s].depth = Len(stack) - 1
  BY TopOfStack
<1>1. /\ s \in Scopes /\ scope[s].status = "active" /\ Len(stack) = 1 /\ stack[1] = s
      /\ rootStatus = "active"
  <2>1. Len(stack) - 1 = 0
    BY <1>0
  <2>2. Len(stack) = 1
    BY <1>0, <2>1
  <2> QED BY <1>0, <2>2
<1>2. /\ scope'[s] = [scope[s] EXCEPT !.status = status]
      /\ \A t \in Scopes \ {s} : scope'[t] = scope[t]
  BY <1>1 DEF finishRootLocked
<1>3. scope'[s].status = status /\ scope'[s].mode = scope[s].mode
  BY <1>1, <1>2 DEF ScopeState
<1>4. TypeOK'
  <2>1. [scope[s] EXCEPT !.status = status] \in ScopeState
    BY <1>1 DEF ScopeState, TxStatus, Terminal
  <2>2. scope' \in [Scopes -> ScopeState] /\ stack' \in Seq(Scopes)
    BY <2>1, <1>1 DEF finishRootLocked
  <2> QED BY <2>2 DEF finishRootLocked, TxStatus, Terminal, Reason
<1>5. ScopesNest'
  BY <1>1, <1>2, <1>3 DEF finishRootLocked, ScopesNest, OnStack
<1>6. HonestOutcome'
  BY <1>1, <1>2, <1>3 DEF HonestOutcome
<1>7. EmulatedRollbackSticks' /\ Doomed'
  BY <1>1, <1>2, <1>3 DEF finishRootLocked, EmulatedRollbackSticks, Doomed, Soft
<1> QED BY <1>4, <1>5, <1>6, <1>7

\* Finishing a nested scope pops exactly that scope.
LEMMA FinishNested ==
  ASSUME IInv, NEW s, stack # <<>>, Last(stack) = s, scope[s].depth > 0,
         NEW status \in {"committed", "rolledBack"}, finishNestedLocked(s, status),
         UNCHANGED <<ctxDone, backend>>,
         rollbackOnly' \in BOOLEAN, rollbackReason' \in Reason, rollbackOnly => rollbackOnly',
         scope[s].mode = "physical" => backend[s] = status,
         Soft(s) /\ status = "rolledBack" => rollbackOnly',
         op' \in [Goroutines -> Operation], opMu' = opMu, Exclusive', ~CommittingRoot',
         \A h \in Goroutines : BeginSound(h)' /\ FinalizeSound(h)'
  PROVE  IInv'
<1> USE DEF IInv, TypeOK
<1>1. /\ s \in Scopes /\ scope[s].status = "active" /\ rootStatus = "active"
      /\ Len(stack) \in Nat \ {0} /\ stack[Len(stack)] = s /\ scope[s].depth = Len(stack) - 1
  BY TopOfStack
<1>2. /\ scope'[s] = [scope[s] EXCEPT !.status = status]
      /\ \A t \in Scopes \ {s} : scope'[t] = scope[t]
  BY <1>1 DEF finishNestedLocked
<1>3. scope'[s].status = status /\ scope'[s].mode = scope[s].mode
  BY <1>1, <1>2 DEF ScopeState
<1>4. /\ stack' \in Seq(Scopes) /\ Len(stack') = Len(stack) - 1 /\ stack' # <<>>
      /\ \A i \in 1 .. Len(stack) - 1 : stack'[i] = stack[i] /\ stack[i] # s
  BY <1>1, FrontFacts DEF finishNestedLocked, ScopesNest
<1>5. TypeOK'
  <2>1. [scope[s] EXCEPT !.status = status] \in ScopeState
    BY <1>1 DEF ScopeState, TxStatus, Terminal
  <2>2. scope' \in [Scopes -> ScopeState]
    BY <2>1, <1>1 DEF finishNestedLocked
  <2> QED BY <1>4, <2>2 DEF finishNestedLocked
<1>6. ScopesNest'
  <2>1. \A i \in DOMAIN stack' : scope'[stack'[i]].status = "active" /\ scope'[stack'[i]].depth = i - 1
    <3>1. \A i \in 1 .. Len(stack) - 1 :
            /\ stack[i] \in Scopes
            /\ scope[stack[i]].status = "active" /\ scope[stack[i]].depth = i - 1
      BY <1>1 DEF ScopesNest
    <3>2. DOMAIN stack' = 1 .. Len(stack) - 1
      BY <1>1, <1>4
    <3> QED BY <1>2, <1>4, <3>1, <3>2
  <2>2. ASSUME NEW t \in Scopes, scope'[t].status = "active" PROVE OnStack(t)'
    <3>1. t # s /\ scope[t].status = "active"
      BY <1>2, <1>3, <2>2
    <3> PICK i \in DOMAIN stack : stack[i] = t
      BY <1>1, <3>1 DEF ScopesNest, OnStack
    <3>2. i \in DOMAIN stack' /\ stack'[i] = t
      BY <1>1, <1>4, <3>1
    <3> QED BY <3>2 DEF OnStack
  <2> QED BY <1>1, <1>4, <2>1, <2>2 DEF finishNestedLocked, ScopesNest
<1>7. HonestOutcome'
  BY <1>1, <1>2, <1>3 DEF HonestOutcome
<1>8. EmulatedRollbackSticks' /\ Doomed'
  BY <1>1, <1>2, <1>3 DEF finishNestedLocked, EmulatedRollbackSticks, Doomed, Soft
<1> QED BY <1>5, <1>6, <1>7, <1>8

\* A failing rollback ends the execution.
LEMMA FailExecution ==
  ASSUME IInv, NEW s, stack # <<>>, Last(stack) = s, failExecutionLocked(s),
         UNCHANGED <<ctxDone, backend>>,
         op' \in [Goroutines -> Operation], opMu' = opMu, Exclusive', ~CommittingRoot',
         \A h \in Goroutines : BeginSound(h)' /\ FinalizeSound(h)'
  PROVE  IInv'
<1> USE DEF IInv, TypeOK
<1>1. \A t \in Scopes : /\ scope'[t] \in ScopeState
                        /\ scope'[t].mode = scope[t].mode
                        /\ scope'[t].status \in {"failed", scope[t].status}
  BY DEF failExecutionLocked, ScopeState, TxStatus, Terminal
<1>2. TypeOK'
  <2>1. scope' \in [Scopes -> ScopeState] /\ stack' \in Seq(Scopes)
    BY <1>1, TopOfStack DEF failExecutionLocked
  <2> QED BY <2>1 DEF failExecutionLocked, TxStatus, Terminal, Reason
<1>3. ScopesNest' /\ HonestOutcome' /\ EmulatedRollbackSticks' /\ Doomed'
  BY <1>1 DEF failExecutionLocked, ScopesNest, OnStack, HonestOutcome,
     EmulatedRollbackSticks, Doomed, Soft
<1> QED BY <1>2, <1>3

\* A commit or a rollback publishes one of those three endings.
LEMMA PublishFinalizePreserves ==
  ASSUME IInv, NEW g \in Goroutines, PublishCommit(g) \/ PublishRollback(g) PROVE IInv'
<1> DEFINE s == op[g].scope
<1>1. /\ op' \in [Goroutines -> Operation] /\ opMu' = opMu /\ Exclusive' /\ ~CommittingRoot'
      /\ \A h \in Goroutines : BeginSound(h)' /\ FinalizeSound(h)'
  BY Published DEF PublishCommit, PublishRollback
<1>2. /\ stack # <<>> /\ Last(stack) = s
      /\ scope[s].mode = "physical" =>
           \/ op[g].kind = "commit" /\ backend[s] = "committed"
           \/ op[g].kind = "rollback" /\ op[g].attempt # {}
           \/ op[g].kind = "rollback" /\ backend[s] = "rolledBack"
  BY DEF IInv, FinalizeSound, PublishCommit, PublishRollback, FinalizeKind, Inside
<1>3. rollbackOnly \in BOOLEAN /\ rollbackReason \in Reason
  BY DEF IInv, TypeOK
<1>4. CASE PublishCommit(g)
  <2>1. scope[s].depth = 0 => CommittingRoot
    <3>1. scope[s].depth = 0 => Root = s
      BY <1>2, TopOfStack
    <3> QED BY <1>4, <3>1 DEF PublishCommit, CommittingRoot
  <2>2. CASE scope[s].depth = 0 /\ finishRootLocked(s, "committed")
    BY <1>1, <1>2, <1>4, <2>1, <2>2, FinishRoot DEF PublishCommit
  <2>3. CASE scope[s].depth > 0 /\ finishNestedLocked(s, "committed")
             /\ UNCHANGED <<rollbackOnly, rollbackReason>>
    BY <1>1, <1>2, <1>3, <1>4, <2>3, FinishNested DEF PublishCommit
  <2> QED BY <1>4, <2>2, <2>3 DEF PublishCommit
<1>5. CASE PublishRollback(g)
  <2>1. CASE failExecutionLocked(s)
    BY <1>1, <1>2, <1>5, <2>1, FailExecution DEF PublishRollback
  <2>2. CASE RolledBack(g) /\ scope[s].depth = 0 /\ finishRootLocked(s, "rolledBack")
    BY <1>1, <1>2, <1>5, <2>2, FinishRoot DEF PublishRollback, RolledBack
  <2>3. CASE /\ RolledBack(g) /\ scope[s].depth > 0
             /\ finishNestedLocked(s, "rolledBack")
             /\ rollbackOnly' = (rollbackOnly \/ Dooms(s))
             /\ rollbackReason' =
                  IF Dooms(s) THEN FirstReason(rollbackReason, "scope") ELSE rollbackReason
    <3>1. rollbackOnly' \in BOOLEAN /\ (rollbackOnly => rollbackOnly')
      BY <1>3, <2>3 DEF Dooms
    <3>2. rollbackReason' \in Reason
      BY <1>3, <2>3 DEF FirstReason, Reason
    <3>3. Soft(s) => rollbackOnly'
      <4>1. /\ s \in Scopes /\ scope[s].status = "active" /\ rootStatus = "active"
            /\ scope[s].mode \in ScopeMode
        BY <1>2, TopOfStack DEF IInv, TypeOK, ScopeState
      <4>2. scope[s].mode = "inherited" => rollbackOnly
        BY <4>1 DEF IInv, Doomed
      <4> QED BY <1>3, <2>3, <4>1, <4>2 DEF Dooms, Soft, ScopeMode
    <3> QED BY <1>1, <1>2, <1>5, <2>3, <3>1, <3>2, <3>3, FinishNested DEF PublishRollback, RolledBack
  <2> QED BY <1>5, <2>1, <2>2, <2>3 DEF PublishRollback
<1> QED BY <1>4, <1>5

-----------------------------------------------------------------------------
(* The invariant and what follows from it.                                 *)

\* Every step preserves the inductive invariant.
LEMMA NextIInv == IInv /\ [Next]_vars => IInv'
<1> SUFFICES ASSUME IInv, [Next]_vars PROVE IInv'
  OBVIOUS
<1>1. CASE Environment
  BY <1>1, EnvironmentPreserves
<1>2. ASSUME NEW g \in Goroutines, CallAny(g) \/ Step(g) \/ Return(g) PROVE IInv'
  BY <1>2, CallPreserves, EnterPreserves, CallbackPreserves, AdapterPreserves,
     PublishBeginPreserves, PublishFinalizePreserves DEF Step, Progress, Publish
<1>3. CASE UNCHANGED vars
  BY <1>3, MarkPreserves DEF vars, state, IInv, TypeOK
<1> QED BY <1>1, <1>2, <1>3 DEF Next

\* In every reachable state the inductive invariant holds.
THEOREM Invariance == Spec => []IInv
BY InitIInv, NextIInv, PTL DEF Spec

\* The variables keep their types.
THEOREM TypeCorrect == Spec => []TypeOK
<1>1. IInv => TypeOK
  BY DEF IInv
<1> QED BY <1>1, Invariance, PTL

\* The active scopes are the stack, and the stack is the active scopes.
THEOREM StackDiscipline == Spec => []ScopesNest
<1>1. IInv => ScopesNest
  BY DEF IInv
<1> QED BY <1>1, Invariance, PTL

\* The blind pop of finishNestedLocked removes the scope being finished.
THEOREM PopsItsOwnScope == Spec => []FinalizesTop
<1>1. IInv => FinalizesTop
  BY DEF IInv, FinalizeSound, FinalizesTop, Inside
<1> QED BY <1>1, Invariance, PTL

\* A committed or rolled back scope agrees with the database.
THEOREM OutcomeIsHonest == Spec => []HonestOutcome
<1>1. IInv => HonestOutcome
  BY DEF IInv
<1> QED BY <1>1, Invariance, PTL

\* After an emulated rollback the root does not commit.
THEOREM EmulationIsSafe == Spec => []EmulatedRollbackSticks
<1>1. IInv => EmulatedRollbackSticks
  BY DEF IInv
<1> QED BY <1>1, Invariance, PTL
=============================================================================
