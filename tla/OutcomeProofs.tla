---------------------------- MODULE OutcomeProofs ----------------------------
(***************************************************************************)
(* What becomes of the database's transactions and what the callers are    *)
(* told: no open transaction is out of reach, and the error that a call    *)
(* returns tells how its scope ended.                                      *)
(***************************************************************************)
EXTENDS UnitOfWorkRefinement

-----------------------------------------------------------------------------
(* What a step does to the record of its goroutine.                        *)

\* The other goroutines keep their records.
OthersKept(g) == \A h \in Goroutines \ {g} : op'[h] = op[h]
\* The program's state is kept, the mark apart, and the database.
StateKept == UNCHANGED <<rootStatus, stack, scope, ctxDone, backend>>

\* A call that begins waits for opMu, or has already been refused; one that
\* returns is forgotten.
LEMMA OutsideStep ==
  ASSUME TypeOK, NEW g \in Goroutines, CallAny(g) \/ Return(g)
  PROVE  /\ StateKept /\ UNCHANGED <<rollbackOnly, rollbackReason, opMu>> /\ OthersKept(g)
         /\ op'[g].before = {} /\ op'[g].attempt = {} /\ op'[g].commitErr = {}
         /\ \/ /\ op[g].pc = "idle" /\ op'[g].pc = "lock"
               /\ \/ op'[g].kind \in BeginKind /\ op'[g].scope = NoScope
                  \/ op'[g].kind \in FinalizeKind /\ op'[g].scope \in Scopes
            \/ /\ op[g].pc = "idle" /\ op'[g].pc = "done"
               /\ op'[g].kind \in FinalizeKind /\ op'[g].scope = NoScope
               /\ op'[g].ret = ScopeRefusal(NoScope) /\ stack = <<>>
            \/ op[g].pc = "done" /\ op'[g] = Idle
<1> USE DEF TypeOK, OthersKept, StateKept, state
<1>1. Root # NoScope => Root \in Scopes
  BY LastFacts DEF Root
<1>2. ASSUME NEW kind \in BeginKind \cup FinalizeKind, NEW s \in Scopes \cup {NoScope},
             Call(g, kind, s)
      PROVE  /\ op[g].pc = "idle" /\ op'[g].pc = "lock"
             /\ op'[g].kind = kind /\ op'[g].scope = s
             /\ op'[g].before = {} /\ op'[g].attempt = {} /\ op'[g].commitErr = {}
             /\ StateKept /\ UNCHANGED <<rollbackOnly, rollbackReason, opMu>> /\ OthersKept(g)
  BY <1>2 DEF Call, Idle
<1>3. ASSUME NEW kind \in FinalizeKind, CallNoRoot(g, kind)
      PROVE  /\ op[g].pc = "idle" /\ op'[g].pc = "done" /\ stack = <<>>
             /\ op'[g].kind = kind /\ op'[g].scope = NoScope
             /\ op'[g].ret = ScopeRefusal(NoScope)
             /\ op'[g].before = {} /\ op'[g].attempt = {} /\ op'[g].commitErr = {}
             /\ StateKept /\ UNCHANGED <<rollbackOnly, rollbackReason, opMu>> /\ OthersKept(g)
  <2>1. stack = <<>>
    BY <1>3, LastFacts, NullAssumption DEF CallNoRoot, Root
  <2> QED BY <1>3, <2>1 DEF CallNoRoot, Idle
<1>4. CASE Return(g)
  BY <1>4 DEF Return, Idle
<1> HIDE DEF TypeOK, OthersKept, StateKept, state
<1>5. ASSUME NEW kind \in BeginKind, CallBegin(g, kind)
      PROVE  Call(g, kind, NoScope)
  BY <1>5 DEF CallBegin
<1>6. ASSUME NEW kind \in FinalizeKind, CallScope(g, kind) \/ CallRoot(g, kind)
      PROVE  \E s \in Scopes : Call(g, kind, s)
  BY <1>1, <1>6 DEF CallScope, CallRoot, Handles
<1> QED BY <1>2, <1>3, <1>4, <1>5, <1>6 DEF CallAny

\* What a refusal answers.
Refusals == {"RootOwnershipViolation", "NoActiveTransaction", "RollbackOnly",
  "TxAlreadyClosed", "ScopeOrderViolation"}

\* A call that enters is refused with an error, or admitted: a begin with a
\* fresh scope, a commit or a rollback with the top of the stack.
LEMMA EnterStep ==
  ASSUME IInv, NEW g \in Goroutines, Enter(g)
  PROVE  /\ StateKept /\ OthersKept(g) /\ op[g].pc = "lock" /\ opMu = NoOne
         /\ op'[g].kind = op[g].kind /\ op'[g].commitErr = op[g].commitErr
         /\ op[g].kind \in BeginKind \cup FinalizeKind
         /\ \/ /\ op'[g].pc = "done" /\ op'[g].scope = op[g].scope /\ opMu' = opMu
               /\ op'[g].before = op[g].before /\ op'[g].attempt = op[g].attempt
               /\ \E err \in SUBSET Refusals :
                    /\ err # {}
                    /\ op'[g].ret = IF op[g].commitErr = {} THEN err
                                    ELSE {"FinalizationFailed"} \cup op[g].commitErr \cup err
                    /\ op[g].kind = "commit" => err = CommitRefusal(op[g].scope)
                    /\ op[g].kind = "rollback" => err = ScopeRefusal(op[g].scope)
            \/ /\ op'[g].pc = "before" /\ op'[g].before = {} /\ op'[g].attempt = {}
               /\ opMu' = g /\ op'[g].scope \in Scopes
               /\ op[g].kind \in BeginKind => op'[g].scope \in Fresh
               /\ op[g].kind \in FinalizeKind =>
                    /\ op'[g].scope = op[g].scope /\ ScopeRefusal(op[g].scope) = {}
                    /\ op'[g].mode = scope[op[g].scope].mode
<1> USE DEF IInv, TypeOK, OthersKept, StateKept, state
<1>0. op[g] \in Operation
  OBVIOUS
<1>1. ASSUME NEW err \in SUBSET Refusals, Refuse(g, err)
      PROVE  /\ op'[g].pc = "done" /\ op'[g].scope = op[g].scope /\ opMu' = opMu
             /\ op'[g].kind = op[g].kind /\ op'[g].commitErr = op[g].commitErr
             /\ op'[g].before = op[g].before /\ op'[g].attempt = op[g].attempt
             /\ op'[g].ret = IF op[g].commitErr = {} THEN err
                             ELSE {"FinalizationFailed"} \cup op[g].commitErr \cup err
             /\ OthersKept(g)
  BY <1>0, <1>1 DEF Refuse, Operation
<1>2. ASSUME NEW s, NEW mode, Admit(g, s, mode)
      PROVE  /\ op'[g].pc = "before" /\ op'[g].before = {} /\ op'[g].attempt = {}
             /\ op'[g].kind = op[g].kind /\ op'[g].commitErr = op[g].commitErr
             /\ op'[g].scope = s /\ op'[g].mode = mode /\ opMu' = g /\ OthersKept(g)
  BY <1>0, <1>2 DEF Admit, Operation
<1>3. BeginNestedRefusal \in SUBSET Refusals
  BY DEF BeginNestedRefusal, Refusals
<1>4. \A s : ScopeRefusal(s) \in SUBSET Refusals /\ CommitRefusal(s) \in SUBSET Refusals
  BY DEF ScopeRefusal, CommitRefusal, Refusals
<1>5. ASSUME NEW s, ScopeRefusal(s) = {} PROVE s \in Scopes
  <2>1. stack # <<>> /\ Last(stack) = s
    BY <1>5 DEF ScopeRefusal
  <2> QED BY <2>1, LastFacts
<1>6. \A s : CommitRefusal(s) = {} => ScopeRefusal(s) = {}
  BY DEF CommitRefusal
<1> HIDE DEF IInv, TypeOK, OthersKept
<1>7. CASE beginRoot(g)
  <2>1. CASE Refuse(g, {"RootOwnershipViolation"})
    <3>1. {"RootOwnershipViolation"} \in SUBSET Refusals
      BY DEF Refusals
    <3> HIDE DEF Refusals
    <3> QED BY <1>1, <1>7, <2>1, <3>1 DEF beginRoot, BeginKind
  <2>2. CASE \E s \in Fresh : Admit(g, s, "physical")
    BY <1>2, <1>7, <2>2 DEF beginRoot, Fresh, BeginKind, FinalizeKind
  <2> QED BY <1>7, <2>1, <2>2 DEF beginRoot
<1>8. CASE beginNestedScope(g)
  <2>1. CASE BeginNestedRefusal # {} /\ Refuse(g, BeginNestedRefusal)
    BY <1>1, <1>3, <1>8, <2>1 DEF beginNestedScope, BeginKind
  <2>2. CASE \E s \in Fresh : Admit(g, s, NestedScopeMode)
    BY <1>2, <1>8, <2>2 DEF beginNestedScope, Fresh, BeginKind, FinalizeKind
  <2> QED BY <1>8, <2>1, <2>2 DEF beginNestedScope
<1>9. CASE commitScope(g)
  <2>1. CASE CommitRefusal(op[g].scope) # {} /\ Refuse(g, CommitRefusal(op[g].scope))
    BY <1>1, <1>4, <1>9, <2>1 DEF commitScope, FinalizeKind
  <2>2. CASE CommitRefusal(op[g].scope) = {} /\ Admit(g, op[g].scope, scope[op[g].scope].mode)
    BY <1>2, <1>5, <1>6, <1>9, <2>2 DEF commitScope, BeginKind, FinalizeKind
  <2> QED BY <1>9, <2>1, <2>2 DEF commitScope
<1>10. CASE rollbackScope(g)
  <2>1. CASE ScopeRefusal(op[g].scope) # {} /\ Refuse(g, ScopeRefusal(op[g].scope))
    BY <1>1, <1>4, <1>10, <2>1 DEF rollbackScope, FinalizeKind
  <2>2. CASE ScopeRefusal(op[g].scope) = {} /\ Admit(g, op[g].scope, scope[op[g].scope].mode)
    BY <1>2, <1>5, <1>10, <2>2 DEF rollbackScope, BeginKind, FinalizeKind
  <2> QED BY <1>10, <2>1, <2>2 DEF rollbackScope
<1> QED BY <1>7, <1>8, <1>9, <1>10 DEF Enter

\* The steps of a call that touch neither scopes nor database.
LEMMA InnerStep ==
  ASSUME IInv, NEW g \in Goroutines,
         RunBefore(g) \/ Finish(g) \/ Compensate(g) \/ CallbackPanic(g)
  PROVE  /\ StateKept /\ UNCHANGED <<rollbackOnly, rollbackReason>> /\ OthersKept(g)
         /\ op'[g].before \in SUBSET (op[g].before \cup {"Veto"})
         /\ op'[g].attempt = op[g].attempt /\ op'[g].mode = op[g].mode
         /\ \/ /\ op[g].pc = "before" /\ UNCHANGED opMu
               /\ op'[g].kind = op[g].kind /\ op'[g].scope = op[g].scope
               /\ op'[g].commitErr = op[g].commitErr /\ op'[g].before \in {{}, {"Veto"}}
               /\ \/ op'[g].pc = "after" /\ op'[g].before # {} /\ op[g].kind # "rollback"
                  \/ op'[g].pc = "adapter" /\ op[g].mode = "physical"
                  \/ op'[g].pc = "publish" /\ op[g].mode # "physical"
               /\ op'[g].pc = "after" \/ op'[g].before = {} \/ op[g].kind = "rollback"
            \/ /\ op[g].pc = "after" /\ ~CommitFailed(g) /\ op'[g].pc = "done" /\ opMu' = NoOne
               /\ op'[g].before = op[g].before /\ op'[g].ret = Result(op[g])
               /\ op'[g].kind = op[g].kind /\ op'[g].commitErr = op[g].commitErr
               /\ op'[g].scope = IF BeginFailed(op[g]) THEN NoScope ELSE op[g].scope
            \/ /\ op[g].pc = "after" /\ CommitFailed(g) /\ op'[g].pc = "lock" /\ opMu' = NoOne
               /\ op'[g].kind = "rollback" /\ op'[g].scope = op[g].scope
               /\ op'[g].before = op[g].before
               /\ op'[g].commitErr = op[g].before \cup op[g].attempt
            \/ /\ CallbackPanics /\ op[g].pc \in Inside /\ op'[g].pc = "done" /\ opMu' = NoOne
               /\ op[g].pc = "publish" => op[g].kind \in BeginKind
               /\ op'[g].ret = {"Panic"} /\ op'[g].before = op[g].before
               /\ op'[g].kind = op[g].kind /\ op'[g].commitErr = op[g].commitErr
               /\ op'[g].scope = IF op[g].kind \in BeginKind THEN NoScope ELSE op[g].scope
<1> USE DEF IInv, TypeOK, OthersKept, StateKept, state
<1>0. op[g] \in Operation
  OBVIOUS
<1>1. CASE RunBefore(g)
  BY <1>0, <1>1 DEF RunBefore, Operation
<1>2. CASE Finish(g)
  BY <1>0, <1>2 DEF Finish, Operation
<1>3. CASE Compensate(g)
  BY <1>0, <1>3 DEF Compensate, Operation
<1>4. CASE CallbackPanic(g)
  BY <1>0, <1>4 DEF CallbackPanic, AtCallback, Operation, Inside
<1> QED BY <1>1, <1>2, <1>3, <1>4

\* An answer of the adapter.
LEMMA AdapterStep ==
  ASSUME IInv, NEW g \in Goroutines, Adapter(g)
  PROVE  /\ UNCHANGED <<rootStatus, stack, scope, rollbackOnly, rollbackReason, ctxDone, opMu>>
         /\ OthersKept(g)
         /\ op[g].pc = "adapter" /\ op[g].scope \in Scopes /\ opMu = g
         /\ op'[g].pc \in {"publish", "after"}
         /\ op'[g].kind = op[g].kind /\ op'[g].scope = op[g].scope /\ op'[g].mode = op[g].mode
         /\ op'[g].before = op[g].before /\ op'[g].commitErr = op[g].commitErr
         /\ op'[g].attempt \in {{}, {"AdapterError"}, {"NestedTxUnsupported"}}
         /\ \A s \in Scopes \ {op[g].scope} : backend'[s] = backend[s]
         /\ op[g].kind \in BeginKind =>
              \/ op'[g].pc = "publish" /\ op'[g].attempt = {} /\ backend'[op[g].scope] = "open"
              \/ op'[g].pc = "after" /\ op'[g].attempt # {} /\ backend'[op[g].scope] = "none"
         /\ op[g].kind = "commit" =>
              \/ /\ op'[g].pc = "publish" /\ op'[g].attempt = {}
                 /\ backend'[op[g].scope] = "committed"
              \/ op'[g].pc = "after" /\ op'[g].attempt # {}
         /\ op[g].kind = "rollback" =>
              /\ op'[g].pc = "publish"
              /\ op'[g].attempt = {} => backend'[op[g].scope] = "rolledBack"
<1> USE DEF IInv, TypeOK
<1>0. op[g] \in Operation
  OBVIOUS
<1>1. ASSUME NEW err, NEW status, NEW next, Answer(g, err, status, next), op[g].scope \in Scopes
      PROVE  /\ UNCHANGED <<rootStatus, stack, scope, rollbackOnly, rollbackReason, ctxDone, opMu>>
             /\ OthersKept(g)
             /\ op'[g].pc = next /\ op'[g].kind = op[g].kind /\ op'[g].scope = op[g].scope
             /\ op'[g].before = op[g].before /\ op'[g].commitErr = op[g].commitErr
             /\ op'[g].mode = op[g].mode /\ op'[g].attempt = err
             /\ backend'[op[g].scope] = status
             /\ \A s \in Scopes \ {op[g].scope} : backend'[s] = backend[s]
  BY <1>0, <1>1 DEF Answer, state, OthersKept, Operation
<1>2. op[g].pc = "adapter" /\ op[g].kind \in BeginKind \cup FinalizeKind
  BY DEF Adapter, AdapterBegin, AdapterBeginNested, AdapterCommit, AdapterRollback, Calling,
     BeginKind, FinalizeKind
<1>3. op[g].scope \in Scopes /\ opMu = g
  BY <1>2 DEF BeginSound, FinalizeSound, Exclusive, Inside
<1> HIDE DEF IInv, TypeOK
<1>4. CASE AdapterBegin(g)
  BY <1>1, <1>2, <1>3, <1>4 DEF AdapterBegin, Calling, BeginKind
<1>5. CASE AdapterBeginNested(g)
  BY <1>1, <1>2, <1>3, <1>5 DEF AdapterBeginNested, Calling, BeginKind
<1>6. CASE AdapterCommit(g)
  BY <1>1, <1>2, <1>3, <1>6 DEF AdapterCommit, Calling, BeginKind
<1>7. CASE AdapterRollback(g)
  BY <1>1, <1>2, <1>3, <1>7 DEF AdapterRollback, Calling, BeginKind
<1> QED BY <1>4, <1>5, <1>6, <1>7 DEF Adapter

\* A publication begins a scope, or ends the one on top of the stack.
LEMMA PublishStep ==
  ASSUME IInv, NEW g \in Goroutines, Publish(g)
  PROVE  /\ UNCHANGED <<ctxDone, opMu, backend>> /\ OthersKept(g)
         /\ op[g].pc = "publish" /\ op[g].scope \in Scopes /\ opMu = g
         /\ op'[g].pc = "after" /\ op'[g].kind = op[g].kind /\ op'[g].scope = op[g].scope
         /\ op'[g].before = op[g].before /\ op'[g].attempt = op[g].attempt
         /\ op'[g].commitErr = op[g].commitErr /\ op'[g].mode = op[g].mode
         /\ \/ PublishBeginRoot(g) /\ rootStatus = "none" /\ op[g].mode = "physical"
            \/ PublishBeginNested(g) /\ rootStatus = "active"
            \/ PublishCommit(g) /\ rootStatus = "active" /\ Last(stack) = op[g].scope
            \/ PublishRollback(g) /\ rootStatus = "active" /\ Last(stack) = op[g].scope
<1> USE DEF IInv, TypeOK
<1>0. op[g] \in Operation
  OBVIOUS
<1>1. /\ op[g].pc = "publish" /\ op[g].kind \in BeginKind \cup FinalizeKind
      /\ op' = [op EXCEPT ![g].pc = "after"] /\ UNCHANGED <<ctxDone, opMu, backend>>
  BY DEF Publish, PublishBeginRoot, PublishBeginNested, PublishCommit, PublishRollback,
     BeginKind, FinalizeKind
<1>2. op[g].scope \in Scopes /\ opMu = g
  BY <1>1 DEF BeginSound, FinalizeSound, Exclusive, Inside
<1>3. /\ op[g].kind \in FinalizeKind =>
           rootStatus = "active" /\ stack # <<>> /\ Last(stack) = op[g].scope
      /\ op[g].kind = "beginRoot" => rootStatus = "none" /\ op[g].mode = "physical"
      /\ op[g].kind = "beginNested" => rootStatus = "active"
  BY <1>1 DEF BeginSound, FinalizeSound, Inside, ScopesNest, BeginKind
<1>4. /\ OthersKept(g)
      /\ op'[g].pc = "after" /\ op'[g].kind = op[g].kind /\ op'[g].scope = op[g].scope
      /\ op'[g].before = op[g].before /\ op'[g].attempt = op[g].attempt
      /\ op'[g].commitErr = op[g].commitErr /\ op'[g].mode = op[g].mode
  BY <1>0, <1>1 DEF OthersKept, Operation
<1> HIDE DEF IInv, TypeOK
<1> QED BY <1>1, <1>2, <1>3, <1>4 DEF Publish, PublishBeginRoot, PublishBeginNested,
           PublishCommit, PublishRollback, FinalizeKind

\* Nothing but a publication changes the root, the stack or a scope, and a step
\* of one goroutine changes no other's record.
LEMMA OnlyPublications ==
  ASSUME IInv, NEW g \in Goroutines, CallAny(g) \/ Step(g) \/ Return(g)
  PROVE  OthersKept(g) /\ (Publish(g) \/ UNCHANGED <<rootStatus, stack, scope>>)
BY OutsideStep, EnterStep, InnerStep, AdapterStep, PublishStep DEF IInv, StateKept, Step, Progress

-----------------------------------------------------------------------------
(* What is known besides IInv.                                             *)

\* The scope of the root has the status of the root, and an execution fails as
\* a whole.
RootAgrees == \A s \in Scopes :
  /\ scope[s].status # "none" /\ scope[s].depth = 0 => scope[s].status = rootStatus
  /\ scope[s].status = "failed" => rootStatus = "failed"

\* The adapter is called for physical scopes only, and a transaction comes into
\* being between a begin's checks and its publication.
InPlace(g) ==
  /\ op[g].pc = "adapter" => op[g].mode = "physical"
  /\ op[g].kind \in BeginKind =>
       /\ op[g].pc \in {"before", "adapter"} => backend[op[g].scope] = "none"
       /\ op[g].pc = "publish" /\ op[g].mode # "physical" => backend[op[g].scope] = "none"
Publishing(s) == \E g \in Goroutines :
  op[g].kind \in BeginKind /\ op[g].pc = "publish" /\ op[g].scope = s
Placed ==
  /\ \A g \in Goroutines : InPlace(g)
  /\ \A s \in Scopes :
       /\ scope[s].status # "none" /\ Soft(s) => backend[s] = "none"
       /\ backend[s] = "open" =>
            OnStack(s) \/ Publishing(s) \/ rootStatus = "failed" \/ CallbackPanics

\* What interceptors and the adapter answer, and when there is no error yet.
Given == {"Veto", "AdapterError", "NestedTxUnsupported"}
ErrorsGiven(g) ==
  /\ op[g].before \cup op[g].attempt \cup op[g].commitErr \subseteq Given
  /\ op[g].pc \in {"before", "adapter"} => op[g].attempt = {}
  /\ op[g].pc \in {"adapter", "publish"} /\ op[g].kind # "rollback" => op[g].before = {}
  /\ op[g].pc = "publish" /\ op[g].kind # "rollback" => op[g].attempt = {}

\* What the After interceptors of a call may rely on.
Concluded(o) ==
  LET status == scope[o.scope].status IN
  /\ o.scope \in Scopes
  /\ o.kind \in BeginKind /\ ~BeginFailed(o) => status # "none"
  /\ o.kind = "commit" /\ o.before \cup o.attempt = {} => status = "committed"
  /\ o.kind = "rollback" =>
       IF o.attempt = {} THEN status = "rolledBack"
       ELSE status = "failed" /\ rootStatus = "failed"

\* ResultTellsOutcome, of one call.
Told(o) ==
  o.pc = "done" /\ o.scope # NoScope =>
    LET status == scope[o.scope].status IN
    /\ o.ret = {} =>
         CASE o.kind = "commit" -> status = "committed"
           [] o.kind = "rollback" -> status = "rolledBack"
           [] OTHER -> status # "none"
    /\ "CommitAborted" \in o.ret => status = "rolledBack"
    /\ "RollbackFailed" \in o.ret => status = "failed" /\ rootStatus = "failed"

Aware(g) ==
  /\ op[g].pc # "idle" => op[g].kind \in BeginKind \cup FinalizeKind
  /\ ErrorsGiven(g)
  /\ op[g].pc = "after" => Concluded(op[g])
  /\ Told(op[g])
Known == \A g \in Goroutines : Aware(g)

\* The inductive invariant of this module, given IInv.
OutcomeInv == RootAgrees /\ Placed /\ Known

-----------------------------------------------------------------------------
(* What a publication does to the scopes.                                  *)

\* A begin puts its scope on the stack and leaves the others alone.
LEMMA PublishedBegin ==
  ASSUME IInv, NEW g \in Goroutines, PublishBeginRoot(g) \/ PublishBeginNested(g)
  PROVE  /\ scope[op[g].scope].status = "none" /\ rootStatus' = "active"
         /\ scope'[op[g].scope].status = "active"
         /\ scope'[op[g].scope].mode = op[g].mode
         /\ PublishBeginRoot(g) => scope'[op[g].scope].depth = 0
         /\ PublishBeginNested(g) => scope'[op[g].scope].depth = Len(stack) /\ Len(stack) > 0
         /\ \A t \in Scopes \ {op[g].scope} : scope'[t] = scope[t]
         /\ \A t \in Scopes : OnStack(t) \/ t = op[g].scope => OnStack(t)'
<1> USE DEF IInv, TypeOK
<1>1. /\ op[g].scope \in Scopes /\ scope[op[g].scope].status = "none"
      /\ op[g].kind = "beginRoot" => rootStatus = "none"
      /\ op[g].kind = "beginNested" => rootStatus = "active"
  BY DEF PublishBeginRoot, PublishBeginNested, BeginSound, BeginKind, Inside
<1>2. op[g].mode \in ScopeMode
  BY DEF Operation
<1>3. CASE PublishBeginRoot(g)
  <2>1. stack = <<>>
    BY <1>1, <1>3 DEF PublishBeginRoot, ScopesNest
  <2>2. stack' = <<op[g].scope>> /\ 1 \in DOMAIN stack' /\ stack'[1] = op[g].scope
    BY <1>3 DEF PublishBeginRoot
  <2>3. op[g].kind # "beginNested"
    BY <1>3 DEF PublishBeginRoot
  <2>4. \A t \in Scopes : OnStack(t) \/ t = op[g].scope => OnStack(t)'
    BY <2>1, <2>2 DEF OnStack
  <2> QED BY <1>1, <1>2, <1>3, <2>3, <2>4 DEF PublishBeginRoot, PublishBeginNested, Started
<1>4. CASE PublishBeginNested(g)
  <2>1. rootStatus = "active" /\ Len(stack) > 0
    BY <1>1, <1>4 DEF PublishBeginNested, ScopesNest
  <2>2. stack' = Append(stack, op[g].scope) /\ op[g].kind # "beginRoot"
    BY <1>4 DEF PublishBeginNested
  <2>3. /\ \A i \in DOMAIN stack : i \in DOMAIN stack' /\ stack'[i] = stack[i]
        /\ Len(stack) + 1 \in DOMAIN stack' /\ stack'[Len(stack) + 1] = op[g].scope
    BY <1>1, <2>2
  <2>4. \A t \in Scopes : OnStack(t) \/ t = op[g].scope => OnStack(t)'
    BY <2>3 DEF OnStack
  <2> QED BY <1>1, <1>2, <1>4, <2>1, <2>2, <2>4 DEF PublishBeginRoot, PublishBeginNested, Started
<1> QED BY <1>3, <1>4

\* A commit or a rollback ends its scope, and takes it alone off the stack; a
\* rollback that failed ends the execution.
LEMMA PublishedEnd ==
  ASSUME IInv, NEW g \in Goroutines, PublishCommit(g) \/ PublishRollback(g)
  PROVE  /\ OnStack(op[g].scope) /\ scope[op[g].scope].status = "active" /\ rootStatus = "active"
         /\ Root \in Scopes /\ OnStack(Root) /\ scope[Root].status = "active"
         /\ scope[op[g].scope].depth = 0 <=> op[g].scope = Root
         /\ \A t \in Scopes : /\ scope'[t].mode = scope[t].mode /\ scope'[t].depth = scope[t].depth
                              /\ scope[t].status = "none" => scope'[t] = scope[t]
         /\ op[g].kind = "commit" => scope'[op[g].scope].status = "committed"
         /\ op[g].kind = "rollback" /\ op[g].attempt = {} =>
              scope'[op[g].scope].status = "rolledBack"
         /\ \/ /\ op[g].kind = "rollback" /\ op[g].attempt # {}
               /\ rootStatus' = "failed" /\ stack' = <<>>
               /\ scope'[op[g].scope].status = "failed"
               /\ \A t \in Scopes \ {op[g].scope, Root} : scope'[t] = scope[t]
               /\ scope'[Root].status = "failed"
            \/ /\ op[g].kind = "commit" \/ op[g].attempt = {}
               /\ rootStatus' = IF op[g].scope = Root THEN scope'[op[g].scope].status
                                ELSE "active"
               /\ scope'[op[g].scope].status \in {"committed", "rolledBack"}
               /\ \A t \in Scopes \ {op[g].scope} :
                    scope'[t] = scope[t] /\ (OnStack(t) => OnStack(t)')
<1> USE DEF IInv, TypeOK
<1> DEFINE s == op[g].scope
<1>1. op[g].pc = "publish" /\ op[g].kind \in FinalizeKind
  BY DEF PublishCommit, PublishRollback, FinalizeKind
<1>2. stack # <<>> /\ Last(stack) = s
  BY <1>1 DEF FinalizeSound, Inside
<1>3. /\ s \in Scopes /\ rootStatus = "active" /\ scope[s].status = "active"
      /\ Len(stack) \in Nat \ {0} /\ stack[Len(stack)] = s
      /\ scope[s].depth = Len(stack) - 1
      /\ Root = stack[1] /\ Root \in Scopes
  BY <1>2, TopOfStack
<1>4. OnStack(s) /\ OnStack(Root)
  BY <1>3 DEF OnStack
<1>5. scope[Root].depth = 0
  BY <1>3 DEF ScopesNest
<1>6. scope[s].depth = 0 => Len(stack) = 1
  <2> HIDE DEF IInv, TypeOK
  <2>1. ASSUME scope[s].depth = 0 PROVE Len(stack) = 1
    <3>1. Len(stack) - 1 = 0 /\ Len(stack) \in Nat
      BY <1>3, <2>1, Zenon
    <3> QED BY <3>1
  <2> QED BY <2>1
<1>7. scope[s].depth = 0 <=> s = Root
  BY <1>3, <1>5, <1>6
<1>8. ASSUME NEW status \in {"committed", "rolledBack"}, scope[s].depth = 0,
             finishRootLocked(s, status)
      PROVE  /\ rootStatus' = status /\ scope'[s].status = status
             /\ scope'[s].mode = scope[s].mode /\ scope'[s].depth = scope[s].depth
             /\ \A t \in Scopes \ {s} : scope'[t] = scope[t] /\ (OnStack(t) => OnStack(t)')
  <2>1. \A t \in Scopes \ {s} : ~OnStack(t)
    BY <1>3, <1>6, <1>8 DEF OnStack
  <2> QED BY <1>3, <1>8, <2>1 DEF finishRootLocked, ScopeState
<1>9. ASSUME NEW status \in {"committed", "rolledBack"}, scope[s].depth > 0,
             finishNestedLocked(s, status)
      PROVE  /\ rootStatus' = "active" /\ scope'[s].status = status
             /\ scope'[s].mode = scope[s].mode /\ scope'[s].depth = scope[s].depth
             /\ \A t \in Scopes \ {s} : scope'[t] = scope[t] /\ (OnStack(t) => OnStack(t)')
  <2>1. /\ stack' \in Seq(Scopes) /\ Len(stack') = Len(stack) - 1
        /\ \A i \in 1 .. Len(stack) - 1 : stack'[i] = stack[i]
    BY <1>2, <1>3, <1>9, FrontFacts DEF finishNestedLocked
  <2>2. ASSUME NEW t \in Scopes \ {s}, OnStack(t) PROVE OnStack(t)'
    <3>1. PICK i \in DOMAIN stack : stack[i] = t
      BY <2>2 DEF OnStack
    <3>2. i \in 1 .. Len(stack) - 1
      BY <1>3, <3>1
    <3>3. i \in DOMAIN stack' /\ stack'[i] = t
      BY <1>3, <2>1, <3>1, <3>2
    <3> QED BY <3>3 DEF OnStack
  <2> QED BY <1>3, <1>9, <2>2 DEF finishNestedLocked, ScopeState
<1>10. ASSUME failExecutionLocked(s)
       PROVE  /\ rootStatus' = "failed" /\ stack' = <<>>
              /\ scope'[s].status = "failed" /\ scope'[Root].status = "failed"
              /\ \A t \in Scopes : scope'[t].mode = scope[t].mode /\ scope'[t].depth = scope[t].depth
              /\ \A t \in Scopes \ {s, Root} : scope'[t] = scope[t]
  BY <1>3, <1>10 DEF failExecutionLocked, ScopeState
<1>11. scope[s].depth \in Nat /\ scope[Root].status = "active"
  BY <1>3 DEF ScopeState, ScopesNest
<1> HIDE DEF IInv, TypeOK
<1>12. CASE PublishCommit(g)
  BY <1>3, <1>4, <1>7, <1>8, <1>9, <1>11, <1>12 DEF PublishCommit
<1>13. CASE PublishRollback(g) /\ RolledBack(g)
  BY <1>3, <1>4, <1>7, <1>8, <1>9, <1>11, <1>13 DEF PublishRollback, RolledBack
<1>14. CASE PublishRollback(g) /\ ~RolledBack(g)
  BY <1>3, <1>4, <1>7, <1>10, <1>11, <1>14 DEF PublishRollback, RolledBack
<1> QED BY <1>12, <1>13, <1>14

-----------------------------------------------------------------------------
(* The scopes and the root.                                                *)

\* The environment touches neither calls nor scopes; it may end transactions.
LEMMA EnvironmentStep ==
  ASSUME IInv, Environment
  PROVE  /\ UNCHANGED <<rootStatus, stack, scope, opMu, op>>
         /\ \A s \in Scopes : \/ backend'[s] = backend[s]
                              \/ backend[s] = "open" /\ backend'[s] = "rolledBack"
<1>1. CASE BackendAborts
  BY <1>1 DEF BackendAborts, state, IInv, TypeOK
<1> QED BY <1>1 DEF Environment, Query, SetRollbackOnly, Cancel, state

\* What has begun stays begun, and what has ended stays as it ended.
Lasts ==
  /\ rootStatus = "failed" => rootStatus' = "failed"
  /\ \A t \in Scopes :
       /\ scope[t].status # "none" => /\ scope'[t].status # "none"
                                      /\ scope'[t].mode = scope[t].mode
                                      /\ scope'[t].depth = scope[t].depth
       /\ scope[t].status \in Terminal => scope'[t].status = scope[t].status

\* A publication lets the scopes last, and the root agrees with its scope.
LEMMA PublishLasts ==
  ASSUME IInv, RootAgrees, NEW g \in Goroutines, Publish(g)
  PROVE  Lasts /\ RootAgrees'
<1> DEFINE s == op[g].scope
<1>1. s \in Scopes
  BY PublishStep
<1>2. CASE PublishBeginRoot(g)
  <2>1. rootStatus = "none" /\ (\A t \in Scopes : scope[t].status = "none")
    BY <1>2, PublishStep DEF PublishBeginRoot, PublishBeginNested, PublishCommit,
       PublishRollback, IInv, Doomed
  <2>2. \A t \in Scopes \ {s} : scope'[t].status = "none"
    BY <1>2, <2>1, PublishedBegin
  <2>3. rootStatus' = "active" /\ scope'[s].status = "active"
    BY <1>2, PublishedBegin
  <2> QED BY <2>1, <2>2, <2>3 DEF Lasts, RootAgrees, Terminal
<1>3. CASE PublishBeginNested(g)
  <2>1. /\ rootStatus' = "active" /\ scope'[s].status = "active" /\ scope[s].status = "none"
        /\ scope'[s].depth = Len(stack) /\ Len(stack) > 0
        /\ \A t \in Scopes \ {s} : scope'[t] = scope[t]
    BY <1>3, PublishedBegin
  <2>2. rootStatus = "active"
    BY <1>3, PublishStep DEF PublishBeginRoot, PublishBeginNested, PublishCommit, PublishRollback
  <2>3. scope'[s].depth # 0
    BY <2>1
  <2> QED BY <1>1, <2>1, <2>2, <2>3 DEF Lasts, RootAgrees, Terminal
<1>4. CASE PublishCommit(g) \/ PublishRollback(g)
  <2>1. \A t \in Scopes : scope[t].depth = 0 /\ scope[t].status = "active" => t = Root
    <3> SUFFICES ASSUME NEW t \in Scopes, scope[t].depth = 0, scope[t].status = "active"
                 PROVE  t = Root
      OBVIOUS
    <3>1. rootStatus = "active" /\ stack # <<>>
      BY <1>4, PublishedEnd DEF OnStack, IInv, ScopesNest
    <3>2. PICK i \in DOMAIN stack : stack[i] = t
      BY <3>1 DEF IInv, ScopesNest, OnStack
    <3>3. i - 1 = 0 /\ i \in Nat
      BY <3>2 DEF IInv, TypeOK, ScopesNest
    <3>4. i = 1
      BY <3>3
    <3> QED BY <3>1, <3>2, <3>4, LastFacts DEF Root, IInv, TypeOK
  <2>2. \A t \in Scopes : scope[t].status = "failed" => rootStatus = "failed"
    BY DEF RootAgrees
  <2>3. Lasts
    BY <1>1, <1>4, PublishedEnd DEF Lasts, Terminal
  <2>4. RootAgrees'
    BY <1>1, <1>4, <2>1, <2>2, PublishedEnd DEF RootAgrees
  <2> QED BY <2>3, <2>4
<1> QED BY <1>2, <1>3, <1>4 DEF Publish

\* So does every other step.
LEMMA NextLasts == IInv /\ RootAgrees /\ [Next]_vars => Lasts /\ RootAgrees'
<1> SUFFICES ASSUME IInv, RootAgrees, [Next]_vars PROVE Lasts /\ RootAgrees'
  OBVIOUS
<1>1. ASSUME UNCHANGED <<rootStatus, scope>> PROVE Lasts /\ RootAgrees'
  BY <1>1 DEF Lasts, RootAgrees
<1>2. CASE Environment
  BY <1>1, <1>2, EnvironmentStep
<1>3. ASSUME NEW g \in Goroutines, CallAny(g) \/ Step(g) \/ Return(g)
      PROVE  Lasts /\ RootAgrees'
  BY <1>1, <1>3, OnlyPublications, PublishLasts
<1>4. CASE UNCHANGED vars
  BY <1>1, <1>4 DEF vars, state
<1> QED BY <1>2, <1>3, <1>4 DEF Next

-----------------------------------------------------------------------------
(* The transactions of the database.                                       *)

\* A step after which no transaction is open that was not, in which nobody
\* comes to begin or stops publishing, and by which no scope leaves the stack.
LEMMA PlacedStill ==
  ASSUME IInv, Placed, UNCHANGED <<rootStatus, stack, scope>>,
         \A s \in Scopes : backend'[s] = backend[s] \/ (backend[s] # "none" /\ backend'[s] # "open"),
         \A g \in Goroutines : InPlace(g)',
         \A s \in Scopes : Publishing(s) => Publishing(s)' \/ CallbackPanics
  PROVE  Placed'
BY DEF Placed, OnStack, Soft

\* Nobody but g is inside a call.
LEMMA Alone ==
  ASSUME IInv, NEW g \in Goroutines, op[g].pc \in Inside
  PROVE  opMu = g /\ \A h \in Goroutines \ {g} : op[h].pc \notin Inside
BY DEF IInv, TypeOK, Exclusive

\* Where a transaction is, after an answer of the adapter.
LEMMA AdapterPlaces ==
  ASSUME IInv, Placed, NEW g \in Goroutines, Adapter(g) PROVE Placed'
<1> DEFINE s == op[g].scope
<1>1. \A h \in Goroutines \ {g} : op[h].pc \notin Inside /\ op'[h] = op[h]
  BY AdapterStep, Alone DEF Inside, OthersKept
<1>2. op[g].mode = "physical" /\ op'[g].mode = "physical" /\ s \in Scopes
  BY AdapterStep DEF Placed, InPlace
<1>3. \A h \in Goroutines : InPlace(h)'
  BY <1>1, <1>2, AdapterStep DEF InPlace, Inside
<1>4. op[g].kind \in FinalizeKind => OnStack(s) /\ scope[s].mode = "physical"
  <2> SUFFICES ASSUME op[g].kind \in FinalizeKind PROVE OnStack(s) /\ scope[s].mode = "physical"
    OBVIOUS
  <2>1. stack # <<>> /\ Last(stack) = s /\ op[g].mode = scope[s].mode
    BY AdapterStep DEF IInv, FinalizeSound, Inside
  <2>2. OnStack(s)
    BY <2>1, TopOfStack DEF OnStack
  <2> QED BY <1>2, <2>1, <2>2
<1>5. op[g].kind \in BeginKind => scope[s].status = "none"
  BY AdapterStep DEF IInv, BeginSound, Inside
<1>6. op[g].kind \in BeginKind \cup FinalizeKind
  BY DEF Adapter, AdapterBegin, AdapterBeginNested, AdapterCommit, AdapterRollback, Calling,
     BeginKind, FinalizeKind
<1>7. \A t \in Scopes : scope[t].status # "none" /\ Soft(t) => backend'[t] = "none"
  BY <1>4, <1>5, <1>6, AdapterStep DEF Placed, Soft
<1>8. ASSUME NEW t \in Scopes, backend'[t] = "open"
      PROVE  OnStack(t) \/ Publishing(t)' \/ rootStatus = "failed" \/ CallbackPanics
  <2>1. CASE t = s /\ op[g].kind \in BeginKind
    BY <1>8, <2>1, AdapterStep DEF Publishing
  <2>2. CASE t = s /\ op[g].kind \in FinalizeKind
    BY <1>4, <2>2
  <2>3. CASE t # s
    <3>1. ~Publishing(t)
      BY <1>1, AdapterStep DEF Publishing, Inside
    <3> QED BY <1>8, <2>3, <3>1, AdapterStep DEF Placed
  <2> QED BY <1>6, <2>1, <2>2, <2>3
<1>9. UNCHANGED <<stack, scope, rootStatus>>
  BY AdapterStep
<1> QED BY <1>3, <1>7, <1>8, <1>9 DEF Placed, OnStack, Soft

\* Where it is after a publication: a begin puts its scope on the stack, and
\* what a commit or a rollback takes off is not open in the database any more.
LEMMA PublishPlaces ==
  ASSUME IInv, Placed, NEW g \in Goroutines, Publish(g) PROVE Placed'
<1> DEFINE s == op[g].scope
<1>1. \A h \in Goroutines \ {g} : op[h].pc \notin Inside /\ op'[h] = op[h]
  BY PublishStep, Alone DEF Inside, OthersKept
<1>2. s \in Scopes /\ op[g].pc = "publish" /\ op'[g].pc = "after" /\ UNCHANGED backend
  BY PublishStep
<1>3. \A h \in Goroutines : InPlace(h)'
  BY <1>1, <1>2 DEF Placed, InPlace, Inside
<1>4. \A t \in Scopes : Publishing(t) => t = s /\ op[g].kind \in BeginKind
  BY <1>1, <1>2 DEF Publishing, Inside
<1>5. CASE PublishBeginRoot(g) \/ PublishBeginNested(g)
  <2>1. op[g].kind \in BeginKind
    BY <1>5 DEF PublishBeginRoot, PublishBeginNested, BeginKind
  <2>2. \A t \in Scopes : scope'[t].status # "none" /\ Soft(t)' => backend[t] = "none"
    BY <1>2, <1>5, <2>1, PublishedBegin DEF Placed, InPlace, Soft
  <2>3. rootStatus # "failed"
    BY <1>5, PublishStep DEF PublishBeginRoot, PublishBeginNested, PublishCommit, PublishRollback
  <2>4. ASSUME NEW t \in Scopes, backend[t] = "open" PROVE OnStack(t)' \/ CallbackPanics
    BY <1>4, <1>5, <2>3, <2>4, PublishedBegin DEF Placed
  <2> QED BY <1>2, <1>3, <2>2, <2>4 DEF Placed
<1>6. CASE PublishCommit(g) \/ PublishRollback(g)
  <2>1. op[g].kind \in FinalizeKind
    BY <1>6 DEF PublishCommit, PublishRollback, FinalizeKind
  <2>2. \A t \in Scopes : scope'[t].status # "none" /\ Soft(t)' => backend[t] = "none"
    BY <1>6, PublishedEnd DEF Placed, Soft
  <2>3. CASE rootStatus' = "failed"
    BY <1>2, <1>3, <2>2, <2>3 DEF Placed
  <2>4. CASE op[g].kind = "commit" \/ op[g].attempt = {}
    <3>1. op[g].mode = scope[s].mode
          /\ (op[g].mode = "physical" => backend[s] \in {"committed", "rolledBack"})
      BY <1>2, <2>1, <2>4 DEF IInv, FinalizeSound, Inside
    <3>2. backend[s] # "open"
      BY <1>2, <1>6, <3>1, PublishedEnd DEF Placed, Soft
    <3>3. rootStatus = "active"
      BY <1>6, PublishedEnd
    <3>4. ASSUME NEW t \in Scopes, backend[t] = "open"
          PROVE  OnStack(t)' \/ rootStatus' = "failed" \/ CallbackPanics
      <4>1. t # s /\ (OnStack(t) \/ CallbackPanics)
        BY <1>4, <2>1, <3>2, <3>3, <3>4 DEF Placed, BeginKind, FinalizeKind
      <4> QED BY <1>6, <4>1, PublishedEnd
    <3> QED BY <1>2, <1>3, <2>2, <3>4 DEF Placed
  <2> QED BY <1>6, <2>3, <2>4, PublishedEnd
<1> QED BY <1>5, <1>6 DEF Publish

\* Every step keeps the transactions where they can be reached.
LEMMA NextPlaced == IInv /\ Placed /\ [Next]_vars => Placed'
<1> SUFFICES ASSUME IInv, Placed, [Next]_vars PROVE Placed'
  OBVIOUS
<1>1. CASE Environment
  <2>1. UNCHANGED <<rootStatus, stack, scope, op>>
    BY <1>1, EnvironmentStep
  <2>2. \A g \in Goroutines : op[g].kind \in BeginKind /\ op[g].pc \in {"before", "adapter", "publish"}
          => op[g].scope \in Scopes
    BY DEF IInv, BeginSound, Inside
  <2>3. \A g \in Goroutines : InPlace(g)'
    BY <1>1, <2>1, <2>2, EnvironmentStep DEF Placed, InPlace
  <2>4. \A s \in Scopes : Publishing(s)' <=> Publishing(s)
    BY <2>1 DEF Publishing
  <2> QED BY <1>1, <2>1, <2>3, <2>4, PlacedStill, EnvironmentStep
<1>2. ASSUME NEW g \in Goroutines, CallAny(g) \/ Return(g) PROVE Placed'
  <2>1. StateKept /\ OthersKept(g) /\ op[g].pc \in {"idle", "done"}
        /\ op'[g].pc \in {"lock", "done", "idle"}
    BY <1>2, OutsideStep DEF IInv, Idle
  <2>2. \A h \in Goroutines : InPlace(h)'
    BY <2>1 DEF Placed, InPlace, StateKept, OthersKept
  <2>3. \A s \in Scopes : Publishing(s) => Publishing(s)'
    BY <2>1 DEF Publishing, OthersKept
  <2> QED BY <2>1, <2>2, <2>3, PlacedStill DEF StateKept
<1>3. ASSUME NEW g \in Goroutines, Enter(g) PROVE Placed'
  <2>1. StateKept /\ OthersKept(g) /\ op[g].pc = "lock" /\ op'[g].pc \in {"done", "before"}
        /\ op'[g].kind = op[g].kind
        /\ (op'[g].pc = "before" /\ op[g].kind \in BeginKind => op'[g].scope \in Fresh)
    BY <1>3, EnterStep
  <2>2. \A h \in Goroutines : InPlace(h)'
    BY <2>1 DEF Placed, InPlace, StateKept, OthersKept, Fresh
  <2>3. \A s \in Scopes : Publishing(s) => Publishing(s)'
    BY <2>1 DEF Publishing, OthersKept
  <2> QED BY <2>1, <2>2, <2>3, PlacedStill DEF StateKept
<1>4. ASSUME NEW g \in Goroutines,
             RunBefore(g) \/ Finish(g) \/ Compensate(g) \/ CallbackPanic(g)
      PROVE  Placed'
  <2>1. StateKept /\ OthersKept(g)
    BY <1>4, InnerStep
  <2>2. \A h \in Goroutines : InPlace(h)'
    BY <1>4, <2>1, InnerStep DEF Placed, InPlace, StateKept, OthersKept
  <2>3. \A s \in Scopes : Publishing(s) => Publishing(s)' \/ CallbackPanics
    BY <1>4, <2>1, InnerStep DEF Publishing, OthersKept
  <2> QED BY <2>1, <2>2, <2>3, PlacedStill DEF StateKept
<1>5. ASSUME NEW g \in Goroutines, Step(g) PROVE Placed'
  BY <1>3, <1>4, <1>5, AdapterPlaces, PublishPlaces DEF Step, Progress
<1>6. CASE UNCHANGED vars
  BY <1>6 DEF vars, state, Placed, InPlace, Publishing, OnStack, Soft
<1> QED BY <1>1, <1>2, <1>5, <1>6 DEF Next

-----------------------------------------------------------------------------
(* What the callers are told.                                              *)

\* What a goroutine knows stays true while others move.
LEMMA AwareStill ==
  ASSUME IInv, Lasts, NEW h \in Goroutines, Aware(h), op'[h] = op[h]
  PROVE  Aware(h)'
<1>1. op[h].scope \in Scopes \cup {NoScope}
  BY DEF IInv, TypeOK, Operation
<1>2. ErrorsGiven(h)'
  BY DEF Aware, ErrorsGiven
<1>3. op[h].pc = "after" => Concluded(op[h])'
  BY DEF Aware, Concluded, Lasts, Terminal, BeginFailed
<1>4. Told(op[h])'
  BY <1>1 DEF Aware, Told, Lasts, Terminal
<1>5. op[h].pc # "idle" => op[h].kind \in BeginKind \cup FinalizeKind
  BY DEF Aware
<1> QED BY <1>2, <1>3, <1>4, <1>5 DEF Aware, Concluded, Told

\* A call that begins knows nothing yet; one that is refused without a root has
\* no scope to tell of.
LEMMA OutsideAware ==
  ASSUME IInv, Known, NEW g \in Goroutines, CallAny(g) \/ Return(g) PROVE Aware(g)'
<1>1. op'[g].before = {} /\ op'[g].attempt = {} /\ op'[g].commitErr = {}
  BY OutsideStep DEF IInv
<1>2. op'[g].pc \in {"lock", "idle"} \/ (op'[g].pc = "done" /\ op'[g].scope = NoScope)
  BY OutsideStep DEF IInv, Idle
<1>3. op'[g].pc # "idle" => op'[g].kind \in BeginKind \cup FinalizeKind
  BY OutsideStep DEF IInv, Idle
<1> QED BY <1>1, <1>2, <1>3 DEF Aware, ErrorsGiven, Told

\* A refusal is none of the answers that tell of an outcome.
LEMMA EnterAware ==
  ASSUME IInv, Known, NEW g \in Goroutines, Enter(g) PROVE Aware(g)'
<1>0. op'[g].kind = op[g].kind /\ op[g].kind \in BeginKind \cup FinalizeKind
  BY EnterStep
<1>1. CASE op'[g].pc = "done"
  <2>1. PICK err \in SUBSET Refusals :
          /\ err # {}
          /\ op'[g].ret = IF op[g].commitErr = {} THEN err
                          ELSE {"FinalizationFailed"} \cup op[g].commitErr \cup err
    BY <1>1, EnterStep
  <2>2. op[g].commitErr \subseteq Given
    BY DEF Known, Aware, ErrorsGiven
  <2>3. op'[g].ret # {} /\ "CommitAborted" \notin op'[g].ret /\ "RollbackFailed" \notin op'[g].ret
    BY <2>1, <2>2 DEF Refusals, Given
  <2>4. /\ op'[g].before = op[g].before /\ op'[g].attempt = op[g].attempt
        /\ op'[g].commitErr = op[g].commitErr
    BY <1>1, EnterStep
  <2> QED BY <1>0, <1>1, <2>3, <2>4 DEF Known, Aware, ErrorsGiven, Told
<1>2. CASE op'[g].pc = "before"
  <2>1. op'[g].before = {} /\ op'[g].attempt = {} /\ op'[g].commitErr = op[g].commitErr
    BY <1>2, EnterStep
  <2> QED BY <1>0, <1>2, <2>1 DEF Known, Aware, ErrorsGiven, Told
<1> QED BY <1>1, <1>2, EnterStep

\* The answer of a call tells what its After interceptors could rely on.
LEMMA FinishAware ==
  ASSUME IInv, Known, NEW g \in Goroutines, Finish(g) PROVE Aware(g)'
<1> DEFINE o == op[g]
<1>1. /\ o.pc = "after" /\ ~CommitFailed(g) /\ op'[g].pc = "done" /\ op'[g].ret = Result(o)
      /\ op'[g].kind = o.kind /\ op'[g].commitErr = o.commitErr
      /\ op'[g].before = o.before /\ op'[g].attempt = o.attempt
      /\ op'[g].scope = IF BeginFailed(o) THEN NoScope ELSE o.scope
      /\ UNCHANGED <<scope, rootStatus>>
  <2>1. op[g] \in Operation
    BY DEF IInv, TypeOK
  <2> QED BY <2>1 DEF Finish, IInv, TypeOK, Operation, state
<1>2. Concluded(o) /\ o.before \cup o.attempt \cup o.commitErr \subseteq Given
  BY <1>1 DEF Known, Aware, ErrorsGiven
<1>3. ErrorsGiven(g)'
  BY <1>1, <1>2 DEF ErrorsGiven
<1>3a. o.kind \in BeginKind \cup FinalizeKind
  BY <1>1 DEF Known, Aware
<1>4. CASE o.kind \in BeginKind
  <2>1. ~BeginFailed(o) => Result(o) = {}
    BY <1>4 DEF BeginFailed, Result, BeginResult
  <2> QED BY <1>1, <1>2, <1>3, <1>3a, <1>4, <2>1 DEF Aware, Told, Concluded, BeginKind
<1>5. CASE o.kind = "commit"
  <2>1. Result(o) = {} /\ scope[o.scope].status = "committed"
    BY <1>1, <1>2, <1>5 DEF Result, BeginKind, CommitFailed, Concluded
  <2> QED BY <1>1, <1>3, <1>3a, <1>5, <2>1 DEF Aware, Told, BeginFailed, BeginKind
<1>6. CASE o.kind = "rollback"
  <2>1. /\ Result(o) = {} => o.attempt = {}
        /\ "CommitAborted" \in Result(o) => o.attempt = {}
        /\ "RollbackFailed" \in Result(o) => o.attempt # {}
    BY <1>2, <1>6 DEF Result, BeginKind, RollbackResult, commitFailureError, Given
  <2> QED BY <1>1, <1>2, <1>3, <1>3a, <1>6, <2>1 DEF Aware, Told, Concluded, BeginFailed, BeginKind
<1> QED BY <1>4, <1>5, <1>6, <1>3a DEF FinalizeKind

\* So do the other steps inside a call.
LEMMA InnerAware ==
  ASSUME IInv, Known, NEW g \in Goroutines, RunBefore(g) \/ Compensate(g) \/ CallbackPanic(g)
  PROVE  Aware(g)'
<1>0. op[g] \in Operation
  BY DEF IInv, TypeOK
<1>1. UNCHANGED <<scope, rootStatus>>
  BY InnerStep DEF StateKept
<1>2. Aware(g)
  BY DEF Known
<1>3. CASE RunBefore(g)
  <2>1. /\ op[g].pc = "before" /\ op'[g].kind = op[g].kind /\ op'[g].scope = op[g].scope
        /\ op'[g].attempt = op[g].attempt /\ op'[g].commitErr = op[g].commitErr
        /\ op'[g].before \in {{}, {"Veto"}}
        /\ \/ op'[g].pc = "after" /\ op'[g].before # {} /\ op[g].kind # "rollback"
           \/ /\ op'[g].pc \in {"adapter", "publish"}
              /\ op'[g].before = {} \/ op[g].kind = "rollback"
    BY <1>0, <1>3 DEF RunBefore, IInv, TypeOK, Operation
  <2>2. op[g].scope \in Scopes
    BY <1>2, <2>1 DEF IInv, Aware, BeginSound, FinalizeSound, Inside
  <2>3. op[g].kind \in BeginKind \cup FinalizeKind /\ op[g].attempt = {}
    BY <1>2, <2>1 DEF Aware, ErrorsGiven
  <2>4. ErrorsGiven(g)'
    BY <1>2, <2>1, <2>3 DEF Aware, ErrorsGiven, Given
  <2>5. op'[g].pc = "after" => Concluded(op[g])'
    BY <1>1, <2>1, <2>2 DEF Concluded, BeginFailed
  <2> QED BY <2>1, <2>3, <2>4, <2>5 DEF Aware, Told, Concluded
<1>4. CASE Compensate(g)
  <2>1. /\ op[g].pc = "after" /\ op'[g].pc = "lock" /\ op'[g].kind = "rollback"
        /\ op'[g].before = op[g].before /\ op'[g].attempt = op[g].attempt
        /\ op'[g].commitErr = op[g].before \cup op[g].attempt
    BY <1>0, <1>4 DEF Compensate, IInv, TypeOK, Operation
  <2> QED BY <1>2, <2>1 DEF Aware, ErrorsGiven, Told, FinalizeKind
<1>5. CASE CallbackPanic(g)
  <2>1. /\ op[g].pc # "idle" /\ op'[g].pc = "done" /\ op'[g].kind = op[g].kind
        /\ op'[g].before = op[g].before /\ op'[g].attempt = op[g].attempt
        /\ op'[g].commitErr = op[g].commitErr /\ op'[g].ret = {"Panic"}
    BY <1>0, <1>5 DEF CallbackPanic, AtCallback, IInv, TypeOK, Operation
  <2> QED BY <1>2, <2>1 DEF Aware, ErrorsGiven, Told
<1> QED BY <1>3, <1>4, <1>5

\* So does the adapter.
LEMMA AdapterAware ==
  ASSUME IInv, Known, NEW g \in Goroutines, Adapter(g) PROVE Aware(g)'
<1>1. Aware(g) /\ op[g].pc = "adapter"
  BY AdapterStep DEF Known
<1>2. ErrorsGiven(g)'
  BY <1>1, AdapterStep DEF Aware, ErrorsGiven, Given, BeginKind, FinalizeKind
<1>3. op'[g].pc = "after" => Concluded(op[g])'
  BY <1>1, AdapterStep DEF Aware, Concluded, BeginFailed, BeginKind, FinalizeKind
<1> QED BY <1>1, <1>2, <1>3, AdapterStep DEF Aware, Told, Concluded

\* So does a publication, which makes the answer true.
LEMMA PublishAware ==
  ASSUME IInv, Known, NEW g \in Goroutines, Publish(g) PROVE Aware(g)'
<1>1. Aware(g) /\ op[g].pc = "publish"
  BY PublishStep DEF Known
<1>2. ErrorsGiven(g)'
  BY <1>1, PublishStep DEF Aware, ErrorsGiven
<1>3. CASE PublishBeginRoot(g) \/ PublishBeginNested(g)
  <2>1. op[g].kind \in BeginKind /\ scope'[op[g].scope].status = "active"
    BY <1>3, PublishedBegin DEF PublishBeginRoot, PublishBeginNested, BeginKind
  <2>2. Concluded(op[g])'
    BY <2>1, PublishStep DEF Concluded, BeginKind
  <2> QED BY <1>1, <1>2, <2>2, PublishStep DEF Aware, Told, Concluded
<1>4. CASE PublishCommit(g) \/ PublishRollback(g)
  <2>1. op[g].kind \in FinalizeKind
    BY <1>4 DEF PublishCommit, PublishRollback, FinalizeKind
  <2>2. Concluded(op[g])'
    BY <1>4, <2>1, PublishStep, PublishedEnd DEF Concluded, FinalizeKind, BeginKind
  <2> QED BY <1>1, <1>2, <2>2, PublishStep DEF Aware, Told, Concluded
<1> QED BY <1>3, <1>4 DEF Publish

\* Every step lets every goroutine know what it must.
LEMMA NextKnown == IInv /\ RootAgrees /\ Known /\ [Next]_vars => Known'
<1> SUFFICES ASSUME IInv, RootAgrees, Known, [Next]_vars, NEW h \in Goroutines
             PROVE  Aware(h)'
  BY DEF Known
<1>1. Lasts
  BY NextLasts
<1>2. CASE op'[h] = op[h]
  BY <1>1, <1>2, AwareStill DEF Known
<1>3. ASSUME NEW g \in Goroutines, CallAny(g) \/ Step(g) \/ Return(g) PROVE Aware(h)'
  <2>1. OthersKept(g)
    BY <1>3, OnlyPublications
  <2>2. Aware(g)'
    BY <1>3, OutsideAware, EnterAware, FinishAware, InnerAware, AdapterAware, PublishAware
       DEF Step, Progress
  <2> QED BY <1>2, <2>1, <2>2 DEF OthersKept
<1>4. CASE Environment \/ UNCHANGED vars
  BY <1>2, <1>4, EnvironmentStep DEF vars
<1> QED BY <1>3, <1>4 DEF Next

-----------------------------------------------------------------------------
(* The invariant and what follows from it.                                 *)

\* Initially nothing has begun and nothing is known.
LEMMA InitOutcome == Init => OutcomeInv
<1> SUFFICES ASSUME Init PROVE OutcomeInv
  OBVIOUS
<1>1. RootAgrees
  BY DEF Init, RootAgrees, Unused
<1>2. Placed
  BY DEF Init, Placed, InPlace, Idle, BeginKind
<1>3. Known
  BY DEF Init, Known, Aware, ErrorsGiven, Told, Idle, Given
<1> QED BY <1>1, <1>2, <1>3 DEF OutcomeInv

\* In every reachable state both invariants hold.
LEMMA OutcomeInvariance == Spec => [](IInv /\ OutcomeInv)
<1>1. IInv /\ OutcomeInv /\ [Next]_vars => OutcomeInv'
  BY NextLasts, NextPlaced, NextKnown DEF OutcomeInv
<1> QED BY <1>1, InitOutcome, Invariance, PTL DEF Spec

\* No open transaction of the database is out of reach: its scope is on the
\* stack, its begin is under way, or a failing rollback has ended the execution
\* (or an AfterBegin has panicked).
THEOREM NothingOrphaned == Spec => []NoOrphan
<1>1. IInv /\ OutcomeInv => NoOrphan
  BY DEF IInv, OutcomeInv, Placed, Publishing, Exclusive, Inside, NoOrphan
<1> QED BY <1>1, OutcomeInvariance, PTL

\* The sentinel that a call returns tells what became of its scope.
THEOREM ResultIsTrue == Spec => []ResultTellsOutcome
<1>1. OutcomeInv => ResultTellsOutcome
  BY DEF OutcomeInv, Known, Aware, Told, ResultTellsOutcome
<1> QED BY <1>1, OutcomeInvariance, PTL
=============================================================================
