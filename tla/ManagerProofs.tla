---------------------------- MODULE ManagerProofs ----------------------------
(***************************************************************************)
(* Managed executions make the calls of UnitOfWork's callers and no        *)
(* others; an execution has its scope to itself; what it answers tells     *)
(* what was committed.                                                     *)
(***************************************************************************)
EXTENDS Manager, OutcomeProofs, FiniteSetTheorems

-----------------------------------------------------------------------------
(* Calls of UnitOfWork, seen from their callers.                           *)

\* No begin that is under way or has not returned yet has this scope.
NotBegun(s) == \A g \in Beginning : op[g].scope # s

\* A begin that has published its scope.
Begun(g) ==
  /\ op[g].kind \in BeginKind /\ op[g].scope # NoScope
  /\ (op[g].pc = "after" /\ ~BeginFailed(op[g])) \/ op[g].pc = "done"

\* A begin returns a scope or an error; a commit or a rollback knows its scope.
CallSound(g) ==
  /\ op[g].pc = "idle" => op[g] = Idle
  /\ op[g].kind \in BeginKind =>
       /\ op[g].pc = "lock" => op[g].scope = NoScope
       /\ op[g].pc = "done" => (op[g].ret = {} <=> op[g].scope # NoScope)
  /\ Begun(g) => /\ scope[op[g].scope].status # "none"
                 /\ op[g].kind = "beginRoot" <=> scope[op[g].scope].depth = 0
  /\ op[g].kind \in FinalizeKind =>
       /\ op[g].scope # NoScope => scope[op[g].scope].status # "none"
       /\ op[g].kind = "commit" => op[g].commitErr = {}
       /\ op[g].pc = "done" =>
            /\ op[g].scope = NoScope \/ op[g].commitErr # {} => op[g].ret # {}
            /\ /\ op[g].scope # NoScope /\ rootStatus = "active"
               /\ scope[op[g].scope].status = "active"
               => op[g].ret \cap {"ScopeOrderViolation", "RollbackOnly", "Panic"} # {}

\* There is one root, and no two begins have the same scope.
CallInv ==
  /\ \A g \in Goroutines : CallSound(g)
  /\ \A g, h \in Beginning : g # h => op[g].scope # op[h].scope \/ op[g].scope = NoScope
  /\ \A s, t \in Scopes :
       /\ scope[s].status # "none" /\ scope[s].depth = 0
       /\ scope[t].status # "none" /\ scope[t].depth = 0
       => s = t

-----------------------------------------------------------------------------
(* Executions.                                                             *)

\* A scope that nobody has ended yet, unless a failing rollback has ended all.
Untouched(s) ==
  /\ scope[s].status \in {"active", "failed"}
  /\ rootStatus # "failed" => scope[s].status = "active" /\ OnStack(s)

Held == {"fn", "decided", "end"}

\* A running execution has a scope that is its own.
FrameSound(f) ==
  /\ f.stage \in Held =>
       /\ f.scope \in Scopes /\ scope[f.scope].status # "none"
       /\ f.root <=> scope[f.scope].depth = 0
       /\ NotBegun(f.scope) /\ f.scope \notin manual
  /\ f.stage \in {"fn", "decided"} => Untouched(f.scope)
  /\ f.stage \in {"decided", "end"} =>
       /\ f.plan \in FinalizeKind
       /\ f.plan = "rollback" => f.cause # {}
       /\ f.plan = "commit" /\ DefaultPolicy => f.cause = {}

\* Which call of UnitOfWork a goroutine makes at which stage.
Belongs(g) ==
  /\ At(g, "asked") \/ At(g, "decided") => op[g].pc = "idle"
  /\ At(g, "begin") => op[g].pc # "idle" /\ op[g].kind = Kind(g)
  /\ At(g, "end") =>
       /\ op[g].pc # "idle" /\ op[g].kind \in FinalizeKind
       /\ op[g].scope = Running(g).scope \/ (op[g].scope = NoScope /\ op[g].pc = "done")
  /\ (frames[g] = <<>> \/ At(g, "fn")) /\ op[g].pc # "idle" =>
       \/ op[g].kind = "beginNested"
       \/ op[g].kind \in FinalizeKind /\ op[g].scope \in manual

\* An execution that finalizes its scope has it to itself until it is done.
Finalizing(g) ==
  At(g, "end") =>
    LET f == Running(g) IN
    /\ op[g].pc \in {"lock", "before", "adapter", "publish"} => Untouched(f.scope)
    /\ op[g].pc = "after" /\ CommitFailed(g) => Untouched(f.scope)
    /\ op[g].pc = "done" /\ scope[f.scope].status = "committed" =>
         (op[g].kind = "commit" /\ op[g].ret = {}) \/ op[g].ret = {"Panic"}
    /\ op[g].scope = NoScope => rootStatus # "active"
    /\ op[g].kind = "commit" => f.plan = "commit"
    /\ op[g].kind = "rollback" /\ op[g].commitErr = {} => f.plan = "rollback"

\* The inductive invariant of the executions, given those of UnitOfWork.
FramesSound == \A g \in Goroutines : \A i \in DOMAIN frames[g] :
  /\ FrameSound(frames[g][i])
  /\ i < Len(frames[g]) => frames[g][i].stage = "fn"
FramesApart == \A g, h \in Goroutines : \A i \in DOMAIN frames[g], j \in DOMAIN frames[h] :
  /\ frames[g][i].stage \in Held /\ frames[h][j].stage \in Held
  /\ frames[g][i].scope = frames[h][j].scope
  => g = h /\ i = j
CallsSound == \A g \in Goroutines :
  Belongs(g) /\ Finalizing(g) /\ (Begun(g) => Untouched(op[g].scope))
ManagerInv ==
  ManagerTypeOK /\ FramesSound /\ FramesApart /\ CallsSound /\ manual \subseteq Handles

-----------------------------------------------------------------------------
(* The calls.                                                              *)

\* What is known of a UnitOfWork whoever uses it.
Usual == IInv /\ OutcomeInv /\ CallInv

\* Nothing changes for a goroutine while others move.
LEMMA CallStill ==
  ASSUME IInv, RootAgrees, Lasts, NEW h \in Goroutines, CallSound(h), op'[h] = op[h],
         rootStatus' = "active" =>
           \/ rootStatus = "active"
           \/ \A s \in Scopes : scope[s].status = "none"
  PROVE  CallSound(h)'
<1>1. op[h].scope \in Scopes \cup {NoScope}
  BY DEF IInv, TypeOK, Operation
<1>2. Begun(h)' <=> Begun(h)
  BY DEF Begun, BeginFailed
<1>3. op[h].scope # NoScope /\ scope[op[h].scope].status # "none" =>
        /\ scope'[op[h].scope].status # "none"
        /\ scope'[op[h].scope].depth = scope[op[h].scope].depth
        /\ rootStatus' = "active" /\ scope'[op[h].scope].status = "active" =>
             rootStatus = "active" /\ scope[op[h].scope].status = "active"
  <2> SUFFICES ASSUME op[h].scope # NoScope, scope[op[h].scope].status # "none"
               PROVE  /\ scope'[op[h].scope].status # "none"
                      /\ scope'[op[h].scope].depth = scope[op[h].scope].depth
                      /\ rootStatus' = "active" /\ scope'[op[h].scope].status = "active" =>
                           rootStatus = "active" /\ scope[op[h].scope].status = "active"
    OBVIOUS
  <2>1. scope[op[h].scope].status \in {"active", "committed", "rolledBack", "failed"}
    BY <1>1 DEF IInv, TypeOK, ScopeState, TxStatus, Terminal
  <2> QED BY <1>1, <2>1 DEF Lasts, Terminal
<1>4. Begun(h) => op[h].scope # NoScope
  BY DEF Begun
<1> QED BY <1>2, <1>3, <1>4 DEF CallSound

\* A root becomes active only when nothing had begun before.
LEMMA FirstRoot ==
  ASSUME IInv, [Next]_vars, rootStatus' = "active", rootStatus # "active"
  PROVE  \A s \in Scopes : scope[s].status = "none"
<1>1. ASSUME NEW g \in Goroutines, Publish(g) PROVE \A s \in Scopes : scope[s].status = "none"
  <2>1. rootStatus = "none"
    BY <1>1, PublishStep
  <2> QED BY <2>1 DEF IInv, Doomed
<1>2. ASSUME NEW g \in Goroutines, CallAny(g) \/ Step(g) \/ Return(g), ~Publish(g) PROVE FALSE
  BY <1>2, OnlyPublications
<1>3. CASE Environment \/ UNCHANGED vars
  BY <1>3, EnvironmentStep DEF vars, state
<1> QED BY <1>1, <1>2, <1>3 DEF Next

\* A call starts with nothing; whoever has no root has no scope to finalize.
LEMMA OutsideSound ==
  ASSUME Usual, NEW g \in Goroutines, CallAny(g) \/ Return(g) PROVE CallSound(g)'
<1> USE DEF Usual
<1>1. CASE Return(g)
  <2>1. op'[g] = Idle
    BY <1>1 DEF Return, IInv, TypeOK
  <2> QED BY <2>1 DEF CallSound, Begun, Idle, BeginKind, FinalizeKind
<1>2. ASSUME NEW kind \in BeginKind, CallBegin(g, kind) PROVE CallSound(g)'
  <2>1. op'[g] = [Idle EXCEPT !.pc = "lock", !.kind = kind, !.scope = NoScope]
    BY <1>2 DEF CallBegin, Call, IInv, TypeOK
  <2> QED BY <2>1 DEF CallSound, Begun, Idle, BeginKind, FinalizeKind
<1>3. ASSUME NEW kind \in FinalizeKind, NEW s \in Scopes, Call(g, kind, s),
             scope[s].status # "none"
      PROVE  CallSound(g)'
  <2>1. op'[g] = [Idle EXCEPT !.pc = "lock", !.kind = kind, !.scope = s] /\ UNCHANGED scope
    BY <1>3 DEF Call, IInv, TypeOK, state
  <2> QED BY <1>3, <2>1 DEF CallSound, Begun, Idle, BeginKind, FinalizeKind
<1>4. ASSUME NEW kind \in FinalizeKind, CallNoRoot(g, kind) PROVE CallSound(g)'
  <2>1. op'[g] = [Idle EXCEPT !.pc = "done", !.kind = kind, !.ret = ScopeRefusal(NoScope)]
    BY <1>4 DEF CallNoRoot, IInv, TypeOK
  <2>2. stack = <<>>
    BY <1>4, OutsideStep, LastFacts, NullAssumption DEF IInv, TypeOK, CallNoRoot, Root
  <2>3. ScopeRefusal(NoScope) # {}
    BY <2>2 DEF ScopeRefusal
  <2> QED BY <2>1, <2>3 DEF CallSound, Begun, Idle, BeginKind, FinalizeKind
<1>5. ASSUME NEW kind \in FinalizeKind, CallRoot(g, kind) PROVE CallSound(g)'
  <2>1. Root \in Scopes /\ scope[Root].status = "active"
    BY <1>5, LastFacts DEF CallRoot, Root, IInv, TypeOK, ScopesNest
  <2> QED BY <1>3, <1>5, <2>1 DEF CallRoot
<1>6. ASSUME NEW kind \in FinalizeKind, CallScope(g, kind) PROVE CallSound(g)'
  BY <1>3, <1>6 DEF CallScope, Handles
<1> QED BY <1>1, <1>2, <1>4, <1>5, <1>6 DEF CallAny

\* A refused begin has no scope; a refused commit or rollback says why, if its
\* scope is still open.
LEMMA EnterSound ==
  ASSUME Usual, NEW g \in Goroutines, Enter(g) PROVE CallSound(g)'
<1> USE DEF Usual
<1>0. /\ op'[g].kind = op[g].kind /\ op'[g].commitErr = op[g].commitErr /\ op[g].pc = "lock"
      /\ UNCHANGED <<rootStatus, scope>> /\ CallSound(g)
      /\ op[g].scope \in Scopes \cup {NoScope}
  BY EnterStep DEF StateKept, CallInv, IInv, TypeOK, Operation
<1>1. CASE op'[g].pc = "done"
  <2>1. PICK err \in SUBSET Refusals :
          /\ err # {}
          /\ op'[g].ret = IF op[g].commitErr = {} THEN err
                          ELSE {"FinalizationFailed"} \cup op[g].commitErr \cup err
          /\ op[g].kind = "commit" => err = CommitRefusal(op[g].scope)
          /\ op[g].kind = "rollback" => err = ScopeRefusal(op[g].scope)
    BY <1>1, EnterStep
  <2>2. op'[g].scope = op[g].scope /\ op'[g].ret # {} /\ err \subseteq op'[g].ret
    BY <1>1, <2>1, EnterStep
  <2>3. ASSUME op[g].kind \in FinalizeKind, op[g].scope # NoScope, rootStatus = "active",
               scope[op[g].scope].status = "active"
        PROVE  err \cap {"ScopeOrderViolation", "RollbackOnly"} # {}
    <3>1. stack # <<>>
      BY <2>3 DEF IInv, ScopesNest
    <3>2. ScopeRefusal(op[g].scope) \in {{}, {"ScopeOrderViolation"}}
      BY <2>3, <3>1 DEF ScopeRefusal
    <3> QED BY <2>1, <2>3, <3>2 DEF CommitRefusal, FinalizeKind
  <2>4. ~Begun(g)'
    BY <1>0, <2>2 DEF Begun, CallSound
  <2> QED BY <1>0, <1>1, <2>2, <2>3, <2>4 DEF CallSound, BeginKind, FinalizeKind
<1>2. CASE op'[g].pc = "before"
  <2>1. op[g].kind \in FinalizeKind => op'[g].scope = op[g].scope
    BY <1>2, EnterStep
  <2>2. ~Begun(g)'
    BY <1>2 DEF Begun
  <2> QED BY <1>0, <1>2, <2>1, <2>2 DEF CallSound
<1> QED BY <1>1, <1>2, EnterStep

\* The steps inside a call: a begin that fails gives its scope up.
LEMMA InnerSound ==
  ASSUME Usual, NEW g \in Goroutines,
         RunBefore(g) \/ Finish(g) \/ Compensate(g) \/ CallbackPanic(g)
  PROVE  CallSound(g)'
<1> USE DEF Usual
<1>0. /\ op[g] \in Operation /\ UNCHANGED <<rootStatus, scope>> /\ CallSound(g)
      /\ Aware(g) /\ ErrorsGiven(g)
  BY InnerStep DEF StateKept, CallInv, IInv, TypeOK, OutcomeInv, Known, Aware
<1>1. CASE RunBefore(g)
  <2>1. /\ op'[g].kind = op[g].kind /\ op'[g].scope = op[g].scope
        /\ op'[g].commitErr = op[g].commitErr
        /\ op'[g].pc \in {"adapter", "publish"} \/ (op'[g].pc = "after" /\ op'[g].before # {})
    BY <1>0, <1>1 DEF RunBefore, IInv, TypeOK, Operation
  <2>2. ~Begun(g)'
    BY <2>1 DEF Begun, BeginFailed
  <2> QED BY <1>0, <2>1, <2>2 DEF CallSound
<1>2. CASE Finish(g)
  <2>1. /\ op[g].pc = "after" /\ ~CommitFailed(g) /\ op'[g].pc = "done"
        /\ op'[g].ret = Result(op[g])
        /\ op'[g].kind = op[g].kind /\ op'[g].commitErr = op[g].commitErr
        /\ op'[g].scope = IF BeginFailed(op[g]) THEN NoScope ELSE op[g].scope
    BY <1>0, <1>2 DEF Finish, IInv, TypeOK, Operation
  <2>2. Concluded(op[g]) /\ op[g].scope # NoScope
    BY <1>0, <2>1, NullAssumption DEF Aware, Concluded
  <2>3. CASE op[g].kind \in BeginKind
    <3>1. BeginFailed(op[g]) <=> Result(op[g]) # {}
      BY <2>3 DEF BeginFailed, Result, BeginResult
    <3>2. ~BeginFailed(op[g]) => Begun(g)
      BY <2>1, <2>2, <2>3 DEF Begun
    <3> QED BY <1>0, <2>1, <2>2, <2>3, <3>1, <3>2 DEF CallSound, Begun, BeginKind, FinalizeKind
  <2>4. CASE op[g].kind \in FinalizeKind
    <3>1. ~BeginFailed(op[g])
      BY <2>4 DEF BeginFailed, BeginKind, FinalizeKind
    <3>2. scope[op[g].scope].status # "active"
      BY <2>1, <2>2, <2>4 DEF Concluded, FinalizeKind, CommitFailed
    <3>3. op[g].commitErr # {} => op[g].kind = "rollback"
      BY <1>0, <2>4 DEF CallSound, FinalizeKind
    <3>4. op[g].kind = "rollback" /\ op[g].commitErr # {} => Result(op[g]) # {}
      BY DEF Result, commitFailureError, BeginKind
    <3>5. ~Begun(g)'
      BY <2>1, <2>4 DEF Begun, BeginKind, FinalizeKind
    <3> QED BY <1>0, <2>1, <2>2, <2>4, <3>1, <3>2, <3>3, <3>4, <3>5
           DEF CallSound, BeginKind, FinalizeKind
  <2> QED BY <1>0, <2>1, <2>3, <2>4 DEF Aware
<1>3. CASE Compensate(g)
  <2>1. /\ op[g].kind = "commit" /\ op'[g].pc = "lock" /\ op'[g].kind = "rollback"
        /\ op'[g].scope = op[g].scope
    BY <1>0, <1>3 DEF Compensate, CommitFailed, IInv, TypeOK, Operation
  <2> QED BY <1>0, <2>1 DEF CallSound, Begun, BeginKind, FinalizeKind
<1>4. CASE CallbackPanic(g)
  <2>1. /\ op'[g].pc = "done" /\ op'[g].kind = op[g].kind /\ op'[g].commitErr = op[g].commitErr
        /\ op'[g].ret = {"Panic"}
        /\ op'[g].scope = IF op[g].kind \in BeginKind THEN NoScope ELSE op[g].scope
    BY <1>0, <1>4 DEF CallbackPanic, IInv, TypeOK, Operation
  <2> QED BY <1>0, <2>1 DEF CallSound, Begun, BeginKind, FinalizeKind
<1> QED BY <1>1, <1>2, <1>3, <1>4

\* The adapter's answers and the publications.
LEMMA WorkSound ==
  ASSUME Usual, NEW g \in Goroutines, Adapter(g) \/ Publish(g) PROVE CallSound(g)'
<1> USE DEF Usual
<1>0. CallSound(g) /\ op[g].scope \in Scopes
  BY AdapterStep, PublishStep DEF CallInv
<1>1. CASE Adapter(g)
  <2>1. ~Begun(g)'
    BY <1>1, AdapterStep DEF Begun, BeginFailed
  <2> QED BY <1>0, <1>1, <2>1, AdapterStep DEF CallSound
<1>2. CASE Publish(g)
  <2>1. /\ op'[g].pc = "after" /\ op'[g].kind = op[g].kind /\ op'[g].scope = op[g].scope
        /\ op'[g].commitErr = op[g].commitErr
    BY <1>2, PublishStep
  <2>2. CASE PublishBeginRoot(g) \/ PublishBeginNested(g)
    <3>1. op[g].kind \in BeginKind
      BY <2>2 DEF PublishBeginRoot, PublishBeginNested, BeginKind
    <3>2. /\ scope'[op[g].scope].status # "none"
          /\ op[g].kind = "beginRoot" <=> scope'[op[g].scope].depth = 0
      <4>1. CASE PublishBeginRoot(g)
        BY <4>1, PublishedBegin DEF PublishBeginRoot
      <4>2. CASE PublishBeginNested(g)
        <5>1. scope'[op[g].scope].depth > 0 /\ scope'[op[g].scope].status = "active"
          BY <4>2, PublishedBegin
        <5>2. op[g].kind # "beginRoot"
          BY <4>2 DEF PublishBeginNested
        <5> QED BY <5>1, <5>2
      <4> QED BY <2>2, <4>1, <4>2
    <3> QED BY <2>1, <3>1, <3>2 DEF CallSound, BeginKind, FinalizeKind
  <2>3. CASE PublishCommit(g) \/ PublishRollback(g)
    <3>1. op[g].kind \in FinalizeKind /\ op[g].kind \notin BeginKind
      BY <2>3 DEF PublishCommit, PublishRollback, FinalizeKind, BeginKind
    <3>2. scope'[op[g].scope].status # "none"
      BY <1>0, <1>2, <2>3, PublishLasts, PublishedEnd DEF Lasts, OutcomeInv
    <3> QED BY <1>0, <2>1, <3>1, <3>2 DEF CallSound, Begun
  <2> QED BY <1>2, <2>2, <2>3 DEF Publish
<1> QED BY <1>1, <1>2

\* The scope of a begin after a step: the one it had, none, or a fresh one.
LEMMA BeginScope ==
  ASSUME Usual, NEW g \in Goroutines, CallAny(g) \/ Step(g) \/ Return(g),
         op'[g].kind \in BeginKind
  PROVE  \/ op[g].kind \in BeginKind /\ op'[g].scope = op[g].scope
         \/ op'[g].scope = NoScope
         \/ op'[g].scope \in Fresh /\ opMu = NoOne
<1> USE DEF Usual
<1>1. CASE CallAny(g) \/ Return(g)
  <2>1. \/ op'[g].kind \in BeginKind /\ op'[g].scope = NoScope
        \/ op'[g].kind \in FinalizeKind
        \/ op'[g] = Idle
    BY <1>1, OutsideStep DEF IInv
  <2> QED BY <2>1 DEF Idle, BeginKind, FinalizeKind
<1>2. CASE Enter(g)
  BY <1>2, EnterStep
<1>3. CASE RunBefore(g) \/ Finish(g) \/ Compensate(g) \/ CallbackPanic(g)
  BY <1>3, InnerStep DEF BeginKind
<1>4. CASE Adapter(g) \/ Publish(g)
  BY <1>4, AdapterStep, PublishStep
<1> QED BY <1>1, <1>2, <1>3, <1>4 DEF Step, Progress

\* A scope that has begun and has returned is never the scope of a begin again.
LEMMA NotBegunLasts ==
  ASSUME Usual, [Next]_vars, NEW s \in Scopes, scope[s].status # "none", NotBegun(s)
  PROVE  NotBegun(s)'
<1>1. ASSUME NEW g \in Goroutines, CallAny(g) \/ Step(g) \/ Return(g) PROVE NotBegun(s)'
  <2>1. OthersKept(g)
    BY <1>1, OnlyPublications DEF Usual
  <2>2. op'[g].kind \in BeginKind => op'[g].scope # s
    BY <1>1, BeginScope, NullAssumption DEF NotBegun, Beginning, Fresh
  <2> QED BY <2>1, <2>2 DEF NotBegun, Beginning, OthersKept
<1>2. CASE Environment \/ UNCHANGED vars
  BY <1>2, EnvironmentStep DEF vars, NotBegun, Beginning, Usual
<1> QED BY <1>1, <1>2 DEF Next

\* Begins keep their scopes apart: a fresh scope is nobody's.
LEMMA ApartStays ==
  ASSUME Usual, NEW g \in Goroutines, CallAny(g) \/ Step(g) \/ Return(g),
         NEW h \in Goroutines \ {g}, h \in Beginning', g \in Beginning'
  PROVE  op'[g].scope # op'[h].scope \/ op'[g].scope = NoScope
<1> USE DEF Usual
<1>1. op'[h] = op[h] /\ h \in Beginning
  BY OnlyPublications DEF OthersKept, Beginning
<1>2. op[g].kind \in BeginKind => op[g].scope # op[h].scope \/ op[g].scope = NoScope
  BY <1>1 DEF CallInv, Beginning
<1>3. op[h].scope \in Fresh /\ opMu = NoOne => op[h].scope = NoScope
  <2> SUFFICES ASSUME op[h].scope \in Fresh, opMu = NoOne PROVE op[h].scope = NoScope
    OBVIOUS
  <2>1. op[h].pc \notin Inside /\ op[h].pc \in PC
    BY NullAssumption DEF IInv, Exclusive, TypeOK, Operation
  <2>2. op[h].pc # "idle"
    BY <1>1 DEF CallInv, CallSound, Idle, Beginning, BeginKind
  <2>3. op[h].kind \in BeginKind /\ CallSound(h)
    BY <1>1 DEF CallInv, Beginning
  <2>4. CASE op[h].pc = "lock"
    BY <2>3, <2>4 DEF CallSound
  <2>5. CASE op[h].pc = "done"
    BY <2>3, <2>5 DEF CallSound, Begun, Fresh
  <2> QED BY <2>1, <2>2, <2>4, <2>5 DEF PC, Inside
<1>4. op'[g].kind \in BeginKind
  BY DEF Beginning
<1> QED BY <1>1, <1>2, <1>3, <1>4, BeginScope

\* A second root does not begin.
LEMMA OneRootStays ==
  ASSUME Usual, [Next]_vars, NEW s \in Scopes, NEW t \in Scopes,
         scope'[s].status # "none", scope'[s].depth = 0,
         scope'[t].status # "none", scope'[t].depth = 0
  PROVE  s = t
<1> USE DEF Usual
<1>1. CASE UNCHANGED scope
  BY <1>1 DEF CallInv
<1>2. ASSUME NEW g \in Goroutines, Publish(g) PROVE s = t
  <2>1. CASE PublishBeginRoot(g)
    <3>1. \A r \in Scopes : scope[r].status = "none"
      BY <1>2, <2>1, PublishStep DEF IInv, Doomed, PublishBeginRoot, PublishBeginNested,
         PublishCommit, PublishRollback
    <3> QED BY <2>1, <3>1, PublishedBegin
  <2>2. CASE PublishBeginNested(g)
    BY <2>2, PublishedBegin DEF CallInv
  <2>3. CASE PublishCommit(g) \/ PublishRollback(g)
    <3>1. \A r \in Scopes : scope'[r].status # "none" => scope[r].status # "none"
      BY <2>3, PublishedEnd
    <3> QED BY <2>3, <3>1, PublishedEnd DEF CallInv
  <2> QED BY <1>2, <2>1, <2>2, <2>3 DEF Publish
<1>3. ASSUME NEW g \in Goroutines, CallAny(g) \/ Step(g) \/ Return(g), ~Publish(g)
      PROVE  UNCHANGED scope
  BY <1>3, OnlyPublications
<1>4. CASE Environment \/ UNCHANGED vars
  BY <1>1, <1>4, EnvironmentStep DEF vars, state
<1> QED BY <1>1, <1>2, <1>3, <1>4 DEF Next

\* Every step of UnitOfWork keeps what is known of it.
LEMMA NextUsual == Usual /\ [Next]_vars => Usual'
<1> SUFFICES ASSUME Usual, [Next]_vars PROVE Usual'
  OBVIOUS
<1> USE DEF Usual
<1>1. IInv' /\ OutcomeInv'
  BY NextIInv, NextLasts, NextPlaced, NextKnown DEF OutcomeInv
<1>2. ASSUME NEW h \in Goroutines PROVE CallSound(h)'
  <2>1. rootStatus' = "active" =>
          rootStatus = "active" \/ \A s \in Scopes : scope[s].status = "none"
    BY FirstRoot
  <2>2. CASE op'[h] = op[h]
    BY <2>1, <2>2, CallStill, NextLasts DEF OutcomeInv, CallInv
  <2>3. ASSUME NEW g \in Goroutines, CallAny(g) \/ Step(g) \/ Return(g) PROVE CallSound(h)'
    <3>1. OthersKept(g)
      BY <2>3, OnlyPublications
    <3>2. CallSound(g)'
      BY <2>3, OutsideSound, EnterSound, InnerSound, WorkSound DEF Step, Progress
    <3> QED BY <2>2, <3>1, <3>2 DEF OthersKept
  <2> QED BY <2>2, <2>3, EnvironmentStep DEF Next, vars
<1>3. ASSUME NEW g \in Beginning', NEW h \in Beginning', g # h
      PROVE  op'[g].scope # op'[h].scope \/ op'[g].scope = NoScope
  <2>1. g \in Goroutines /\ h \in Goroutines
    BY DEF Beginning
  <2>2. CASE Environment \/ UNCHANGED vars
    BY <1>3, <2>2, EnvironmentStep DEF CallInv, Beginning, vars
  <2>3. ASSUME NEW k \in Goroutines, CallAny(k) \/ Step(k) \/ Return(k)
        PROVE  op'[g].scope # op'[h].scope \/ op'[g].scope = NoScope
    <3>1. OthersKept(k)
      BY <2>3, OnlyPublications
    <3>2. CASE k \notin {g, h}
      BY <1>3, <2>1, <3>1, <3>2 DEF OthersKept, CallInv, Beginning
    <3> QED BY <1>3, <2>1, <2>3, <3>2, ApartStays
  <2> QED BY <2>2, <2>3 DEF Next
<1>4. \A s, t \in Scopes :
        /\ scope'[s].status # "none" /\ scope'[s].depth = 0
        /\ scope'[t].status # "none" /\ scope'[t].depth = 0
        => s = t
  BY OneRootStays
<1> QED BY <1>1, <1>2, <1>3, <1>4 DEF CallInv

\* Initially no call has been made.
LEMMA InitUsual == Init => Usual
<1> SUFFICES ASSUME Init PROVE CallInv
  BY InitIInv, InitOutcome DEF Usual
<1> QED BY DEF Init, CallInv, CallSound, Begun, Beginning, Idle, BeginKind, FinalizeKind, Unused

-----------------------------------------------------------------------------
(* Scopes that nobody ends.                                                *)

\* Only the publication of its own commit or rollback ends a scope, or a
\* rollback that fails.
LEMMA UntouchedStill ==
  ASSUME Usual, [Next]_vars, NEW s \in Scopes, Untouched(s),
         \A h \in Goroutines : PublishCommit(h) \/ PublishRollback(h) => op[h].scope # s
  PROVE  Untouched(s)'
<1> USE DEF Usual
<1>1. CASE UNCHANGED <<rootStatus, stack, scope>>
  BY <1>1 DEF Untouched, OnStack
<1>2. ASSUME NEW g \in Goroutines, Publish(g) PROVE Untouched(s)'
  <2>1. rootStatus # "failed" /\ scope[s].status = "active" /\ OnStack(s)
    BY <1>2, PublishStep DEF Untouched
  <2>2. CASE PublishBeginRoot(g) \/ PublishBeginNested(g)
    BY <2>1, <2>2, PublishedBegin DEF Untouched
  <2>3. CASE PublishCommit(g) \/ PublishRollback(g)
    <3>1. s # op[g].scope
      BY <2>3
    <3>2. CASE rootStatus' = "failed"
      BY <2>1, <2>3, <3>1, <3>2, PublishedEnd DEF Untouched
    <3>3. CASE rootStatus' # "failed"
      <4>1. scope'[s] = scope[s] /\ OnStack(s)'
        BY <2>1, <2>3, <3>1, <3>3, PublishedEnd
      <4> QED BY <2>1, <4>1 DEF Untouched
    <3> QED BY <3>2, <3>3
  <2> QED BY <1>2, <2>2, <2>3 DEF Publish
<1>3. ASSUME NEW g \in Goroutines, CallAny(g) \/ Step(g) \/ Return(g), ~Publish(g)
      PROVE  UNCHANGED <<rootStatus, stack, scope>>
  BY <1>3, OnlyPublications
<1>4. CASE Environment \/ UNCHANGED vars
  BY <1>1, <1>4, EnvironmentStep DEF vars, state
<1> QED BY <1>1, <1>2, <1>3, <1>4 DEF Next

\* A scope becomes committed by the publication of its own commit.
LEMMA CommittedBy ==
  ASSUME Usual, [Next]_vars, NEW s \in Scopes,
         scope'[s].status = "committed", scope[s].status # "committed"
  PROVE  \E g \in Goroutines : PublishCommit(g) /\ op[g].scope = s
<1> USE DEF Usual
<1>1. ASSUME NEW g \in Goroutines, Publish(g) PROVE PublishCommit(g) /\ op[g].scope = s
  <2>1. CASE PublishBeginRoot(g) \/ PublishBeginNested(g)
    BY <2>1, PublishedBegin
  <2>2. CASE PublishRollback(g)
    <3>1. op[g].kind = "rollback"
      BY <2>2 DEF PublishRollback
    <3> QED BY <2>2, <3>1, PublishedEnd
  <2>3. CASE PublishCommit(g)
    <3>1. op[g].kind = "commit"
      BY <2>3 DEF PublishCommit
    <3> QED BY <2>3, <3>1, PublishedEnd
  <2> QED BY <1>1, <2>1, <2>2, <2>3 DEF Publish
<1>2. ASSUME NEW g \in Goroutines, CallAny(g) \/ Step(g) \/ Return(g), ~Publish(g)
      PROVE  UNCHANGED scope
  BY <1>2, OnlyPublications
<1>3. Environment \/ UNCHANGED vars => UNCHANGED scope
  BY EnvironmentStep DEF vars, state
<1> QED BY <1>1, <1>2, <1>3 DEF Next

\* A handle stays one.
LEMMA HandlesLast ==
  ASSUME Usual, [Next]_vars, NEW s \in Handles PROVE s \in Handles'
<1>1. s \in Scopes /\ scope[s].status # "none" /\ scope[s].depth > 0 /\ NotBegun(s)
  BY DEF Handles, NotBegun
<1>2. scope'[s].status # "none" /\ scope'[s].depth = scope[s].depth
  BY <1>1, NextLasts DEF Usual, OutcomeInv, Lasts
<1>3. NotBegun(s)'
  BY <1>1, NotBegunLasts
<1> QED BY <1>1, <1>2, <1>3 DEF Handles, NotBegun

-----------------------------------------------------------------------------
(* The goroutines' stacks of executions.                                   *)

\* The innermost execution.
LEMMA RunningFacts ==
  ASSUME ManagerTypeOK, NEW g \in Goroutines, frames[g] # <<>>
  PROVE  /\ Len(frames[g]) \in DOMAIN frames[g] /\ Running(g) = frames[g][Len(frames[g])]
         /\ Running(g) \in Frame /\ Last(frames[g]) = Running(g)
<1>1. frames[g] \in Seq(Frame)
  BY DEF ManagerTypeOK
<1> QED BY <1>1, LastFacts DEF Running

\* The three ways to change a stack: an execution is pushed.
LEMMA PushFacts ==
  ASSUME ManagerTypeOK, NEW g \in Goroutines, NEW f \in Frame,
         frames' = [frames EXCEPT ![g] = Append(@, f)]
  PROVE  /\ frames' \in [Goroutines -> Seq(Frame)]
         /\ frames'[g] # <<>> /\ Last(frames'[g]) = f
         /\ Len(frames'[g]) = Len(frames[g]) + 1 /\ frames'[g][Len(frames[g]) + 1] = f
         /\ \A i \in DOMAIN frames[g] : i \in DOMAIN frames'[g] /\ frames'[g][i] = frames[g][i]
         /\ DOMAIN frames'[g] = DOMAIN frames[g] \cup {Len(frames[g]) + 1}
         /\ \A h \in Goroutines \ {g} : frames'[h] = frames[h]
<1>1. frames[g] \in Seq(Frame) /\ frames \in [Goroutines -> Seq(Frame)]
  BY DEF ManagerTypeOK
<1>2. frames'[g] = Append(frames[g], f) /\ Append(frames[g], f) \in Seq(Frame)
  BY <1>1
<1>3. frames'[g] # <<>> /\ Last(frames'[g]) = f
  BY <1>1, <1>2 DEF Last
<1> QED BY <1>1, <1>2, <1>3

\* Its innermost execution is replaced.
LEMMA SetFacts ==
  ASSUME ManagerTypeOK, NEW g \in Goroutines, frames[g] # <<>>, NEW f \in Frame, SetFrame(g, f)
  PROVE  /\ frames' \in [Goroutines -> Seq(Frame)]
         /\ frames'[g] # <<>> /\ Last(frames'[g]) = f
         /\ Len(frames'[g]) = Len(frames[g]) /\ frames'[g][Len(frames[g])] = f
         /\ DOMAIN frames'[g] = DOMAIN frames[g]
         /\ \A i \in DOMAIN frames[g] : i # Len(frames[g]) => frames'[g][i] = frames[g][i]
         /\ \A h \in Goroutines \ {g} : frames'[h] = frames[h]
<1>1. frames[g] \in Seq(Frame) /\ frames \in [Goroutines -> Seq(Frame)]
  BY DEF ManagerTypeOK
<1>2. /\ Front(frames[g]) \in Seq(Frame) /\ Len(Front(frames[g])) = Len(frames[g]) - 1
      /\ \A i \in 1 .. Len(frames[g]) - 1 : Front(frames[g])[i] = frames[g][i]
  BY <1>1, FrontFacts
<1>3. Len(frames[g]) \in Nat \ {0}
  BY <1>1, LastFacts
<1>4. frames'[g] = Append(Front(frames[g]), f)
  BY <1>1 DEF SetFrame
<1> DEFINE q == Front(frames[g])
<1>5. /\ Append(q, f) \in Seq(Frame) /\ Len(Append(q, f)) = Len(frames[g])
      /\ Append(q, f)[Len(frames[g])] = f
      /\ \A i \in 1 .. Len(frames[g]) - 1 : Append(q, f)[i] = frames[g][i]
  <2> HIDE DEF q
  <2> QED BY <1>2, <1>3 DEF q
<1>6. Append(q, f) # <<>> /\ Last(Append(q, f)) = f
  BY <1>3, <1>5 DEF Last
<1>7. DOMAIN frames[g] = 1 .. Len(frames[g]) /\ DOMAIN Append(q, f) = 1 .. Len(frames[g])
  BY <1>1, <1>5
<1> HIDE DEF q
<1> QED BY <1>1, <1>3, <1>4, <1>5, <1>6, <1>7 DEF SetFrame, q

\* Its innermost execution leaves.
LEMMA LeaveFacts ==
  ASSUME ManagerTypeOK, NEW g \in Goroutines, frames[g] # <<>>, Leave(g)
  PROVE  /\ frames' \in [Goroutines -> Seq(Frame)]
         /\ Len(frames'[g]) = Len(frames[g]) - 1
         /\ DOMAIN frames'[g] = DOMAIN frames[g] \ {Len(frames[g])}
         /\ \A i \in DOMAIN frames'[g] : frames'[g][i] = frames[g][i]
         /\ \A h \in Goroutines \ {g} : frames'[h] = frames[h]
<1>1. frames[g] \in Seq(Frame) /\ frames \in [Goroutines -> Seq(Frame)]
  BY DEF ManagerTypeOK
<1>2. /\ Front(frames[g]) \in Seq(Frame) /\ Len(Front(frames[g])) = Len(frames[g]) - 1
      /\ \A i \in 1 .. Len(frames[g]) - 1 : Front(frames[g])[i] = frames[g][i]
  BY <1>1, FrontFacts
<1>3. Len(frames[g]) \in Nat \ {0} /\ DOMAIN frames[g] = 1 .. Len(frames[g])
  BY <1>1, LastFacts
<1>4. frames'[g] = Front(frames[g])
  BY <1>1 DEF Leave
<1>5. DOMAIN Front(frames[g]) = 1 .. Len(frames[g]) - 1
  BY <1>2, <1>3
<1> QED BY <1>1, <1>2, <1>3, <1>4, <1>5 DEF Leave

-----------------------------------------------------------------------------
(* Every step is a step of UnitOfWork or leaves it alone.                  *)

Managed == Usual /\ ManagerInv

\* The innermost execution of a goroutine is sound.
LEMMA RunningSound ==
  ASSUME Managed, NEW g \in Goroutines, frames[g] # <<>>
  PROVE  FrameSound(Running(g)) /\ Running(g) \in Frame
BY RunningFacts DEF Managed, ManagerInv, FramesSound

\* A look at the mark is a query, if it changes anything.
LEMMA LookAllowed ==
  ASSUME IInv, UNCHANGED <<rootStatus, stack, scope, ctxDone, opMu, op, backend>>,
         markCancelledIfNeeded \/ UNCHANGED <<rollbackOnly, rollbackReason>>
  PROVE  [Next]_vars
<1>1. CASE markCancelledIfNeeded /\ Cancelled
  BY <1>1 DEF Query, Environment, Next
<1>2. CASE markCancelledIfNeeded /\ ~Cancelled
  <2>1. rollbackOnly \in BOOLEAN
    BY DEF IInv, TypeOK
  <2>2. MarkedOnly = rollbackOnly /\ MarkedReason = rollbackReason
    BY <1>2, <2>1 DEF MarkedOnly, MarkedReason
  <2> QED BY <1>2, <2>2 DEF markCancelledIfNeeded, vars, state
<1> QED BY <1>1, <1>2 DEF vars, state

\* What the executor finalizes is its own scope, and a call that callers of
\* UnitOfWork may make.
LEMMA FinalizeAllowed ==
  ASSUME Managed, NEW g \in Goroutines, FinalizeExecution(g)
  PROVE  LET f == Running(g) IN
         /\ CallAny(g) /\ op[g].pc = "idle" /\ f.plan \in FinalizeKind /\ FrameSound(f)
         /\ f.stage = "decided" /\ f \in Frame /\ frames[g] # <<>>
         /\ \/ Call(g, f.plan, f.scope)
            \/ f.root /\ CallNoRoot(g, f.plan) /\ stack = <<>>
<1> DEFINE f == Running(g)
<1>1. frames[g] # <<>> /\ f.stage = "decided" /\ FinalizeCall(g, f)
  BY RunningFacts DEF FinalizeExecution, At, Managed, ManagerInv
<1>2. FrameSound(f) /\ f \in Frame
  BY <1>1, RunningSound
<1>3. /\ f.plan \in FinalizeKind /\ f.scope \in Scopes /\ scope[f.scope].status # "none"
      /\ f.root <=> scope[f.scope].depth = 0
      /\ NotBegun(f.scope)
  BY <1>1, <1>2 DEF FrameSound, Held
<1>4. op[g].pc = "idle"
  BY <1>1 DEF Managed, ManagerInv, CallsSound, Belongs, At, Running
<1>5. CASE f.root /\ CallRoot(g, f.plan)
  <2>1. Root \in Scopes /\ scope[Root].status = "active" /\ scope[Root].depth = 0
    <3>1. stack # <<>>
      BY <1>5 DEF CallRoot, Root
    <3>2. Root = stack[1] /\ 1 \in DOMAIN stack /\ Root \in Scopes
      BY <3>1, LastFacts DEF Root, Managed, Usual, IInv, TypeOK
    <3>3. scope[stack[1]].status = "active" /\ scope[stack[1]].depth = 1 - 1
      BY <3>2 DEF Managed, Usual, IInv, ScopesNest
    <3> QED BY <3>2, <3>3
  <2>2. Root = f.scope
    BY <1>3, <1>5, <2>1 DEF Managed, Usual, CallInv
  <2> QED BY <1>1, <1>2, <1>3, <1>4, <1>5, <2>2 DEF CallRoot, CallAny
<1>6. CASE f.root /\ CallNoRoot(g, f.plan)
  <2>1. stack = <<>>
    BY <1>6, LastFacts, NullAssumption DEF Managed, Usual, IInv, TypeOK, CallNoRoot, Root
  <2> QED BY <1>1, <1>2, <1>3, <1>4, <1>6, <2>1 DEF CallAny
<1>7. CASE ~f.root /\ Call(g, f.plan, f.scope)
  <2>1. scope[f.scope].depth \in Nat
    BY <1>3 DEF Managed, Usual, IInv, TypeOK, ScopeState
  <2>2. f.scope \in Handles
    BY <1>3, <1>7, <2>1 DEF Handles, NotBegun
  <2> QED BY <1>1, <1>2, <1>3, <1>4, <1>7, <2>2 DEF CallAny, CallScope
<1> QED BY <1>1, <1>5, <1>6, <1>7 DEF FinalizeCall

\* Each step of a managed execution, and of the user code in it.
LEMMA ManagerNextAllowed == Managed /\ [ManagerNext]_managerVars => [Next]_vars
<1> SUFFICES ASSUME Managed, ManagerNext PROVE [Next]_vars
  BY DEF managerVars
<1>0. IInv
  BY DEF Managed, Usual
<1>1. CASE Environment \/ \E g \in Goroutines : Step(g)
  BY <1>1 DEF Next
<1>2. ASSUME NEW g \in Goroutines, Execute(g) PROVE [Next]_vars
  <2>1. CASE Ask(g)
    BY <1>0, <2>1, LookAllowed DEF Ask
  <2>2. CASE BeginExecution(g)
    BY <2>2 DEF BeginExecution, Next, CallAny, Kind, BeginKind
  <2>3. CASE Began(g) \/ EndExecution(g)
    BY <2>3 DEF Began, EndExecution, Next
  <2>4. CASE DecideRoot(g)
    BY <1>0, <2>4, LookAllowed DEF DecideRoot
  <2>5. CASE DecideNested(g)
    BY <2>5 DEF DecideNested
  <2>6. CASE FinalizeExecution(g)
    BY <2>6, FinalizeAllowed DEF Next
  <2> QED BY <1>2, <2>1, <2>2, <2>3, <2>4, <2>5, <2>6 DEF Execute
<1>3. ASSUME NEW g \in Goroutines, ManualCall(g) PROVE [Next]_vars
  <2>1. manual \subseteq Handles
    BY DEF Managed, ManagerInv
  <2> QED BY <1>3, <2>1 DEF ManualCall, Next, CallAny, CallScope, BeginKind
<1>4. ASSUME NEW g \in Goroutines, ManualReturn(g) PROVE [Next]_vars
  BY <1>4 DEF ManualReturn, Next
<1> QED BY <1>1, <1>2, <1>3, <1>4 DEF ManagerNext

-----------------------------------------------------------------------------
(* Who ends which scope.                                                   *)

\* A commit or a rollback is made by the executor of its scope, or by hand.
LEMMA Finalizer ==
  ASSUME Managed, NEW h \in Goroutines, PublishCommit(h) \/ PublishRollback(h)
  PROVE  op[h].scope \in manual \/ (At(h, "end") /\ op[h].scope = Running(h).scope)
<1>1. op[h].pc = "publish" /\ op[h].kind \in FinalizeKind /\ op[h].kind \notin BeginKind
  BY DEF PublishCommit, PublishRollback, FinalizeKind, BeginKind
<1>2. Belongs(h)
  BY DEF Managed, ManagerInv, CallsSound
<1>3. Kind(h) \in BeginKind
  BY DEF Kind, BeginKind
<1>4. frames[h] = <<>> \/ \E stage \in Stage : At(h, stage)
  BY RunningFacts DEF Managed, ManagerInv, At, Frame
<1> QED BY <1>1, <1>2, <1>3, <1>4 DEF Belongs, Stage, BeginKind

\* Nobody ends the scope under a callback.
LEMMA CallbackUntouched ==
  ASSUME Managed, NEW g \in Goroutines, NEW i \in DOMAIN frames[g],
         frames[g][i].stage \in {"fn", "decided"},
         NEW h \in Goroutines, PublishCommit(h) \/ PublishRollback(h)
  PROVE  op[h].scope # frames[g][i].scope
<1> DEFINE f == frames[g][i]
<1>1. FrameSound(f)
  BY DEF Managed, ManagerInv, FramesSound
<1>2. f.scope \notin manual
  BY <1>1 DEF FrameSound, Held
<1>3. CASE At(h, "end") /\ op[h].scope = Running(h).scope
  <2> DEFINE j == Len(frames[h])
  <2>1. j \in DOMAIN frames[h] /\ Running(h) = frames[h][j] /\ frames[h][j].stage = "end"
    BY <1>3, RunningFacts DEF At, Managed, ManagerInv
  <2>2. f.scope = frames[h][j].scope => g = h /\ i = j
    BY <2>1 DEF Managed, ManagerInv, FramesApart, Held
  <2> QED BY <1>3, <2>1, <2>2
<1> QED BY <1>2, <1>3, Finalizer

\* Nor the one that another execution is finalizing.
LEMMA FinalizerUntouched ==
  ASSUME Managed, NEW g \in Goroutines, At(g, "end"),
         NEW h \in Goroutines \ {g}, PublishCommit(h) \/ PublishRollback(h)
  PROVE  op[h].scope # Running(g).scope
<1> DEFINE f == Running(g)
<1>1. FrameSound(f) /\ f.stage = "end"
  BY RunningSound, RunningFacts DEF At, Managed, ManagerInv
<1>2. f.scope \notin manual
  BY <1>1 DEF FrameSound, Held
<1>3. CASE At(h, "end") /\ op[h].scope = Running(h).scope
  BY <1>1, <1>3, RunningFacts DEF At, Managed, ManagerInv, FramesApart, Held
<1> QED BY <1>2, <1>3, Finalizer

\* Nor the one that a begin is about to return.
LEMMA BegunUntouched ==
  ASSUME Managed, NEW g \in Goroutines, Begun(g),
         NEW h \in Goroutines, PublishCommit(h) \/ PublishRollback(h)
  PROVE  op[h].scope # op[g].scope
<1>1. g \in Beginning
  BY DEF Begun, Beginning
<1>2. \A s \in manual : op[g].scope # s
  BY <1>1 DEF Managed, ManagerInv, Handles
<1>3. CASE At(h, "end") /\ op[h].scope = Running(h).scope
  <2>1. NotBegun(Running(h).scope)
    BY <1>3, RunningSound, RunningFacts DEF At, Managed, ManagerInv, FrameSound, Held
  <2> QED BY <1>1, <1>3, <2>1 DEF NotBegun
<1> QED BY <1>2, <1>3, Finalizer

\* An execution stays sound while others move.
LEMMA FrameStill ==
  ASSUME Managed, [Next]_vars, NEW f \in Frame, FrameSound(f),
         f.stage \in Held => f.scope \notin manual',
         f.stage \in {"fn", "decided"} =>
           \A h \in Goroutines : PublishCommit(h) \/ PublishRollback(h) => op[h].scope # f.scope
  PROVE  FrameSound(f)'
<1>1. f.stage \in Held =>
        /\ f.scope \in Scopes /\ scope'[f.scope].status # "none"
        /\ f.root <=> scope'[f.scope].depth = 0
        /\ NotBegun(f.scope)'
  BY NextLasts, NotBegunLasts DEF FrameSound, Managed, Usual, OutcomeInv, Lasts
<1>2. f.stage \in {"fn", "decided"} => Untouched(f.scope)'
  BY UntouchedStill DEF FrameSound, Managed, Held
<1>3. f.stage \in {"decided", "end"} =>
       /\ f.plan \in FinalizeKind
       /\ f.plan = "rollback" => f.cause # {}
       /\ f.plan = "commit" /\ DefaultPolicy => f.cause = {}
  BY DEF FrameSound
<1> QED BY <1>1, <1>2, <1>3 DEF FrameSound

-----------------------------------------------------------------------------
(* Steps of the executors' calls.                                          *)

\* A goroutine's call and its scope, while others move.
LEMMA CallsStill ==
  ASSUME Managed, [Next]_vars, NEW h \in Goroutines, op'[h] = op[h], frames'[h] = frames[h],
         manual \subseteq manual'
  PROVE  Belongs(h)' /\ Finalizing(h)' /\ (Begun(h) => Untouched(op[h].scope))'
<1>0. Usual /\ Belongs(h) /\ Finalizing(h) /\ (Begun(h) => Untouched(op[h].scope))
  BY DEF Managed, ManagerInv, CallsSound
<1>1. Belongs(h)'
  <2>1. Running(h)' = Running(h) /\ Kind(h)' = Kind(h)
    BY DEF Running, Kind
  <2> QED BY <1>0, <2>1 DEF Belongs, At
<1>2. ASSUME PublishCommit(h) \/ PublishRollback(h) PROVE FALSE
  BY <1>0, <1>2, PublishStep DEF Publish, Usual
<1>3. ASSUME At(h, "end") PROVE Finalizing(h)'
  <2> PICK f : f = Running(h)
    OBVIOUS
  <2>0. Running(h)' = f /\ CommitFailed(h)' = CommitFailed(h)
    BY DEF Running, CommitFailed
  <2>1. f \in Frame /\ FrameSound(f) /\ f.stage = "end"
    BY <1>3, RunningSound, RunningFacts DEF At, Managed, ManagerInv
  <2>2. f.scope \in Scopes /\ scope[f.scope].status # "none"
    BY <2>1 DEF FrameSound, Held
  <2>3. \A k \in Goroutines : PublishCommit(k) \/ PublishRollback(k) => op[k].scope # f.scope
    BY <1>2, <1>3, FinalizerUntouched
  <2>4. Untouched(f.scope) => Untouched(f.scope)'
    BY <1>0, <2>2, <2>3, UntouchedStill
  <2>5. scope'[f.scope].status = "committed" => scope[f.scope].status = "committed"
    BY <1>0, <2>2, <2>3, CommittedBy
  <2>6. rootStatus' = "active" => rootStatus = "active"
    BY <1>0, <2>2, FirstRoot DEF Usual
  <2> QED BY <1>0, <1>3, <2>0, <2>4, <2>5, <2>6 DEF Finalizing, At
<1>4. Finalizing(h)'
  BY <1>3 DEF Finalizing, At
<1>5. Begun(h)' <=> Begun(h)
  BY DEF Begun, BeginFailed
<1>6. ASSUME Begun(h) PROVE Untouched(op[h].scope)'
  <2> PICK s : s = op[h].scope
    OBVIOUS
  <2>1. s \in Scopes /\ Untouched(s)
    BY <1>0, <1>6 DEF Usual, IInv, TypeOK, Operation, Begun
  <2>2. \A k \in Goroutines : PublishCommit(k) \/ PublishRollback(k) => op[k].scope # s
    BY <1>6, BegunUntouched
  <2>3. Untouched(s)'
    BY <1>0, <2>1, <2>2, UntouchedStill
  <2> QED BY <2>3 DEF Untouched, OnStack
<1> QED BY <1>1, <1>4, <1>5, <1>6

\* A step of a call neither starts nor ends it, and it stays with its scope.
LEMMA StepKind ==
  ASSUME Usual, NEW g \in Goroutines, Step(g)
  PROVE  /\ OthersKept(g) /\ op[g].pc \in {"lock"} \cup Inside /\ op'[g].pc # "idle"
         /\ \/ op'[g].kind = op[g].kind
            \/ op[g].kind = "commit" /\ op'[g].kind = "rollback"
         /\ op[g].kind \in FinalizeKind => op'[g].scope = op[g].scope
<1> USE DEF Usual
<1>1. CASE Enter(g)
  BY <1>1, EnterStep DEF FinalizeKind, BeginKind
<1>2. CASE RunBefore(g) \/ Finish(g) \/ Compensate(g) \/ CallbackPanic(g)
  BY <1>2, InnerStep DEF CommitFailed, FinalizeKind, BeginKind, BeginFailed, Inside
<1>3. CASE Adapter(g) \/ Publish(g)
  BY <1>3, AdapterStep, PublishStep DEF Inside
<1> QED BY <1>1, <1>2, <1>3 DEF Step, Progress

\* The executor's own commit or rollback.
LEMMA FinalizingSteps ==
  ASSUME Managed, NEW g \in Goroutines, Step(g), At(g, "end"), UNCHANGED frames
  PROVE  Finalizing(g)'
<1> PICK f : f = Running(g)
  OBVIOUS
<1>0. /\ Usual /\ Finalizing(g) /\ Aware(g) /\ ErrorsGiven(g) /\ op[g].kind \in FinalizeKind
      /\ op[g].scope = f.scope /\ op[g].scope \in Scopes /\ op'[g].scope = f.scope
      /\ Running(g) = f /\ Running(g)' = f
  <2>1. f \in Frame /\ FrameSound(f) /\ f.stage = "end"
    BY RunningSound, RunningFacts DEF At, Managed, ManagerInv
  <2>2. op[g].kind \in FinalizeKind /\ op[g].scope = f.scope
    BY StepKind DEF Managed, ManagerInv, CallsSound, Belongs, Inside
  <2> QED BY <2>1, <2>2, StepKind DEF Managed, ManagerInv, CallsSound, Usual, OutcomeInv, Known,
          Aware, FrameSound, Held, Running
<1>1. f.scope # NoScope /\ op[g].kind \notin BeginKind
  BY <1>0, NullAssumption DEF FinalizeKind, BeginKind
<1>2. /\ op[g].pc \in {"lock", "before", "adapter", "publish"} => Untouched(f.scope)
      /\ op[g].pc = "after" /\ CommitFailed(g) => Untouched(f.scope)
      /\ op[g].kind = "commit" => f.plan = "commit"
      /\ op[g].kind = "rollback" /\ op[g].commitErr = {} => f.plan = "rollback"
  BY <1>0 DEF Finalizing
<1>3. ASSUME \/ op'[g].pc \in {"lock", "before", "adapter", "publish"}
             \/ op'[g].pc = "after" /\ CommitFailed(g)'
      PROVE  Untouched(f.scope)'
  <2>1. CASE Publish(g)
    <3>1. op'[g].pc = "after" /\ ~CommitFailed(g)'
      BY <1>0, <2>1, PublishStep DEF Usual, ErrorsGiven, CommitFailed
    <3> QED BY <1>3, <3>1
  <2>2. CASE ~Publish(g)
    <3>1. UNCHANGED <<rootStatus, stack, scope>>
      BY <2>2, OnlyPublications DEF Managed, Usual
    <3>2. Untouched(f.scope)
      <4>1. CASE Enter(g) \/ Adapter(g)
        BY <1>0, <1>2, <4>1, EnterStep, AdapterStep DEF Usual
      <4>2. CASE RunBefore(g) \/ Finish(g) \/ Compensate(g) \/ CallbackPanic(g)
        BY <1>0, <1>2, <1>3, <4>2, InnerStep DEF Usual
      <4> QED BY <2>2, <4>1, <4>2 DEF Step, Progress
    <3> QED BY <3>1, <3>2 DEF Untouched, OnStack
  <2> QED BY <2>1, <2>2
<1>4. ASSUME op'[g].pc = "done", scope'[f.scope].status = "committed"
      PROVE  (op'[g].kind = "commit" /\ op'[g].ret = {}) \/ op'[g].ret = {"Panic"}
  <2>1. CASE Enter(g)
    <3>1. Untouched(f.scope) /\ scope' = scope
      BY <1>0, <1>2, <2>1, EnterStep DEF Usual, StateKept
    <3> QED BY <1>4, <3>1 DEF Untouched
  <2>2. CASE RunBefore(g) \/ Finish(g) \/ Compensate(g) \/ CallbackPanic(g)
    <3>0. CASE op'[g].ret = {"Panic"}
      BY <3>0
    <3> SUFFICES ASSUME op'[g].ret # {"Panic"} PROVE op'[g].kind = "commit" /\ op'[g].ret = {}
      OBVIOUS
    <3>1. /\ op[g].pc = "after" /\ ~CommitFailed(g) /\ op'[g].ret = Result(op[g])
          /\ op'[g].kind = op[g].kind /\ scope' = scope
      BY <1>0, <1>4, <2>2, InnerStep DEF Usual, StateKept
    <3>2. Concluded(op[g])
      BY <1>0, <3>1 DEF Aware
    <3>3. op[g].kind = "commit"
      BY <1>0, <1>4, <3>1, <3>2 DEF Concluded, FinalizeKind
    <3>4. Result(op[g]) = {}
      BY <1>1, <3>3 DEF Result
    <3> QED BY <3>1, <3>3, <3>4
  <2>3. CASE Adapter(g) \/ Publish(g)
    BY <1>0, <1>4, <2>3, AdapterStep, PublishStep DEF Usual
  <2> QED BY <2>1, <2>2, <2>3 DEF Step, Progress
<1>5. /\ op'[g].kind = "commit" => f.plan = "commit"
      /\ op'[g].kind = "rollback" /\ op'[g].commitErr = {} => f.plan = "rollback"
  <2>1. CASE Enter(g) \/ Adapter(g) \/ Publish(g)
    BY <1>0, <1>2, <2>1, EnterStep, AdapterStep, PublishStep DEF Usual
  <2>2. CASE RunBefore(g) \/ Finish(g) \/ Compensate(g) \/ CallbackPanic(g)
    BY <1>0, <1>2, <2>2, InnerStep DEF Usual, CommitFailed
  <2> QED BY <2>1, <2>2 DEF Step, Progress
<1> QED BY <1>0, <1>1, <1>3, <1>4, <1>5 DEF Finalizing, At

\* A begin that has published its scope has not lost it.
LEMMA BegunSteps ==
  ASSUME Managed, NEW g \in Goroutines, Step(g), Begun(g)'
  PROVE  Untouched(op[g].scope)'
<1>0. Usual /\ CallSound(g) /\ op[g] \in Operation
  BY DEF Managed, Usual, CallInv, IInv, TypeOK
<1>1. /\ op'[g].kind \in BeginKind /\ op'[g].scope # NoScope
      /\ (op'[g].pc = "after" /\ op'[g].before \cup op'[g].attempt = {}) \/ op'[g].pc = "done"
  BY DEF Begun, BeginFailed
<1>2. CASE Enter(g)
  BY <1>0, <1>1, <1>2, EnterStep DEF Usual, CallSound
<1>3. CASE RunBefore(g) \/ Finish(g) \/ Compensate(g) \/ CallbackPanic(g)
  <2>1. /\ op[g].pc = "after" /\ op'[g].scope = op[g].scope /\ ~BeginFailed(op[g])
        /\ op'[g].kind = op[g].kind /\ UNCHANGED <<rootStatus, stack, scope>>
    BY <1>0, <1>1, <1>3, InnerStep DEF Usual, StateKept, BeginKind
  <2>2. Untouched(op[g].scope)
    BY <1>1, <2>1 DEF Managed, ManagerInv, CallsSound, Begun
  <2> QED BY <2>1, <2>2 DEF Untouched, OnStack
<1>4. CASE Adapter(g)
  BY <1>0, <1>1, <1>4, AdapterStep DEF Usual
<1>5. CASE Publish(g)
  <2>1. op'[g].kind = op[g].kind /\ op'[g].scope = op[g].scope /\ op[g].scope \in Scopes
    BY <1>0, <1>5, PublishStep DEF Usual
  <2>2. PublishBeginRoot(g) \/ PublishBeginNested(g)
    BY <1>1, <1>5, <2>1 DEF Publish, PublishCommit, PublishRollback, BeginKind
  <2> PICK s : s = op[g].scope
    OBVIOUS
  <2>3. scope'[s].status = "active" /\ OnStack(s)'
    BY <1>0, <2>1, <2>2, PublishedBegin DEF Usual
  <2> QED BY <2>1, <2>3 DEF Untouched, OnStack
<1> QED BY <1>2, <1>3, <1>4, <1>5 DEF Step, Progress

\* Whatever happens inside the calls, or to the mark and the database, the
\* executions stay sound.
LEMMA InsideKeeps ==
  ASSUME Managed, Environment \/ \E g \in Goroutines : Step(g), UNCHANGED <<frames, manual>>
  PROVE  ManagerInv'
<1>0. Usual /\ [Next]_vars /\ Usual'
  BY NextUsual DEF Managed, Next
<1>1. ManagerTypeOK'
  BY <1>0 DEF Managed, ManagerInv, ManagerTypeOK, Usual, IInv
<1>2. FramesSound'
  <2>1. ASSUME NEW g \in Goroutines, NEW i \in DOMAIN frames[g], NEW f, f = frames[g][i]
        PROVE  FrameSound(f)'
    <3>1. f \in Frame /\ FrameSound(f)
      BY <2>1 DEF Managed, ManagerInv, ManagerTypeOK, FramesSound
    <3>2. f.stage \in Held => f.scope \notin manual'
      BY <3>1 DEF FrameSound
    <3>3. f.stage \in {"fn", "decided"} =>
            \A h \in Goroutines : PublishCommit(h) \/ PublishRollback(h) => op[h].scope # f.scope
      BY <2>1, CallbackUntouched
    <3> QED BY <1>0, <3>1, <3>2, <3>3, FrameStill
  <2> QED BY <2>1 DEF FramesSound, Managed, ManagerInv
<1>3. FramesApart'
  BY DEF FramesApart, Managed, ManagerInv
<1>4. ASSUME NEW h \in Goroutines
      PROVE  Belongs(h)' /\ Finalizing(h)' /\ (Begun(h) => Untouched(op[h].scope))'
  <2>1. CASE op'[h] = op[h]
    BY <1>0, <2>1, CallsStill
  <2>2. CASE Step(h)
    <3>1. Belongs(h)'
      <4>1. /\ op[h].pc \notin {"idle", "done"} /\ op'[h].pc # "idle"
            /\ \/ op'[h].kind = op[h].kind
               \/ op[h].kind = "commit" /\ op'[h].kind = "rollback"
            /\ op[h].kind \in FinalizeKind => op'[h].scope = op[h].scope
        BY <1>0, <2>2, StepKind DEF Inside
      <4>2. Belongs(h)
        BY DEF Managed, ManagerInv, CallsSound
      <4>3. Kind(h) \in BeginKind /\ Kind(h)' = Kind(h) /\ Running(h)' = Running(h)
        BY DEF Kind, Running, BeginKind
      <4> QED BY <4>1, <4>2, <4>3 DEF Belongs, At, BeginKind, FinalizeKind
    <3>2. Finalizing(h)'
      BY <2>2, FinalizingSteps DEF Finalizing, At
    <3> QED BY <2>2, <3>1, <3>2, BegunSteps
  <2>3. ASSUME NEW g \in Goroutines \ {h}, Step(g) PROVE op'[h] = op[h]
    BY <1>0, <2>3, StepKind DEF OthersKept
  <2>4. Environment => op'[h] = op[h]
    BY <1>0, EnvironmentStep DEF Usual
  <2> QED BY <2>1, <2>2, <2>3, <2>4
<1>5. CallsSound'
  BY <1>4 DEF CallsSound
<1>6. (manual \subseteq Handles)'
  BY <1>0, HandlesLast DEF Managed, ManagerInv
<1> QED BY <1>1, <1>2, <1>3, <1>5, <1>6 DEF ManagerInv

-----------------------------------------------------------------------------
(* Steps of the executors.                                                 *)

\* A goroutine's stack changes at the top only, and what is on top is sound and
\* has its scope to itself.
TopChanges(g) == \A i \in DOMAIN frames'[g] :
  /\ \/ i \in DOMAIN frames[g] /\ frames'[g][i] = frames[g][i]
     \/ /\ i = Len(frames'[g]) /\ FrameSound(frames[g][i])'
        /\ frames'[g][i].stage \in Held =>
             \A h \in Goroutines : \A j \in DOMAIN frames[h] :
               frames[h][j].stage \in Held /\ frames[h][j].scope = frames'[g][i].scope
               => h = g /\ j = i
  /\ i < Len(frames'[g]) => frames'[g][i].stage = "fn"

\* What an executor does to its own stack leaves the others sound.
LEMMA ExecuteKeeps ==
  ASSUME Managed, [Next]_vars, UNCHANGED <<rootStatus, stack, scope>>,
         NEW g \in Goroutines, OthersKept(g),
         frames' \in [Goroutines -> Seq(Frame)],
         \A h \in Goroutines \ {g} : frames'[h] = frames[h],
         manual \subseteq manual', (manual \subseteq Handles)',
         \A h \in Goroutines : \A i \in DOMAIN frames[h] :
           frames[h][i].stage \in Held => frames[h][i].scope \notin manual',
         TopChanges(g),
         Belongs(g)', Finalizing(g)', (Begun(g) => Untouched(op[g].scope))'
  PROVE  ManagerInv'
<1>0. Usual /\ Usual'
  BY NextUsual DEF Managed
<1>1. \A h \in Goroutines : ~PublishCommit(h) /\ ~PublishRollback(h)
  <2> SUFFICES ASSUME NEW h \in Goroutines, PublishCommit(h) \/ PublishRollback(h) PROVE FALSE
    OBVIOUS
  <2> QED BY <1>0, PublishedEnd DEF Usual
<1>2. ManagerTypeOK'
  BY <1>0 DEF ManagerTypeOK, Usual, IInv, Handles
<1>3. ASSUME NEW h \in Goroutines, NEW i \in DOMAIN frames[h]
      PROVE  FrameSound(frames[h][i])' \/ frames'[h][i] # frames[h][i]
  <2> PICK f : f = frames[h][i]
    OBVIOUS
  <2>1. f \in Frame /\ FrameSound(f)
    BY DEF Managed, ManagerInv, ManagerTypeOK, FramesSound
  <2>2. FrameSound(f)'
    BY <1>1, <2>1, FrameStill
  <2> QED BY <2>2 DEF FrameSound
<1>4. FramesSound'
  <2>1. ASSUME NEW h \in Goroutines \ {g}, NEW i \in DOMAIN frames'[h]
        PROVE  /\ FrameSound(frames[h][i])'
               /\ i < Len(frames'[h]) => frames'[h][i].stage = "fn"
    BY <1>3, <2>1 DEF FramesSound, Managed, ManagerInv
  <2>2. ASSUME NEW i \in DOMAIN frames'[g]
        PROVE  /\ FrameSound(frames[g][i])'
               /\ i < Len(frames'[g]) => frames'[g][i].stage = "fn"
    BY <1>3, <2>2 DEF TopChanges
  <2> QED BY <2>1, <2>2 DEF FramesSound
<1>5. FramesApart'
  <2>0. FramesApart
    BY DEF Managed, ManagerInv
  <2>1. ASSUME NEW h \in Goroutines, NEW i \in DOMAIN frames'[h]
        PROVE  \/ i \in DOMAIN frames[h] /\ frames'[h][i] = frames[h][i]
               \/ /\ h = g /\ i = Len(frames'[g])
                  /\ frames'[g][i].stage \in Held =>
                       \A k \in Goroutines : \A j \in DOMAIN frames[k] :
                         frames[k][j].stage \in Held /\ frames[k][j].scope = frames'[g][i].scope
                         => k = g /\ j = i
    BY <2>1 DEF TopChanges
  <2> SUFFICES ASSUME NEW h \in Goroutines, NEW k \in Goroutines,
                      NEW i \in DOMAIN frames'[h], NEW j \in DOMAIN frames'[k],
                      frames'[h][i].stage \in Held, frames'[k][j].stage \in Held,
                      frames'[h][i].scope = frames'[k][j].scope
               PROVE  h = k /\ i = j
    BY DEF FramesApart
  <2>2. CASE i \in DOMAIN frames[h] /\ frames'[h][i] = frames[h][i]
    BY <2>0, <2>1, <2>2 DEF FramesApart
  <2>3. CASE j \in DOMAIN frames[k] /\ frames'[k][j] = frames[k][j]
    BY <2>0, <2>1, <2>3 DEF FramesApart
  <2> QED BY <2>1, <2>2, <2>3
<1>6. CallsSound'
  BY CallsStill DEF CallsSound, OthersKept
<1> QED BY <1>2, <1>4, <1>5, <1>6 DEF ManagerInv

\* The three ways to change a stack, as changes at its top.
LEMMA PushTop ==
  ASSUME Managed, NEW g \in Goroutines, frames[g] = <<>> \/ At(g, "fn"), NEW f \in Frame,
         frames' = [frames EXCEPT ![g] = Append(@, f)], f.stage \notin Held
  PROVE  TopChanges(g)
<1> USE DEF Managed, ManagerInv
<1> PICK n : n = Len(frames[g]) + 1
  OBVIOUS
<1>1. f.stage \notin {"fn", "decided", "end"} /\ frames'[g][n] = f
  BY PushFacts DEF Held
<1>2. FrameSound(frames[g][n])'
  BY <1>1 DEF FrameSound, Held
<1>3. \A i \in DOMAIN frames[g] : frames[g][i].stage = "fn"
  BY RunningFacts DEF FramesSound, At, ManagerTypeOK
<1>4. /\ Len(frames'[g]) = n /\ DOMAIN frames'[g] = DOMAIN frames[g] \cup {n}
      /\ \A i \in DOMAIN frames[g] : frames'[g][i] = frames[g][i]
  BY PushFacts
<1> QED BY <1>1, <1>2, <1>3, <1>4 DEF TopChanges, Held

LEMMA SetTop ==
  ASSUME Managed, NEW g \in Goroutines, frames[g] # <<>>, NEW f \in Frame, SetFrame(g, f),
         FrameSound(f)',
         f.stage \in Held =>
           \A h \in Goroutines : \A j \in DOMAIN frames[h] :
             frames[h][j].stage \in Held /\ frames[h][j].scope = f.scope
             => h = g /\ j = Len(frames[g])
  PROVE  TopChanges(g)
<1> USE DEF Managed, ManagerInv
<1>1. FrameSound(frames[g][Len(frames[g])])'
  BY SetFacts DEF FrameSound
<1>2. \A i \in DOMAIN frames[g] : i # Len(frames[g]) => i < Len(frames[g])
  BY DEF ManagerTypeOK
<1> QED BY <1>1, <1>2, SetFacts DEF TopChanges, FramesSound

LEMMA LeaveTop ==
  ASSUME Managed, NEW g \in Goroutines, frames[g] # <<>>, Leave(g)
  PROVE  TopChanges(g) /\ (frames'[g] = <<>> \/ At(g, "fn")')
<1> USE DEF Managed, ManagerInv
<1>1. \A i \in DOMAIN frames[g] \ {Len(frames[g])} : frames[g][i].stage = "fn"
  BY DEF ManagerTypeOK, FramesSound
<1>2. TopChanges(g)
  BY <1>1, LeaveFacts DEF TopChanges
<1>3. ASSUME frames'[g] # <<>> PROVE At(g, "fn")'
  <2>1. frames'[g] \in Seq(Frame)
    BY LeaveFacts
  <2>2. Len(frames'[g]) \in DOMAIN frames'[g] /\ Last(frames'[g]) = frames'[g][Len(frames'[g])]
    BY <1>3, <2>1, LastFacts
  <2> QED BY <1>1, <1>3, <2>2, LeaveFacts DEF At
<1> QED BY <1>2, <1>3

\* A goroutine whose call has not changed, or has returned or just begun, has
\* no begun scope to look after.
LEMMA NoneBegun ==
  ASSUME NEW g \in Goroutines, op[g].pc \in {"idle", "lock"} PROVE ~Begun(g)
BY DEF Begun

\* What the steps of the executors have in common.
LEMMA ExecutorStep ==
  ASSUME Managed, [Next]_vars, NEW g \in Goroutines,
         \/ UNCHANGED op
         \/ CallAny(g) \/ Return(g),
         UNCHANGED <<rootStatus, stack, scope>>, UNCHANGED manual,
         frames' \in [Goroutines -> Seq(Frame)],
         \A h \in Goroutines \ {g} : frames'[h] = frames[h],
         TopChanges(g), Belongs(g)', Finalizing(g)', ~Begun(g)'
  PROVE  ManagerInv'
<1>1. OthersKept(g)
  BY OutsideStep DEF Managed, Usual, IInv, OthersKept
<1>2. (manual \subseteq Handles)'
  BY HandlesLast DEF Managed, ManagerInv
<1>3. \A h \in Goroutines : \A i \in DOMAIN frames[h] :
        frames[h][i].stage \in Held => frames[h][i].scope \notin manual'
  BY DEF Managed, ManagerInv, FramesSound, FrameSound
<1> QED BY <1>1, <1>2, <1>3, ExecuteKeeps

\* InTransaction answers: nothing is held yet.
LEMMA AskKeeps == ASSUME Managed, NEW g \in Goroutines, Ask(g) PROVE ManagerInv'
<1>0. [Next]_vars
  BY ManagerNextAllowed DEF ManagerNext, Execute
<1> PICK f : f = Asked(rootStatus # "active")
  OBVIOUS
<1>1. /\ f \in Frame /\ f.stage = "asked"
      /\ frames' = [frames EXCEPT ![g] = Append(@, f)]
      /\ frames[g] = <<>> \/ At(g, "fn")
      /\ op[g].pc = "idle" /\ UNCHANGED <<rootStatus, stack, scope, op, manual>>
  BY DEF Ask, Asked, Frame, Stage, InUserCode
<1>2. TopChanges(g)
  BY <1>1, PushTop DEF Held
<1>3. frames' \in [Goroutines -> Seq(Frame)] /\ At(g, "asked")'
      /\ \A h \in Goroutines \ {g} : frames'[h] = frames[h]
  BY <1>1, PushFacts DEF At, Managed, ManagerInv
<1>4. ~At(g, "begin")' /\ ~At(g, "end")' /\ ~At(g, "fn")' /\ frames'[g] # <<>>
  BY <1>3 DEF At
<1>5. Belongs(g)' /\ Finalizing(g)' /\ ~Begun(g)'
  BY <1>1, <1>4, NoneBegun DEF Belongs, Finalizing, Begun
<1> QED BY <1>0, <1>1, <1>2, <1>3, <1>5, ExecutorStep

\* The begin is called: still nothing is held.
LEMMA BeginExecutionKeeps ==
  ASSUME Managed, NEW g \in Goroutines, BeginExecution(g) PROVE ManagerInv'
<1>0. [Next]_vars
  BY ManagerNextAllowed DEF ManagerNext, Execute
<1> PICK f : f = [Running(g) EXCEPT !.stage = "begin"]
  OBVIOUS
<1>1. frames[g] # <<>> /\ Running(g) \in Frame
  BY RunningFacts DEF BeginExecution, At, Managed, ManagerInv
<1>2. f \in Frame /\ f.stage = "begin" /\ f.root = Running(g).root /\ SetFrame(g, f)
  BY <1>1 DEF Frame, Stage, BeginExecution
<1>3. /\ op'[g].pc = "lock" /\ op'[g].kind = Kind(g) /\ CallAny(g)
      /\ UNCHANGED <<rootStatus, stack, scope, manual>>
  <2>1. Kind(g) \in BeginKind /\ CallBegin(g, Kind(g))
    BY DEF BeginExecution, Kind, BeginKind
  <2>2. Call(g, Kind(g), NoScope)
    BY <2>1 DEF CallBegin
  <2>3. op'[g].pc = "lock" /\ op'[g].kind = Kind(g)
    BY <2>2 DEF Call, Managed, Usual, IInv, TypeOK
  <2> QED BY <2>1, <2>2, <2>3 DEF CallAny, Call, state, BeginExecution
<1>4. FrameSound(f)'
  BY <1>2 DEF FrameSound, Held
<1>5. TopChanges(g)
  BY <1>1, <1>2, <1>4, SetTop DEF Held
<1>6. /\ frames' \in [Goroutines -> Seq(Frame)] /\ frames'[g] # <<>> /\ Last(frames'[g]) = f
      /\ \A h \in Goroutines \ {g} : frames'[h] = frames[h]
  BY <1>1, <1>2, SetFacts DEF Managed, ManagerInv
<1>7. Kind(g)' = Kind(g)
  BY <1>2, <1>6 DEF Kind, Running
<1>8. Belongs(g)' /\ Finalizing(g)' /\ ~Begun(g)'
  BY <1>2, <1>3, <1>6, <1>7 DEF Belongs, Finalizing, At, Begun
<1> QED BY <1>0, <1>3, <1>5, <1>6, <1>8, ExecutorStep

\* An execution answers and leaves; its caller's callback runs on.
LEMMA LeaveKeeps ==
  ASSUME Managed, NEW g \in Goroutines, frames[g] # <<>>, Return(g), Leave(g), UNCHANGED manual
  PROVE  ManagerInv'
<1>0. [Next]_vars
  BY DEF Next
<1>1. op'[g] = Idle /\ UNCHANGED <<rootStatus, stack, scope>>
  BY DEF Return, Managed, Usual, IInv, TypeOK, state
<1>2. TopChanges(g) /\ (frames'[g] = <<>> \/ At(g, "fn")')
  BY LeaveTop
<1>3. /\ frames' \in [Goroutines -> Seq(Frame)]
      /\ \A h \in Goroutines \ {g} : frames'[h] = frames[h]
  BY LeaveFacts DEF Managed, ManagerInv
<1>4. Belongs(g)' /\ Finalizing(g)' /\ ~Begun(g)'
  BY <1>1, <1>2 DEF Belongs, Finalizing, At, Begun, Idle
<1> QED BY <1>0, <1>1, <1>2, <1>3, <1>4, ExecutorStep

\* The begin has returned: a new scope is handed over, or the error answered.
LEMMA BeganKeeps == ASSUME Managed, NEW g \in Goroutines, Began(g) PROVE ManagerInv'
<1>0. [Next]_vars
  BY ManagerNextAllowed DEF ManagerNext, Execute
<1>1. frames[g] # <<>> /\ Running(g) \in Frame /\ Running(g).stage = "begin" /\ Return(g)
  BY RunningFacts DEF Began, At, Managed, ManagerInv
<1>2. CASE Leave(g)
  BY <1>1, <1>2, LeaveKeeps DEF Began
<1>3. CASE op[g].ret = {} /\ SetFrame(g, [Running(g) EXCEPT !.stage = "fn", !.scope = op[g].scope])
  <2> PICK s : s = op[g].scope
    OBVIOUS
  <2> PICK f : f = [Running(g) EXCEPT !.stage = "fn", !.scope = s]
    OBVIOUS
  <2>1. /\ op[g].pc = "done" /\ op'[g] = Idle /\ UNCHANGED <<rootStatus, stack, scope, manual>>
        /\ \A h \in Goroutines \ {g} : op'[h] = op[h]
    BY <1>1 DEF Began, Return, Managed, Usual, IInv, TypeOK, state
  <2>2. op[g].kind = Kind(g) /\ op[g].kind \in BeginKind
    BY <1>1 DEF Began, Managed, ManagerInv, CallsSound, Belongs, Kind, BeginKind
  <2>3. Begun(g) /\ s \in Scopes
    BY <1>3, <2>1, <2>2 DEF Begun, Managed, Usual, CallInv, CallSound, IInv, TypeOK, Operation
  <2>4. /\ scope[s].status # "none" /\ Untouched(s)
        /\ op[g].kind = "beginRoot" <=> scope[s].depth = 0
    BY <2>3 DEF Managed, Usual, CallInv, CallSound, ManagerInv, CallsSound
  <2>5. f \in Frame /\ f.stage = "fn" /\ f.scope = s /\ f.root = Running(g).root /\ SetFrame(g, f)
    BY <1>1, <1>3, <2>3 DEF Frame, Stage
  <2>6. NotBegun(s)'
    <3> SUFFICES ASSUME NEW h \in Goroutines, op'[h].kind \in BeginKind, op'[h].scope = s
                 PROVE  FALSE
      BY DEF NotBegun, Beginning
    <3>1. h # g
      BY <2>1 DEF Idle, BeginKind
    <3>2. h \in Beginning /\ g \in Beginning /\ op[h].scope = op[g].scope
      BY <2>1, <2>2, <3>1 DEF Beginning
    <3> QED BY <2>3, <3>1, <3>2, NullAssumption DEF Managed, Usual, CallInv
  <2>7. s \notin manual
    BY <2>2 DEF Managed, ManagerInv, Handles, Beginning
  <2>8. FrameSound(f)'
    BY <2>1, <2>2, <2>3, <2>4, <2>5, <2>6, <2>7 DEF FrameSound, Held, Kind, Untouched, OnStack
  <2>9. \A h \in Goroutines : \A j \in DOMAIN frames[h] :
          ~(frames[h][j].stage \in Held /\ frames[h][j].scope = s)
    BY <2>2 DEF Managed, ManagerInv, FramesSound, FrameSound, NotBegun, Beginning
  <2>10. TopChanges(g)
    BY <1>1, <2>5, <2>8, <2>9, SetTop
  <2>11. /\ frames' \in [Goroutines -> Seq(Frame)] /\ frames'[g] # <<>> /\ Last(frames'[g]) = f
         /\ \A h \in Goroutines \ {g} : frames'[h] = frames[h]
    BY <1>1, <2>5, SetFacts DEF Managed, ManagerInv
  <2>12. Belongs(g)' /\ Finalizing(g)' /\ ~Begun(g)'
    BY <2>1, <2>5, <2>11 DEF Belongs, Finalizing, At, Begun, Idle
  <2> QED BY <1>0, <1>1, <2>1, <2>10, <2>11, <2>12, ExecutorStep
<1> QED BY <1>2, <1>3 DEF Began

\* The callback has returned and the executor knows what it will do: its scope
\* is the one it had.
LEMMA DecisionKeeps ==
  ASSUME Managed, [Next]_vars, NEW g \in Goroutines, At(g, "fn"), op[g].pc = "idle",
         UNCHANGED <<rootStatus, stack, scope, op, manual>>,
         NEW outcome \in Outcome, NEW plan \in FinalizeKind, NEW cause \in SUBSET Cause,
         Decided(g, outcome, plan, cause),
         plan = "rollback" => cause # {},
         plan = "commit" /\ DefaultPolicy => cause = {}
  PROVE  ManagerInv'
<1> PICK f : f = [Running(g) EXCEPT !.stage = "decided", !.outcome = outcome,
                                    !.plan = plan, !.cause = cause]
  OBVIOUS
<1>1. /\ frames[g] # <<>> /\ Running(g) \in Frame /\ Running(g).stage = "fn"
      /\ FrameSound(Running(g))
      /\ Running(g) = frames[g][Len(frames[g])] /\ Len(frames[g]) \in DOMAIN frames[g]
  BY RunningFacts, RunningSound DEF At, Managed, ManagerInv
<1>2. /\ f \in Frame /\ f.stage = "decided" /\ f.scope = Running(g).scope
      /\ f.root = Running(g).root /\ f.plan = plan /\ f.cause = cause /\ SetFrame(g, f)
  BY <1>1 DEF Frame, Stage, Outcome, Decided
<1>3. FrameSound(f)'
  BY <1>1, <1>2 DEF FrameSound, Held, NotBegun, Beginning, Untouched, OnStack
<1>4. ASSUME NEW h \in Goroutines, NEW j \in DOMAIN frames[h],
             frames[h][j].stage \in Held, frames[h][j].scope = f.scope
      PROVE  h = g /\ j = Len(frames[g])
  <2>1. frames[g][Len(frames[g])].stage \in Held
    BY <1>1 DEF Held
  <2> QED BY <1>1, <1>2, <1>4, <2>1 DEF Managed, ManagerInv, FramesApart
<1>5. TopChanges(g)
  BY <1>1, <1>2, <1>3, <1>4, SetTop
<1>6. /\ frames' \in [Goroutines -> Seq(Frame)] /\ frames'[g] # <<>> /\ Last(frames'[g]) = f
      /\ \A h \in Goroutines \ {g} : frames'[h] = frames[h]
  BY <1>1, <1>2, SetFacts DEF Managed, ManagerInv
<1>7. Belongs(g)' /\ Finalizing(g)' /\ ~Begun(g)'
  BY <1>2, <1>6 DEF Belongs, Finalizing, At, Begun
<1> QED BY <1>5, <1>6, <1>7, ExecutorStep

\* Every decision for a rollback has a cause; under the default policy a commit
\* has none.
LEMMA DecideKeeps ==
  ASSUME Managed, NEW g \in Goroutines, DecideRoot(g) \/ DecideNested(g) PROVE ManagerInv'
<1>0. [Next]_vars
  BY ManagerNextAllowed DEF ManagerNext, Execute
<1>1. {} \in Outcome /\ \A outcome \in Outcome : outcome \in SUBSET Cause
  BY DEF Outcome, Cause
<1>2. At(g, "fn") /\ op[g].pc = "idle" /\ UNCHANGED <<rootStatus, stack, scope, op, manual>>
  BY DEF DecideRoot, DecideNested, vars, state
<1>3. CASE DecideRoot(g)
  <2>0. PICK outcome \in Outcome : \E wants \in PolicyAnswers(outcome) :
          IF RollbackWanted(outcome, wants)
          THEN Decided(g, outcome, "rollback",
                       IF outcome = {} THEN {"RollbackCause"} ELSE outcome)
          ELSE Decided(g, outcome, "commit", outcome)
    BY <1>3 DEF DecideRoot
  <2>1. PICK wants \in PolicyAnswers(outcome) :
          IF RollbackWanted(outcome, wants)
          THEN Decided(g, outcome, "rollback",
                       IF outcome = {} THEN {"RollbackCause"} ELSE outcome)
          ELSE Decided(g, outcome, "commit", outcome)
    BY <2>0
  <2>2. CASE RollbackWanted(outcome, wants)
    <3> PICK cause : cause = IF outcome = {} THEN {"RollbackCause"} ELSE outcome
      OBVIOUS
    <3>1. cause \in SUBSET Cause /\ cause # {}
      BY <1>1 DEF Cause
    <3>2. Decided(g, outcome, "rollback", cause)
      BY <2>1, <2>2
    <3> QED BY <1>0, <1>2, <3>1, <3>2, DecisionKeeps DEF FinalizeKind
  <2>3. CASE ~RollbackWanted(outcome, wants)
    <3>1. Decided(g, outcome, "commit", outcome)
      BY <2>1, <2>3
    <3>2. DefaultPolicy => outcome = {}
      BY <2>1, <2>3 DEF RollbackWanted, PolicyAnswers
    <3> QED BY <1>0, <1>1, <1>2, <3>1, <3>2, DecisionKeeps DEF FinalizeKind
  <2> QED BY <2>2, <2>3
<1>4. CASE DecideNested(g)
  <2>1. CASE \E outcome \in Outcome \ {{}} : Decided(g, outcome, "rollback", outcome)
    BY <1>0, <1>1, <1>2, <2>1, DecisionKeeps DEF FinalizeKind
  <2>2. CASE Decided(g, {}, "rollback", {"ContextCancelled"})
    BY <1>0, <1>1, <1>2, <2>2, DecisionKeeps DEF FinalizeKind, Cause
  <2>3. CASE Decided(g, {}, "commit", {})
    BY <1>0, <1>1, <1>2, <2>3, DecisionKeeps DEF FinalizeKind
  <2> QED BY <1>4, <2>1, <2>2, <2>3 DEF DecideNested
<1> QED BY <1>3, <1>4

\* The executor finalizes its own scope, which nobody has touched yet.
LEMMA FinalizeKeeps ==
  ASSUME Managed, NEW g \in Goroutines, FinalizeExecution(g) PROVE ManagerInv'
<1>0. [Next]_vars
  BY ManagerNextAllowed DEF ManagerNext, Execute
<1> PICK d : d = Running(g)
  OBVIOUS
<1> PICK f : f = [d EXCEPT !.stage = "end"]
  OBVIOUS
<1>1. /\ CallAny(g) /\ op[g].pc = "idle" /\ d.plan \in FinalizeKind /\ FrameSound(d)
      /\ d.stage = "decided" /\ d \in Frame /\ frames[g] # <<>>
      /\ Call(g, d.plan, d.scope) \/ (CallNoRoot(g, d.plan) /\ stack = <<>>)
      /\ d = frames[g][Len(frames[g])] /\ Len(frames[g]) \in DOMAIN frames[g]
  BY FinalizeAllowed, RunningFacts DEF Managed, ManagerInv
<1>2. /\ f \in Frame /\ f.stage = "end" /\ f.scope = d.scope
      /\ f.root = d.root /\ f.plan = d.plan /\ f.cause = d.cause /\ SetFrame(g, f)
  BY <1>1 DEF Frame, Stage, FinalizeExecution
<1>3. /\ op'[g].kind = d.plan /\ op'[g].commitErr = {}
      /\ \/ op'[g].pc = "lock" /\ op'[g].scope = d.scope
         \/ op'[g].pc = "done" /\ op'[g].scope = NoScope /\ stack = <<>>
      /\ \A h \in Goroutines \ {g} : op'[h] = op[h]
      /\ UNCHANGED <<rootStatus, stack, scope, manual>>
  BY <1>1 DEF FinalizeExecution, Call, CallNoRoot, Idle, Managed, Usual, IInv, TypeOK, state
<1>4. /\ d.scope \in Scopes /\ scope[d.scope].status # "none"
      /\ d.root <=> scope[d.scope].depth = 0
      /\ NotBegun(d.scope) /\ d.scope \notin manual /\ Untouched(d.scope)
  BY <1>1 DEF FrameSound, Held
<1>5. NotBegun(d.scope)'
  BY <1>0, <1>4, NotBegunLasts DEF Managed
<1>6. FrameSound(f)'
  BY <1>1, <1>2, <1>3, <1>4, <1>5 DEF FrameSound, Held
<1>7. ASSUME NEW h \in Goroutines, NEW j \in DOMAIN frames[h],
             frames[h][j].stage \in Held, frames[h][j].scope = f.scope
      PROVE  h = g /\ j = Len(frames[g])
  <2>1. frames[g][Len(frames[g])].stage \in Held
    BY <1>1 DEF Held
  <2> QED BY <1>1, <1>2, <1>7, <2>1 DEF Managed, ManagerInv, FramesApart
<1>8. TopChanges(g)
  BY <1>1, <1>2, <1>6, <1>7, SetTop
<1>9. /\ frames' \in [Goroutines -> Seq(Frame)] /\ frames'[g] # <<>> /\ Last(frames'[g]) = f
      /\ \A h \in Goroutines \ {g} : frames'[h] = frames[h]
  BY <1>1, <1>2, SetFacts DEF Managed, ManagerInv
<1>10. At(g, "end")' /\ Running(g)' = f
  BY <1>2, <1>9 DEF At, Running
<1>11. Belongs(g)' /\ ~Begun(g)'
  <2>1. d.plan \notin BeginKind
    BY <1>1 DEF BeginKind, FinalizeKind
  <2> QED BY <1>1, <1>2, <1>3, <1>9, <1>10, <2>1 DEF Belongs, At, Begun
<1>12. Finalizing(g)'
  <2>1. Untouched(f.scope)' /\ scope'[f.scope].status # "committed"
    BY <1>2, <1>3, <1>4 DEF Untouched, OnStack
  <2>2. stack = <<>> => rootStatus' # "active"
    BY <1>3 DEF Managed, Usual, IInv, ScopesNest
  <2>3. op'[g].scope = NoScope => op'[g].pc = "done" /\ stack = <<>>
    BY <1>3, <1>4, NullAssumption
  <2> QED BY <1>2, <1>3, <1>10, <2>1, <2>2, <2>3 DEF Finalizing
<1> QED BY <1>0, <1>1, <1>3, <1>8, <1>9, <1>11, <1>12, ExecutorStep

\* Scopes opened and ended by hand are nobody's executions.
LEMMA ManualKeeps ==
  ASSUME Managed, NEW g \in Goroutines, ManualCall(g) \/ ManualReturn(g) PROVE ManagerInv'
<1>0. [Next]_vars /\ Usual'
  BY ManagerNextAllowed, NextUsual DEF ManagerNext, Managed
<1>1. frames' = frames /\ frames \in [Goroutines -> Seq(Frame)]
  BY DEF ManualCall, ManualReturn, Managed, ManagerInv, ManagerTypeOK
<1>2. TopChanges(g)
  BY <1>1 DEF TopChanges, Managed, ManagerInv, FramesSound
<1>3. frames[g] = <<>> \/ At(g, "fn")
  BY DEF ManualCall, ManualReturn, InUserCode
<1>4. Finalizing(g)'
  BY <1>1, <1>3 DEF Finalizing, At
<1>5. CASE ManualCall(g)
  <2>1. PICK kind \in {"beginNested"} \cup FinalizeKind, s \in Scopes \cup {NoScope} :
          /\ Call(g, kind, s)
          /\ kind = "beginNested" \/ s \in manual
    BY <1>5 DEF ManualCall, CallBegin, Managed, ManagerInv, ManagerTypeOK
  <2>2. op'[g].pc = "lock" /\ op'[g].kind = kind /\ op'[g].scope = s
        /\ UNCHANGED <<rootStatus, stack, scope, manual>>
    <3>1. manual' = manual
      BY <1>5 DEF ManualCall
    <3> QED BY <2>1, <3>1 DEF Call, Managed, Usual, IInv, TypeOK, state
  <2>3. Belongs(g)' /\ ~Begun(g)'
    BY <1>1, <1>3, <2>1, <2>2 DEF Belongs, At, Begun
  <2>4. CallAny(g)
    <3>1. manual \subseteq Handles
      BY DEF Managed, ManagerInv
    <3> QED BY <1>5, <3>1 DEF ManualCall, CallAny, CallScope, BeginKind
  <2> QED BY <1>0, <1>1, <1>2, <1>4, <2>2, <2>3, <2>4, ExecutorStep
<1>6. CASE ManualReturn(g)
  <2> PICK s : s = op[g].scope
    OBVIOUS
  <2>1. /\ op[g].pc = "done" /\ op'[g] = Idle /\ UNCHANGED <<rootStatus, stack, scope>>
        /\ \A h \in Goroutines \ {g} : op'[h] = op[h]
    BY <1>6 DEF ManualReturn, Return, Managed, Usual, IInv, TypeOK, state
  <2>2. Belongs(g)' /\ ~Begun(g)' /\ OthersKept(g)
    BY <1>1, <1>3, <2>1 DEF Belongs, At, Begun, Idle, OthersKept
  <2>3. CASE manual' = manual
    <3>1. Return(g)
      BY <1>6 DEF ManualReturn
    <3> QED BY <1>0, <1>1, <1>2, <1>4, <2>1, <2>2, <2>3, <3>1, ExecutorStep
  <2>4. CASE op[g].kind = "beginNested" /\ op[g].ret = {} /\ manual' = manual \cup {s}
    <3>1. g \in Beginning /\ Begun(g) /\ s \in Scopes
      BY <2>1, <2>4 DEF Begun, Beginning, BeginKind, Managed, Usual, CallInv, CallSound, IInv,
         TypeOK, Operation
    <3>2. scope[s].status # "none" /\ scope[s].depth > 0
      BY <2>4, <3>1 DEF Managed, Usual, CallInv, CallSound, IInv, TypeOK, ScopeState
    <3>3. \A h \in Beginning' : op'[h].scope # s
      <4> SUFFICES ASSUME NEW h \in Goroutines, op'[h].kind \in BeginKind, op'[h].scope = s
                   PROVE  FALSE
        BY DEF Beginning
      <4>1. h # g
        BY <2>1 DEF Idle, BeginKind
      <4>2. h \in Beginning /\ op[h].scope = op[g].scope
        BY <2>1, <4>1 DEF Beginning
      <4> QED BY <3>1, <4>1, <4>2, NullAssumption DEF Managed, Usual, CallInv
    <3>4. s \in Handles'
      BY <2>1, <3>1, <3>2, <3>3 DEF Handles
    <3>5. (manual \subseteq Handles)'
      BY <1>0, <2>4, <3>4, HandlesLast DEF Managed, ManagerInv
    <3>6. \A h \in Goroutines : \A i \in DOMAIN frames[h] :
            frames[h][i].stage \in Held => frames[h][i].scope \notin manual'
      BY <2>4, <3>1 DEF Managed, ManagerInv, FramesSound, FrameSound, NotBegun
    <3> QED BY <1>0, <1>1, <1>2, <1>4, <2>1, <2>2, <2>4, <3>5, <3>6, ExecuteKeeps
  <2> QED BY <1>6, <2>3, <2>4 DEF ManualReturn
<1> QED BY <1>5, <1>6

-----------------------------------------------------------------------------
(* The invariant of the executions.                                        *)

LEMMA InitManaged == ManagerInit => Managed
<1> SUFFICES ASSUME ManagerInit PROVE Managed
  OBVIOUS
<1>1. Usual
  BY InitUsual DEF ManagerInit
<1>2. \A g \in Goroutines : op[g] = Idle
  BY DEF ManagerInit, Init
<1>3. frames \in [Goroutines -> Seq(Frame)] /\ \A g \in Goroutines : frames[g] = <<>>
  BY DEF ManagerInit
<1>4. ManagerTypeOK /\ manual \subseteq Handles
  BY <1>1, <1>3 DEF ManagerTypeOK, Usual, IInv, ManagerInit
<1>5. FramesSound /\ FramesApart
  BY <1>3 DEF FramesSound, FramesApart
<1>6. CallsSound
  BY <1>2, <1>3, NoneBegun DEF CallsSound, Belongs, Finalizing, At, Idle
<1> QED BY <1>1, <1>4, <1>5, <1>6 DEF Managed, ManagerInv

LEMMA NextManaged == Managed /\ [ManagerNext]_managerVars => Managed'
<1> SUFFICES ASSUME Managed, [ManagerNext]_managerVars PROVE Managed'
  OBVIOUS
<1>1. Usual'
  BY ManagerNextAllowed, NextUsual DEF Managed
<1>2. ASSUME ManagerNext PROVE ManagerInv'
  <2>1. ASSUME NEW g \in Goroutines, Execute(g) PROVE ManagerInv'
    <3>1. CASE EndExecution(g)
      BY <3>1, LeaveKeeps DEF EndExecution, At
    <3> QED BY <2>1, <3>1, AskKeeps, BeginExecutionKeeps, BeganKeeps, DecideKeeps, FinalizeKeeps
           DEF Execute
  <2> QED BY <1>2, <2>1, InsideKeeps, ManualKeeps DEF ManagerNext
<1>3. CASE UNCHANGED managerVars
  <2>1. UNCHANGED vars /\ UNCHANGED <<frames, manual>>
    BY <1>3 DEF managerVars
  <2>2. UNCHANGED <<rootStatus, stack, scope, op, frames, manual>>
    BY <2>1 DEF vars, state
  <2>3. ManagerInv
    BY DEF Managed
  <2>4. ManagerTypeOK'
    BY <1>1, <2>2, <2>3 DEF ManagerInv, ManagerTypeOK, Usual, IInv
  <2>5. FramesSound' /\ FramesApart'
    BY <2>2, <2>3 DEF ManagerInv, FramesSound, FramesApart, FrameSound, NotBegun, Beginning,
       Untouched, OnStack
  <2>6. CallsSound'
    <3>1. ASSUME NEW h \in Goroutines
          PROVE  Belongs(h)' /\ Finalizing(h)' /\ (Begun(h) => Untouched(op[h].scope))'
      BY <2>1, <2>2, CallsStill
    <3> QED BY <3>1 DEF CallsSound
  <2>7. (manual \subseteq Handles)'
    BY <2>2, <2>3 DEF ManagerInv, Handles, Beginning
  <2> QED BY <1>1, <2>4, <2>5, <2>6, <2>7 DEF ManagerInv, Managed
<1> QED BY <1>1, <1>2, <1>3 DEF Managed

LEMMA ManagedInvariance == ManagerSpec => []Managed
<1> QED BY InitManaged, NextManaged, PTL DEF ManagerSpec

\* Managed executions, and the scopes that user code opens by hand, make calls
\* that UnitOfWork expects: whatever holds of UnitOfWork holds under manager.go.
THEOREM ManagerWithinContract == ManagerSpec => Spec
<1>1. ManagerInit => Init
  BY DEF ManagerInit
<1>2. Managed /\ [ManagerNext]_managerVars => [Next]_vars
  BY ManagerNextAllowed
<1> QED BY <1>1, <1>2, ManagedInvariance, PTL DEF ManagerSpec, Spec

\* Type correctness of the executors and of the UnitOfWork under them.
THEOREM ManagerTypes == ManagerSpec => []ManagerTypeOK
<1>1. Managed => ManagerTypeOK
  BY DEF Managed, ManagerInv
<1> QED BY <1>1, ManagedInvariance, PTL

\* While a callback of InTx or InNestedTx runs, the scope it was given is open:
\* whatever the other goroutines do, only a failing rollback takes it away.
THEOREM CallbackKeepsScope == ManagerSpec => []CallbackHasScope
<1>1. Managed => CallbackHasScope
  BY DEF Managed, ManagerInv, FramesSound, FrameSound, Untouched, CallbackHasScope
<1> QED BY <1>1, ManagedInvariance, PTL

\* What is known when an execution is about to answer.
LEMMA AnsweringFacts ==
  ASSUME Managed, NEW g \in Goroutines, Answering(g)
  PROVE  LET f == Running(g) IN
         /\ FrameSound(f) /\ f.stage = "end" /\ f \in Frame
         /\ f.scope \in Scopes /\ scope[f.scope].status # "none"
         /\ f.root <=> scope[f.scope].depth = 0
         /\ f.plan \in FinalizeKind /\ op[g].kind \in FinalizeKind
         /\ op[g].scope = f.scope \/ op[g].scope = NoScope
         /\ Finalizing(g) /\ CallSound(g) /\ Told(op[g]) /\ op[g].pc = "done"
<1>1. At(g, "end") /\ op[g].pc = "done"
  BY DEF Answering
<1>2. Running(g).stage = "end" /\ FrameSound(Running(g)) /\ Running(g) \in Frame
  BY <1>1, RunningFacts, RunningSound DEF At, Managed, ManagerInv
<1>3. Belongs(g) /\ Finalizing(g) /\ CallSound(g) /\ Told(op[g])
  BY DEF Managed, ManagerInv, CallsSound, Usual, CallInv, OutcomeInv, Known, Aware
<1> QED BY <1>1, <1>2, <1>3 DEF FrameSound, Held, Belongs

\* An execution leaves its scope open only when its finalization was refused:
\* something is open above the scope, or the mark came after the decision (or a
\* callback of the library's has panicked).
THEOREM OpenRefused == ManagerSpec => []OpenOnlyIfRefused
<1>1. ASSUME Managed, NEW g \in Goroutines, Answering(g),
             rootStatus = "active", scope[Running(g).scope].status = "active"
      PROVE  op[g].ret \cap {"ScopeOrderViolation", "RollbackOnly", "Panic"} # {}
  <2>1. /\ op[g].kind \in FinalizeKind /\ op[g].pc = "done" /\ CallSound(g) /\ Finalizing(g)
        /\ op[g].scope = Running(g).scope \/ op[g].scope = NoScope
    BY <1>1, AnsweringFacts
  <2>2. op[g].scope # NoScope
    BY <1>1, <2>1 DEF Finalizing, Answering
  <2> QED BY <1>1, <2>1, <2>2 DEF CallSound
<1>2. Managed => OpenOnlyIfRefused
  BY <1>1 DEF OpenOnlyIfRefused
<1> QED BY <1>2, ManagedInvariance, PTL

\* An execution that answers nil has committed.
LEMMA NilCommits ==
  ASSUME Managed, NEW g \in Goroutines, Answering(g), AnswerOf(g) = {}
  PROVE  scope[Running(g).scope].status = "committed"
<1> DEFINE f == Running(g)
<1>1. /\ FrameSound(f) /\ f.stage = "end" /\ f.plan \in FinalizeKind
      /\ op[g].kind \in FinalizeKind
      /\ op[g].scope = f.scope \/ op[g].scope = NoScope
      /\ Finalizing(g) /\ CallSound(g) /\ Told(op[g]) /\ op[g].pc = "done"
  BY AnsweringFacts
<1>2. f.cause = {} /\ op[g].ret = {}
  <2>1. "Panic" \notin op[g].ret
    BY DEF AnswerOf, Answered
  <2>2. "FnPanic" \notin f.cause
    BY <2>1 DEF AnswerOf, Answered
  <2>3. ~(f.root /\ f.plan = "rollback" /\ f.outcome = {} /\ Refused(op[g]))
    BY <2>1, <2>2 DEF AnswerOf, Answered, Refused
  <2> QED BY <2>1, <2>2, <2>3 DEF AnswerOf, Answered
<1>3. f.plan = "commit"
  BY <1>1, <1>2 DEF FrameSound, FinalizeKind
<1>4. op[g].scope # NoScope /\ op[g].commitErr = {}
  BY <1>1, <1>2 DEF CallSound
<1>5. op[g].kind = "commit"
  BY <1>1, <1>3, <1>4 DEF Finalizing, Answering, FinalizeKind
<1>6. scope[op[g].scope].status = "committed"
  BY <1>1, <1>2, <1>4, <1>5 DEF Told
<1> QED BY <1>1, <1>4, <1>6

\* The answer of InTx and InNestedTx tells what was committed.
THEOREM AnswerIsTrue == ManagerSpec => []AnswerTellsCommit
<1>1. ASSUME Managed, NEW g \in Goroutines, Answering(g), DefaultPolicy,
             scope[Running(g).scope].status = "committed", "Panic" \notin AnswerOf(g)
      PROVE  AnswerOf(g) = {}
  <2> DEFINE f == Running(g)
  <2>1. FrameSound(f) /\ f.stage = "end" /\ Finalizing(g) /\ op[g].pc = "done"
    BY <1>1, AnsweringFacts
  <2>2. op[g].ret # {"Panic"}
    BY <1>1 DEF AnswerOf, Answered
  <2>3. op[g].kind = "commit" /\ op[g].ret = {}
    BY <1>1, <2>1, <2>2 DEF Finalizing, Answering
  <2>4. f.plan = "commit" /\ f.cause = {}
    BY <1>1, <2>1, <2>3 DEF Finalizing, Answering, FrameSound
  <2> QED BY <2>3, <2>4 DEF AnswerOf, Answered
<1>2. Managed => AnswerTellsCommit
  BY <1>1, NilCommits DEF AnswerTellsCommit
<1> QED BY <1>2, ManagedInvariance, PTL

\* InTx answers nil only if everything was kept: no emulated scope above the
\* root, whoever opened it, has been rolled back.
THEOREM NilKeepsAll == ManagerSpec => []AllOrNothing
<1>1. ASSUME Managed, NEW g \in Goroutines, Answering(g), Running(g).root, AnswerOf(g) = {},
             NEW s \in Scopes, Soft(s)
      PROVE  scope[s].status \in {"none", "committed"}
  <2>1. /\ Running(g).scope \in Scopes /\ scope[Running(g).scope].depth = 0
        /\ scope[Running(g).scope].status = "committed"
    BY <1>1, AnsweringFacts, NilCommits
  <2>2. rootStatus = "committed"
    BY <1>1, <2>1 DEF Managed, Usual, OutcomeInv, RootAgrees
  <2>3. scope[s].status # "rolledBack"
    BY <1>1, <2>2 DEF Managed, Usual, IInv, EmulatedRollbackSticks, Soft
  <2>4. scope[s].status # "failed"
    BY <1>1, <2>2 DEF Managed, Usual, OutcomeInv, RootAgrees
  <2>5. scope[s].status # "active"
    BY <1>1, <2>2 DEF Managed, Usual, IInv, ScopesNest, OnStack
  <2>6. scope[s].status \in {"none", "active", "committed", "rolledBack", "failed"}
    BY <1>1 DEF Managed, Usual, IInv, TypeOK, ScopeState, TxStatus, Terminal
  <2> QED BY <2>3, <2>4, <2>5, <2>6
<1>2. Managed => AllOrNothing
  BY <1>1 DEF AllOrNothing
<1> QED BY <1>2, ManagedInvariance, PTL

-----------------------------------------------------------------------------
(* One goroutine that only nests executions.                               *)

Sequential == Cardinality(Goroutines) = 1 /\ ~ManualScopes /\ ~CallbackPanics

\* The innermost execution has a scope that has begun and has not ended.
TopOwns(g) ==
  \/ At(g, "fn") \/ At(g, "decided")
  \/ At(g, "begin") /\ Begun(g)
  \/ /\ At(g, "end")
     /\ \/ op[g].pc \in {"lock", "before", "adapter", "publish"}
        \/ op[g].pc = "after" /\ CommitFailed(g)

Owned(g) == IF frames[g] = <<>> \/ TopOwns(g) THEN Len(frames[g]) ELSE Len(frames[g]) - 1
OwnScope(g, i) ==
  IF i = Len(frames[g]) /\ At(g, "begin") THEN op[g].scope ELSE frames[g][i].scope

\* The scopes of the executions are the top of the stack, innermost last (below
\* them is what an execution that has answered may have left open).
InOrder(g) ==
  rootStatus # "failed" =>
    /\ Owned(g) <= Len(stack)
    /\ \A i \in 1 .. Owned(g) : stack[Len(stack) - Owned(g) + i] = OwnScope(g, i)
    /\ Answering(g) => ~Refused(op[g])

\* The user code itself calls nothing.
HandsOff(g) == frames[g] = <<>> \/ At(g, "fn") => op[g].pc = "idle"

Lexical == Sequential => \A g \in Goroutines : InOrder(g) /\ HandsOff(g)

\* There is no second goroutine.
LEMMA OnlyOne == ASSUME Sequential, NEW g \in Goroutines, NEW h \in Goroutines PROVE g = h
<1>1. PICK x : Goroutines = {x}
  BY GoroutinesAssumption, FS_Singleton DEF Sequential
<1> QED BY <1>1

\* Nothing is owned or given up.
LEMMA OrderStill ==
  ASSUME Managed, NEW g \in Goroutines, InOrder(g), rootStatus = "failed" => rootStatus' = "failed",
         UNCHANGED stack, Owned(g)' = Owned(g),
         \A i \in 1 .. Owned(g) : OwnScope(g, i)' = OwnScope(g, i),
         Answering(g)' => ~Refused(op[g])'
  PROVE  InOrder(g)'
BY DEF InOrder

\* The innermost execution owns the top of the stack.
LEMMA OwnedTop ==
  ASSUME Managed, NEW g \in Goroutines, InOrder(g), rootStatus # "failed",
         frames[g] # <<>>, TopOwns(g), ~At(g, "begin")
  PROVE  /\ stack # <<>> /\ Len(stack) \in Nat /\ stack[Len(stack)] = Running(g).scope
         /\ Last(stack) = Running(g).scope
         /\ rootStatus = "active" /\ scope[Running(g).scope].status = "active"
         /\ scope[Running(g).scope].depth = Len(stack) - 1
         /\ Owned(g) = Len(frames[g]) /\ Len(frames[g]) \in Nat \ {0}
         /\ Len(frames[g]) <= Len(stack)
<1>0. IInv /\ stack \in Seq(Scopes) /\ ManagerTypeOK
  BY DEF Managed, ManagerInv, Usual, IInv, TypeOK
<1> DEFINE n == Len(frames[g])
<1>1. n \in Nat \ {0} /\ Owned(g) = n /\ Running(g) = frames[g][n]
  BY <1>0, RunningFacts, LastFacts DEF Owned, ManagerTypeOK
<1>2. Len(stack) \in Nat /\ n <= Len(stack)
  BY <1>0, <1>1 DEF InOrder
<1>3. stack[Len(stack) - n + n] = OwnScope(g, n)
  <2>1. \A i \in 1 .. n : stack[Len(stack) - n + i] = OwnScope(g, i)
    BY <1>1 DEF InOrder
  <2>2. n \in 1 .. n
    BY <1>1
  <2> HIDE DEF n
  <2> QED BY <2>1, <2>2
<1>4. stack[Len(stack)] = Running(g).scope
  BY <1>1, <1>2, <1>3 DEF OwnScope
<1>5. stack # <<>>
  BY <1>1, <1>2
<1>6. /\ rootStatus = "active" /\ scope[stack[Len(stack)]].status = "active"
      /\ scope[stack[Len(stack)]].depth = Len(stack) - 1 /\ Last(stack) = stack[Len(stack)]
  BY <1>0, <1>2, <1>5, LastFacts DEF IInv, ScopesNest
<1> QED BY <1>1, <1>2, <1>4, <1>5, <1>6

\* A begin, up to its return.
LEMMA BeginOrder ==
  ASSUME Managed, Sequential, NEW g \in Goroutines, Step(g), UNCHANGED frames, InOrder(g),
         At(g, "begin")
  PROVE  InOrder(g)'
<1>0. /\ Usual /\ CallSound(g) /\ frames[g] # <<>> /\ ~At(g, "fn") /\ ~At(g, "decided")
      /\ ~At(g, "end") /\ At(g, "begin")' /\ ~At(g, "end")' /\ ~At(g, "fn")' /\ ~At(g, "decided")'
      /\ op[g].kind = Kind(g) /\ op[g].kind \in BeginKind /\ ~CallbackPanics
      /\ frames \in [Goroutines -> Seq(Frame)] /\ Len(frames[g]) \in Nat \ {0}
  BY LastFacts DEF At, Managed, ManagerInv, CallsSound, Belongs, Usual, CallInv, Kind, BeginKind,
     Sequential, ManagerTypeOK
<1>1. /\ Owned(g) = IF Begun(g) THEN Len(frames[g]) ELSE Len(frames[g]) - 1
      /\ Owned(g)' = IF Begun(g)' THEN Len(frames[g]) ELSE Len(frames[g]) - 1
  BY <1>0 DEF Owned, TopOwns
<1>2. rootStatus = "failed" => rootStatus' = "failed"
  BY NextLasts DEF Managed, Usual, OutcomeInv, Lasts, Next
<1>3. CASE UNCHANGED stack /\ (Begun(g)' <=> Begun(g)) /\ (Begun(g) => op'[g].scope = op[g].scope)
  <2>1. \A i \in 1 .. Owned(g) : OwnScope(g, i)' = OwnScope(g, i)
    BY <1>0, <1>1, <1>3 DEF OwnScope
  <2> QED BY <1>0, <1>1, <1>2, <1>3, <2>1, OrderStill DEF Answering
<1>4. CASE Enter(g)
  <2>1. ~Begun(g) /\ UNCHANGED stack
    BY <1>0, <1>4, EnterStep DEF Usual, StateKept, Begun
  <2>2. ~Begun(g)'
    BY <1>0, <1>4, EnterStep DEF Usual, Begun, CallSound
  <2> QED BY <1>3, <2>1, <2>2
<1>5. CASE RunBefore(g) \/ Finish(g) \/ Compensate(g) \/ CallbackPanic(g)
  <2>1. UNCHANGED stack
    BY <1>0, <1>5, InnerStep DEF Usual, StateKept
  <2>2. Begun(g)' <=> Begun(g)
    BY <1>0, <1>5, InnerStep DEF Usual, Begun, BeginFailed, CommitFailed, BeginKind
  <2>3. Begun(g) => op'[g].scope = op[g].scope
    BY <1>0, <1>5, <2>2, InnerStep DEF Usual, Begun, BeginFailed, CommitFailed, BeginKind
  <2> QED BY <1>3, <2>1, <2>2, <2>3
<1>6. CASE Adapter(g)
  BY <1>0, <1>3, <1>6, AdapterStep DEF Usual, Begun, BeginFailed
<1>7. CASE Publish(g)
  <2>1. /\ op[g].pc = "publish" /\ op'[g].pc = "after" /\ op'[g].kind = op[g].kind
        /\ op'[g].scope = op[g].scope /\ op[g].scope \in Scopes
        /\ op'[g].before = op[g].before /\ op'[g].attempt = op[g].attempt
    BY <1>0, <1>7, PublishStep DEF Usual
  <2>2. PublishBeginRoot(g) \/ PublishBeginNested(g)
    BY <1>0, <1>7 DEF Publish, PublishCommit, PublishRollback, BeginKind
  <2>3. op[g].before = {} /\ op[g].attempt = {}
    BY <1>0, <2>1 DEF Usual, OutcomeInv, Known, Aware, ErrorsGiven, BeginKind
  <2>4. ~Begun(g) /\ Begun(g)'
    BY <1>0, <2>1, <2>3, NullAssumption DEF Begun, BeginFailed
  <2> DEFINE n == Len(frames[g])
  <2>5. stack \in Seq(Scopes) /\ Len(stack) \in Nat /\ rootStatus # "failed"
    BY <1>0, <1>7, PublishStep DEF Usual, IInv, TypeOK
  <2>6. n - 1 <= Len(stack) /\ \A i \in 1 .. n - 1 : stack[Len(stack) - (n - 1) + i] = frames[g][i].scope
    BY <1>0, <1>1, <2>4, <2>5 DEF InOrder, OwnScope
  <2>7. stack' = Append(stack, op[g].scope)
    <3>1. CASE PublishBeginRoot(g)
      <4>1. stack = <<>>
        BY <1>0, <1>7, <3>1, PublishStep DEF Usual, IInv, ScopesNest, PublishBeginRoot,
           PublishBeginNested, PublishCommit, PublishRollback
      <4> QED BY <3>1, <4>1 DEF PublishBeginRoot
    <3> QED BY <2>2, <3>1 DEF PublishBeginNested
  <2>8. /\ Len(stack') = Len(stack) + 1 /\ stack'[Len(stack) + 1] = op[g].scope
        /\ \A i \in 1 .. Len(stack) : stack'[i] = stack[i]
    BY <2>1, <2>5, <2>7
  <2>9. ASSUME NEW i \in 1 .. n PROVE stack'[Len(stack') - n + i] = OwnScope(g, i)'
    <3>1. CASE i = n
      BY <1>0, <2>1, <2>5, <2>8, <3>1 DEF OwnScope
    <3>2. CASE i \in 1 .. n - 1
      <4>1. Len(stack') - n + i = Len(stack) - (n - 1) + i
        BY <1>0, <2>5, <2>8, <3>2
      <4>2. Len(stack) - (n - 1) + i \in 1 .. Len(stack)
        BY <1>0, <2>5, <2>6, <3>2
      <4>3. OwnScope(g, i)' = frames[g][i].scope
        BY <1>0, <3>2 DEF OwnScope
      <4> QED BY <2>6, <2>8, <3>2, <4>1, <4>2, <4>3
    <3> QED BY <1>0, <3>1, <3>2
  <2>10. Owned(g)' = n /\ n <= Len(stack')
    BY <1>0, <1>1, <2>4, <2>5, <2>6, <2>8
  <2> QED BY <1>0, <2>9, <2>10 DEF InOrder, Answering
<1> QED BY <1>4, <1>5, <1>6, <1>7 DEF Step, Progress

\* The scope that is alone on the stack is the root's.
LEMMA LastScope ==
  ASSUME NEW s, scope[s].depth = Len(stack) - 1, scope[s].depth = 0, Len(stack) \in Nat,
         NEW n \in Nat \ {0}, n <= Len(stack)
  PROVE  Len(stack) = 1 /\ n = 1
<1>1. Len(stack) - 1 = 0
  BY Zenon
<1> QED BY <1>1

\* A commit or a rollback, up to its return: it finds its scope on top of the
\* stack, and is refused for a late mark at most.
LEMMA EndOrder ==
  ASSUME Managed, Sequential, NEW g \in Goroutines, Step(g), UNCHANGED frames, InOrder(g),
         At(g, "end")
  PROVE  InOrder(g)'
<1> DEFINE s == op[g].scope
<1> DEFINE n == Len(frames[g])
<1>0. /\ Usual /\ CallSound(g) /\ ErrorsGiven(g)
      /\ frames[g] # <<>> /\ At(g, "end")'
      /\ \A stage \in {"fn", "decided", "begin"} : ~At(g, stage) /\ ~At(g, stage)'
      /\ op[g].kind \in FinalizeKind /\ s = Running(g).scope /\ ~CallbackPanics
      /\ n \in Nat \ {0} /\ op[g].kind \notin BeginKind /\ Len(stack) \in Nat
  <2>1. op[g].pc \notin {"idle", "done"}
    BY StepKind DEF Managed, Inside
  <2> QED BY <2>1, LastFacts DEF At, Managed, ManagerInv, CallsSound, Belongs, Usual, CallInv,
          BeginKind, FinalizeKind, Sequential, ManagerTypeOK, OutcomeInv, Known, Aware, IInv, TypeOK
<1> DEFINE Ending == \/ op[g].pc \in {"lock", "before", "adapter", "publish"}
                     \/ op[g].pc = "after" /\ CommitFailed(g)
<1>1. /\ TopOwns(g) <=> Ending
      /\ Owned(g) = IF Ending THEN n ELSE n - 1
      /\ Owned(g)' = IF Ending' THEN n ELSE n - 1
      /\ \A i \in Nat : OwnScope(g, i) = frames[g][i].scope /\ OwnScope(g, i)' = OwnScope(g, i)
  BY <1>0 DEF TopOwns, Owned, OwnScope
<1>2. rootStatus = "failed" => rootStatus' = "failed"
  BY NextLasts DEF Managed, Usual, OutcomeInv, Lasts, Next
<1>3. CASE UNCHANGED stack /\ (Ending' <=> Ending) /\ (op'[g].pc = "done" => ~Refused(op[g])')
  BY <1>0, <1>1, <1>2, <1>3, OrderStill DEF Answering
<1>4. CASE Enter(g)
  <2>1. op[g].pc = "lock" /\ UNCHANGED <<stack, rootStatus>> /\ op'[g].kind = op[g].kind
    BY <1>0, <1>4, EnterStep DEF Usual, StateKept
  <2>2. CASE op'[g].pc = "before"
    BY <1>3, <2>1, <2>2
  <2>3. CASE op'[g].pc = "done" /\ rootStatus # "failed"
    <3>1. PICK err \in SUBSET Refusals :
            /\ err # {}
            /\ op'[g].ret = IF op[g].commitErr = {} THEN err
                            ELSE {"FinalizationFailed"} \cup op[g].commitErr \cup err
            /\ op[g].kind = "commit" => err = CommitRefusal(s)
            /\ op[g].kind = "rollback" => err = ScopeRefusal(s)
      BY <1>0, <1>4, <2>3, EnterStep DEF Usual
    <3>2. /\ stack # <<>> /\ Last(stack) = s /\ rootStatus = "active"
          /\ scope[s].status = "active" /\ scope[s].depth = Len(stack) - 1 /\ n <= Len(stack)
      BY <1>0, <1>1, <2>1, <2>3, OwnedTop
    <3>3. s # NoScope
      BY <3>2, TopOfStack, NullAssumption DEF Managed, Usual
    <3>4. ScopeRefusal(s) = {}
      BY <3>2, <3>3 DEF ScopeRefusal
    <3>5. err = {"RollbackOnly"} /\ scope[s].depth = 0
      BY <1>0, <3>1, <3>4 DEF CommitRefusal, FinalizeKind
    <3>6. n = 1
      BY <1>0, <3>2, <3>5, LastScope
    <3>7. op'[g].ret \subseteq {"FinalizationFailed", "RollbackOnly"} \cup Given
      BY <1>0, <3>1, <3>5 DEF ErrorsGiven
    <3>8. ~Refused(op[g])'
      BY <3>7 DEF Refused, Given
    <3>9. Owned(g)' = 0
      BY <1>1, <2>3, <3>6
    <3> QED BY <1>0, <2>1, <3>8, <3>9 DEF InOrder
  <2>4. CASE rootStatus = "failed"
    BY <2>1, <2>4 DEF InOrder
  <2> QED BY <1>0, <1>4, <2>2, <2>3, <2>4, EnterStep DEF Usual
<1>5. CASE RunBefore(g) \/ Finish(g) \/ Compensate(g) \/ CallbackPanic(g)
  <2>1. UNCHANGED stack
    BY <1>0, <1>5, InnerStep DEF Usual, StateKept
  <2>2. Ending' <=> Ending
    BY <1>0, <1>5, InnerStep DEF Usual, CommitFailed, FinalizeKind
  <2>3. ASSUME op'[g].pc = "done" PROVE ~Refused(op[g])'
    <3>1. op'[g].ret = Result(op[g])
      BY <1>0, <1>5, <2>3, InnerStep DEF Usual
    <3>2. Result(op[g]) \subseteq
            Given \cup {"RollbackFailed", "FinalizationFailed", "CommitAborted"}
      BY <1>0 DEF Result, RollbackResult, commitFailureError, ErrorsGiven, FinalizeKind
    <3> QED BY <3>1, <3>2 DEF Refused, Given
  <2> QED BY <1>3, <2>1, <2>2, <2>3
<1>6. CASE Adapter(g)
  <2>1. op[g].pc = "adapter" /\ Ending /\ UNCHANGED stack
    BY <1>0, <1>6, AdapterStep DEF Usual
  <2>2. Ending' /\ op'[g].pc # "done"
    BY <1>0, <1>6, AdapterStep DEF Usual, CommitFailed, FinalizeKind
  <2> QED BY <1>3, <2>1, <2>2
<1>7. CASE Publish(g)
  <2>1. op[g].pc = "publish" /\ op'[g].pc = "after" /\ ~CommitFailed(g)' /\ rootStatus # "failed"
    BY <1>0, <1>7, PublishStep DEF Usual, ErrorsGiven, CommitFailed
  <2>2. PublishCommit(g) \/ PublishRollback(g)
    BY <1>0, <1>7 DEF Publish, PublishBeginRoot, PublishBeginNested, BeginKind
  <2>3. /\ stack # <<>> /\ Last(stack) = s
        /\ scope[s].depth = Len(stack) - 1 /\ n <= Len(stack) /\ Owned(g) = n
    BY <1>0, <1>1, <2>1, OwnedTop
  <2>4. Owned(g)' = n - 1 /\ ~Answering(g)'
    BY <1>1, <2>1 DEF Answering
  <2>5. CASE rootStatus' = "failed"
    BY <2>5 DEF InOrder
  <2>6. CASE stack' = <<>> /\ scope[s].depth = 0
    <3>1. Owned(g)' = 0
      BY <1>0, <2>3, <2>4, <2>6, LastScope
    <3>2. Len(stack') = 0
      BY <2>6
    <3>3. Owned(g)' <= Len(stack')
      BY <3>1, <3>2
    <3>4. ASSUME NEW i \in 1 .. Owned(g)'
          PROVE  stack'[Len(stack') - Owned(g)' + i] = OwnScope(g, i)'
      BY <3>1, <3>4
    <3> QED BY <2>4, <3>3, <3>4 DEF InOrder
  <2>7. CASE stack' = Front(stack)
    <3>1. /\ Len(stack') = Len(stack) - 1
          /\ \A i \in 1 .. Len(stack) - 1 : stack'[i] = stack[i]
      BY <2>3, <2>7, FrontFacts DEF Managed, Usual, IInv, TypeOK
    <3>2. \A i \in 1 .. n : stack[Len(stack) - n + i] = frames[g][i].scope
      <4>1. \A i \in 1 .. n : stack[Len(stack) - n + i] = OwnScope(g, i)
        BY <2>1, <2>3 DEF InOrder
      <4>2. \A i \in 1 .. n : OwnScope(g, i) = frames[g][i].scope
        BY <1>1
      <4> QED BY <4>1, <4>2
    <3>3. ASSUME NEW i \in 1 .. n - 1
          PROVE  stack'[Len(stack') - (n - 1) + i] = OwnScope(g, i)'
      <4>1. Len(stack') - (n - 1) + i = Len(stack) - n + i
        BY <1>0, <3>1, <3>3
      <4>2. Len(stack) - n + i \in 1 .. Len(stack) - 1 /\ i \in 1 .. n /\ i \in Nat
        BY <1>0, <2>3, <3>3
      <4>3. OwnScope(g, i)' = frames[g][i].scope
        BY <1>1, <4>2
      <4> QED BY <3>1, <3>2, <4>1, <4>2, <4>3
    <3>4. n - 1 <= Len(stack')
      BY <1>0, <2>3, <3>1
    <3> QED BY <2>4, <3>3, <3>4 DEF InOrder
  <2>8. \/ rootStatus' = "failed"
        \/ stack' = <<>> /\ scope[s].depth = 0
        \/ stack' = Front(stack)
    BY <2>2 DEF PublishCommit, PublishRollback, finishRootLocked, finishNestedLocked,
       failExecutionLocked
  <2> QED BY <2>5, <2>6, <2>7, <2>8
<1> QED BY <1>4, <1>5, <1>6, <1>7 DEF Step, Progress

\* What happens inside the calls.
LEMMA InsideOrder ==
  ASSUME Managed, Sequential, Lexical, UNCHANGED <<frames, manual>>,
         Environment \/ \E g \in Goroutines : Step(g)
  PROVE  Lexical'
<1>1. CASE Environment
  <2>1. UNCHANGED <<rootStatus, stack, op, frames>>
    BY <1>1, EnvironmentStep DEF Managed, Usual
  <2>2. ASSUME NEW g \in Goroutines PROVE InOrder(g)' /\ HandsOff(g)'
    <3>1. Owned(g)' = Owned(g) /\ Answering(g)' = Answering(g) /\ Refused(op[g])' = Refused(op[g])
      BY <2>1 DEF Owned, TopOwns, At, Begun, BeginFailed, CommitFailed, Answering, Refused
    <3>2. \A i : OwnScope(g, i)' = OwnScope(g, i)
      BY <2>1 DEF OwnScope, At
    <3>3. InOrder(g)'
      BY <2>1, <3>1, <3>2 DEF Lexical, InOrder
    <3> QED BY <2>1, <3>3 DEF Lexical, HandsOff, At
  <2> QED BY <2>2 DEF Lexical
<1>2. ASSUME NEW g \in Goroutines, Step(g) PROVE InOrder(g)' /\ HandsOff(g)'
  <2>1. op[g].pc # "idle" /\ InOrder(g) /\ HandsOff(g)
    BY <1>2, StepKind DEF Managed, Lexical, Inside
  <2>2. ~At(g, "fn") /\ frames[g] # <<>> /\ Belongs(g)
    BY <2>1 DEF HandsOff, Managed, ManagerInv, CallsSound
  <2>3. At(g, "begin") \/ At(g, "end")
    BY <2>1, <2>2, RunningFacts DEF Belongs, At, Managed, ManagerInv, Frame, Stage
  <2>4. HandsOff(g)'
    BY <2>2 DEF HandsOff, At
  <2> QED BY <1>2, <2>1, <2>3, <2>4, BeginOrder, EndOrder
<1> QED BY <1>1, <1>2, OnlyOne DEF Lexical

\* A stack that has grown, or lost its top, by an execution that owns nothing.
LEMMA PushOrder ==
  ASSUME Managed, NEW g \in Goroutines, frames[g] = <<>> \/ At(g, "fn"), InOrder(g),
         NEW f \in Frame, frames' = [frames EXCEPT ![g] = Append(@, f)], f.stage = "asked",
         UNCHANGED <<rootStatus, stack, op>>
  PROVE  InOrder(g)'
<1>1. /\ frames[g] \in Seq(Frame) /\ Len(frames[g]) \in Nat /\ ~At(g, "begin")
      /\ frames[g] = <<>> => Len(frames[g]) = 0
  BY DEF Managed, ManagerInv, ManagerTypeOK, At
<1>2. /\ frames'[g] # <<>> /\ Last(frames'[g]) = f /\ Len(frames'[g]) = Len(frames[g]) + 1
      /\ \A i \in DOMAIN frames[g] : frames'[g][i] = frames[g][i]
      /\ DOMAIN frames[g] = 1 .. Len(frames[g])
  <2>1. ManagerTypeOK
    BY DEF Managed, ManagerInv
  <2>2. /\ frames'[g] # <<>> /\ Last(frames'[g]) = f /\ Len(frames'[g]) = Len(frames[g]) + 1
        /\ \A i \in DOMAIN frames[g] : frames'[g][i] = frames[g][i]
    BY <2>1, PushFacts
  <2> QED BY <1>1, <2>2
<1>3. ~TopOwns(g)' /\ ~At(g, "begin")' /\ ~At(g, "end")'
  BY <1>2 DEF TopOwns, At
<1>4. Owned(g) = Len(frames[g]) /\ Owned(g)' = Len(frames[g])
  BY <1>1, <1>2, <1>3 DEF Owned, TopOwns
<1>5. \A i \in 1 .. Owned(g) : OwnScope(g, i)' = OwnScope(g, i)
  BY <1>1, <1>2, <1>3, <1>4 DEF OwnScope
<1> QED BY <1>3, <1>4, <1>5, OrderStill DEF Answering

LEMMA LeaveOrder ==
  ASSUME Managed, NEW g \in Goroutines, frames[g] # <<>>, ~TopOwns(g), InOrder(g),
         Leave(g), UNCHANGED <<rootStatus, stack>>
  PROVE  InOrder(g)'
<1>1. Len(frames[g]) \in Nat \ {0} /\ frames[g] \in Seq(Frame) /\ frames'[g] \in Seq(Frame)
  BY LeaveFacts, LastFacts DEF Managed, ManagerInv, ManagerTypeOK
<1>2. /\ Len(frames'[g]) = Len(frames[g]) - 1
      /\ \A i \in 1 .. Len(frames[g]) - 1 : frames'[g][i] = frames[g][i]
  BY <1>1, LeaveFacts DEF Managed, ManagerInv
<1>3. frames'[g] = <<>> \/ At(g, "fn")'
  BY LeaveTop
<1>4. ~At(g, "begin")' /\ ~At(g, "end")' /\ (frames'[g] = <<>> \/ TopOwns(g)')
  BY <1>3 DEF At, TopOwns
<1>5. Owned(g) = Len(frames[g]) - 1 /\ Owned(g)' = Len(frames[g]) - 1
  BY <1>1, <1>2, <1>4 DEF Owned
<1>6. \A i \in 1 .. Owned(g) : OwnScope(g, i)' = OwnScope(g, i)
  BY <1>1, <1>2, <1>4, <1>5 DEF OwnScope
<1> QED BY <1>4, <1>5, <1>6, OrderStill DEF Answering

\* An execution that moves on, owning what it owned.
LEMMA SetOrder ==
  ASSUME Managed, NEW g \in Goroutines, frames[g] # <<>>, InOrder(g),
         NEW f \in Frame, SetFrame(g, f), UNCHANGED <<rootStatus, stack>>,
         TopOwns(g)' <=> TopOwns(g),
         TopOwns(g) => OwnScope(g, Len(frames[g]))' = OwnScope(g, Len(frames[g])),
         Answering(g)' => ~Refused(op[g])'
  PROVE  InOrder(g)'
<1>1. /\ Len(frames[g]) \in Nat \ {0} /\ frames'[g] # <<>> /\ Len(frames'[g]) = Len(frames[g])
      /\ DOMAIN frames[g] = 1 .. Len(frames[g])
      /\ \A i \in DOMAIN frames[g] : i # Len(frames[g]) => frames'[g][i] = frames[g][i]
  BY SetFacts, LastFacts DEF Managed, ManagerInv, ManagerTypeOK
<1>2. Owned(g)' = Owned(g) /\ Owned(g) = IF TopOwns(g) THEN Len(frames[g]) ELSE Len(frames[g]) - 1
  BY <1>1 DEF Owned
<1> PICK n : n = Len(frames[g])
  OBVIOUS
<1>3. \A i \in 1 .. Owned(g) : i # n => OwnScope(g, i)' = OwnScope(g, i)
  BY <1>1, <1>2 DEF OwnScope
<1>4. TopOwns(g) => OwnScope(g, n)' = OwnScope(g, n)
  BY <1>1 DEF OwnScope
<1>5. n \in 1 .. Owned(g) => TopOwns(g)
  BY <1>1, <1>2
<1> QED BY <1>2, <1>3, <1>4, <1>5, OrderStill

\* Each step of the executor.
LEMMA ExecuteOrder ==
  ASSUME Managed, Sequential, NEW g \in Goroutines, InOrder(g), HandsOff(g), Execute(g)
  PROVE  InOrder(g)' /\ HandsOff(g)'
<1>0. /\ Usual /\ CallSound(g) /\ Belongs(g) /\ ManagerTypeOK
      /\ \A stage \in Stage : At(g, stage) =>
           frames[g] # <<>> /\ Running(g).stage = stage /\ Running(g) \in Frame
  BY RunningFacts DEF Managed, ManagerInv, CallsSound, Usual, CallInv, At
<1>1. CASE Ask(g)
  <2> PICK f : f = Asked(rootStatus # "active")
    OBVIOUS
  <2>1. /\ f \in Frame /\ f.stage = "asked" /\ frames' = [frames EXCEPT ![g] = Append(@, f)]
        /\ frames[g] = <<>> \/ At(g, "fn")
        /\ UNCHANGED <<rootStatus, stack, op>>
    BY <1>1 DEF Ask, Asked, Frame, Stage, InUserCode
  <2>2. frames'[g] # <<>> /\ Last(frames'[g]) = f
    BY <1>0, <2>1, PushFacts
  <2> QED BY <2>1, <2>2, PushOrder DEF HandsOff, At
<1>2. CASE BeginExecution(g)
  <2> PICK f : f = [Running(g) EXCEPT !.stage = "begin"]
    OBVIOUS
  <2>1. frames[g] # <<>> /\ f \in Frame /\ f.stage = "begin" /\ SetFrame(g, f)
    BY <1>0, <1>2 DEF BeginExecution, Frame, Stage
  <2>2. op'[g].pc = "lock" /\ UNCHANGED <<rootStatus, stack>>
    BY <1>0, <1>2 DEF BeginExecution, CallBegin, Call, Usual, IInv, TypeOK, state
  <2>3. frames'[g] # <<>> /\ Last(frames'[g]) = f
    BY <1>0, <2>1, SetFacts
  <2>4. ~TopOwns(g) /\ ~TopOwns(g)' /\ ~Answering(g)' /\ HandsOff(g)'
    BY <1>2, <2>1, <2>2, <2>3 DEF TopOwns, At, BeginExecution, Begun, Answering, HandsOff
  <2> QED BY <2>1, <2>2, <2>4, SetOrder
<1>3. CASE Began(g)
  <2>1. /\ At(g, "begin") /\ op[g].pc = "done" /\ op'[g] = Idle /\ UNCHANGED <<rootStatus, stack>>
        /\ frames[g] # <<>> /\ Running(g) \in Frame /\ op[g].kind \in BeginKind
    BY <1>0, <1>3 DEF Began, Return, Usual, IInv, TypeOK, state, Stage, Belongs, Kind, BeginKind
  <2>2. op[g].ret = {} <=> Begun(g)
    BY <1>0, <2>1 DEF CallSound, Begun
  <2>3. TopOwns(g) <=> Begun(g)
    BY <2>1 DEF TopOwns, At
  <2>4. HandsOff(g)'
    BY <2>1 DEF HandsOff, Idle
  <2>5. CASE op[g].ret # {} /\ Leave(g)
    BY <2>1, <2>2, <2>3, <2>4, <2>5, LeaveOrder
  <2>6. CASE op[g].ret = {} /\ SetFrame(g, [Running(g) EXCEPT !.stage = "fn", !.scope = op[g].scope])
    <3> PICK s : s = op[g].scope
      OBVIOUS
    <3> PICK f : f = [Running(g) EXCEPT !.stage = "fn", !.scope = s]
      OBVIOUS
    <3>1. s \in Scopes \cup {NoScope}
      BY <1>0 DEF Usual, IInv, TypeOK, Operation
    <3>2. f \in Frame /\ f.stage = "fn" /\ f.scope = s /\ SetFrame(g, f)
      BY <2>1, <2>6, <3>1 DEF Frame, Stage
    <3>3. /\ frames'[g] # <<>> /\ Last(frames'[g]) = f /\ Len(frames'[g]) = Len(frames[g])
          /\ frames'[g][Len(frames[g])] = f
      BY <1>0, <2>1, <3>2, SetFacts
    <3>4. TopOwns(g)' /\ TopOwns(g) /\ ~Answering(g)' /\ ~At(g, "begin")'
      BY <2>2, <2>3, <2>6, <3>2, <3>3 DEF TopOwns, At, Answering
    <3>5. OwnScope(g, Len(frames[g]))' = OwnScope(g, Len(frames[g]))
      BY <2>1, <3>2, <3>3, <3>4 DEF OwnScope
    <3> QED BY <2>1, <2>4, <3>2, <3>4, <3>5, SetOrder
  <2> QED BY <1>3, <2>5, <2>6 DEF Began
<1>4. CASE DecideRoot(g) \/ DecideNested(g)
  <2>1. At(g, "fn") /\ op[g].pc = "idle" /\ UNCHANGED <<rootStatus, stack, op>>
    BY <1>4 DEF DecideRoot, DecideNested, vars, state
  <2>2. PICK outcome \in Outcome, plan \in FinalizeKind, cause \in SUBSET Cause :
          Decided(g, outcome, plan, cause)
    <3>1. \A o \in Outcome : o \in SUBSET Cause
      BY DEF Outcome, Cause
    <3>2. {} \in Outcome /\ {"RollbackCause"} \in SUBSET Cause /\ {"ContextCancelled"} \in SUBSET Cause
      BY DEF Outcome, Cause
    <3>3. CASE DecideRoot(g)
      <4>1. PICK o \in Outcome : Decided(g, o, "commit", o)
              \/ Decided(g, o, "rollback", IF o = {} THEN {"RollbackCause"} ELSE o)
        BY <3>3 DEF DecideRoot
      <4>2. (IF o = {} THEN {"RollbackCause"} ELSE o) \in SUBSET Cause
        BY <3>1, <3>2
      <4> QED BY <3>1, <4>1, <4>2 DEF FinalizeKind
    <3>4. CASE DecideNested(g)
      BY <3>1, <3>2, <3>4 DEF DecideNested, FinalizeKind
    <3> QED BY <1>4, <3>3, <3>4
  <2> PICK f : f = [Running(g) EXCEPT !.stage = "decided", !.outcome = outcome,
                                      !.plan = plan, !.cause = cause]
    OBVIOUS
  <2>3. /\ frames[g] # <<>> /\ f \in Frame /\ f.stage = "decided" /\ SetFrame(g, f)
        /\ f.scope = Running(g).scope /\ Running(g) = frames[g][Len(frames[g])]
    BY <1>0, <2>1, <2>2, RunningFacts DEF Decided, Frame, Stage, Outcome
  <2>4. /\ frames'[g] # <<>> /\ Last(frames'[g]) = f /\ Len(frames'[g]) = Len(frames[g])
        /\ frames'[g][Len(frames[g])] = f
    BY <1>0, <2>3, SetFacts
  <2>5. /\ TopOwns(g)' /\ TopOwns(g) /\ ~Answering(g)' /\ HandsOff(g)'
        /\ ~At(g, "begin")' /\ ~At(g, "begin")
    BY <2>1, <2>3, <2>4 DEF TopOwns, At, Answering, HandsOff
  <2>6. OwnScope(g, Len(frames[g]))' = OwnScope(g, Len(frames[g]))
    BY <2>3, <2>4, <2>5 DEF OwnScope
  <2> QED BY <2>1, <2>3, <2>5, <2>6, SetOrder
<1>5. CASE FinalizeExecution(g)
  <2> PICK d : d = Running(g)
    OBVIOUS
  <2> PICK f : f = [d EXCEPT !.stage = "end"]
    OBVIOUS
  <2>1. /\ At(g, "decided") /\ frames[g] # <<>> /\ d \in Frame /\ d.stage = "decided"
        /\ d = frames[g][Len(frames[g])]
        /\ Call(g, d.plan, d.scope) \/ (CallNoRoot(g, d.plan) /\ stack = <<>>)
    BY <1>0, <1>5, FinalizeAllowed, RunningFacts DEF FinalizeExecution
  <2>2. /\ f \in Frame /\ f.stage = "end" /\ f.scope = d.scope /\ SetFrame(g, f)
        /\ UNCHANGED <<rootStatus, stack>>
    BY <1>5, <2>1 DEF FinalizeExecution, Frame, Stage, Call, CallNoRoot, state
  <2>3. /\ frames'[g] # <<>> /\ Last(frames'[g]) = f /\ Len(frames'[g]) = Len(frames[g])
        /\ frames'[g][Len(frames[g])] = f
    BY <1>0, <2>1, <2>2, SetFacts
  <2>4. TopOwns(g) /\ ~At(g, "begin") /\ ~At(g, "begin")' /\ HandsOff(g)'
    BY <2>1, <2>2, <2>3 DEF TopOwns, At, HandsOff
  <2>5. OwnScope(g, Len(frames[g]))' = OwnScope(g, Len(frames[g]))
    BY <2>1, <2>2, <2>3, <2>4 DEF OwnScope
  <2>6. CASE rootStatus = "failed"
    BY <2>2, <2>4, <2>6 DEF InOrder
  <2>7. CASE rootStatus # "failed"
    <3>1. stack # <<>>
      BY <2>1, <2>4, <2>7, OwnedTop
    <3>2. op'[g].pc = "lock"
      <4>1. Call(g, d.plan, d.scope)
        BY <2>1, <3>1
      <4>2. op \in [Goroutines -> Operation]
        BY <1>0 DEF Usual, IInv, TypeOK
      <4> QED BY <4>1, <4>2 DEF Call, Idle
    <3>3. TopOwns(g)' /\ ~Answering(g)'
      BY <2>2, <2>3, <3>2 DEF TopOwns, At, Answering
    <3> QED BY <2>1, <2>2, <2>4, <2>5, <3>3, SetOrder
  <2> QED BY <2>6, <2>7
<1>6. CASE EndExecution(g)
  <2>1. /\ At(g, "end") /\ op[g].pc = "done" /\ op'[g].pc = "idle" /\ Leave(g)
        /\ UNCHANGED <<rootStatus, stack>> /\ frames[g] # <<>>
    BY <1>0, <1>6 DEF EndExecution, Return, Usual, IInv, TypeOK, state, Idle, At
  <2>2. ~TopOwns(g) /\ HandsOff(g)'
    BY <2>1 DEF TopOwns, At, HandsOff
  <2> QED BY <2>1, <2>2, LeaveOrder
<1> QED BY <1>1, <1>2, <1>3, <1>4, <1>5, <1>6 DEF Execute

LEMMA LexicalInvariance == ManagerSpec => []Lexical
<1>1. ManagerInit => Lexical
  <2> SUFFICES ASSUME ManagerInit, NEW g \in Goroutines PROVE InOrder(g) /\ HandsOff(g)
    BY DEF Lexical
  <2>1. frames[g] = <<>> /\ op[g].pc = "idle" /\ stack = <<>>
    BY DEF ManagerInit, Init, Idle
  <2>2. Owned(g) = 0 /\ Len(stack) = 0
    BY <2>1 DEF Owned
  <2> QED BY <2>1, <2>2 DEF InOrder, HandsOff, Answering, At
<1>2. Managed /\ Lexical /\ [ManagerNext]_managerVars => Lexical'
  <2> SUFFICES ASSUME Managed, Lexical, [ManagerNext]_managerVars, Sequential PROVE Lexical'
    BY DEF Lexical
  <2>1. ASSUME NEW g \in Goroutines, Execute(g) PROVE Lexical'
    <3>1. InOrder(g)' /\ HandsOff(g)'
      BY <2>1, ExecuteOrder DEF Lexical
    <3> QED BY <3>1, OnlyOne DEF Lexical
  <2>2. ASSUME NEW g \in Goroutines, ManualCall(g) \/ ManualReturn(g) PROVE FALSE
    BY <2>2 DEF ManualCall, ManualReturn, Return, Sequential, Lexical, HandsOff
  <2>3. CASE UNCHANGED managerVars
    <3>1. UNCHANGED <<rootStatus, stack, op, frames>>
      BY <2>3 DEF managerVars, vars, state
    <3>2. ASSUME NEW g \in Goroutines PROVE InOrder(g)' /\ HandsOff(g)'
      <4>1. Owned(g)' = Owned(g) /\ Answering(g)' = Answering(g) /\ Refused(op[g])' = Refused(op[g])
        BY <3>1 DEF Owned, TopOwns, At, Begun, BeginFailed, CommitFailed, Answering, Refused
      <4>2. \A i : OwnScope(g, i)' = OwnScope(g, i)
        BY <3>1 DEF OwnScope, At
      <4>3. InOrder(g)'
        BY <3>1, <4>1, <4>2 DEF Lexical, InOrder
      <4> QED BY <3>1, <4>3 DEF Lexical, HandsOff, At
    <3> QED BY <3>2 DEF Lexical
  <2> QED BY <2>1, <2>2, <2>3, InsideOrder DEF ManagerNext
<1> QED BY <1>1, <1>2, ManagedInvariance, PTL DEF ManagerSpec

\* One goroutine that only nests executions never finalizes out of order, and
\* never finds its scope closed, unless a rollback has failed.
THEOREM NestingIsLexical == ManagerSpec => []LexicalOrder
<1>1. Lexical => LexicalOrder
  BY DEF Lexical, Sequential, InOrder, LexicalOrder
<1> QED BY <1>1, LexicalInvariance, PTL
=============================================================================
