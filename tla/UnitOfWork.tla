----------------------------- MODULE UnitOfWork -----------------------------
(***************************************************************************)
(* One unitOfWork (uow.go) shared by several goroutines: the root          *)
(* transaction, the stack of nested scopes above it, the rollback-only     *)
(* mark, and the two mutexes.  opMu is held by beginRoot, beginNested,     *)
(* commitScope and rollbackScope from their first line to their return,    *)
(* callbacks and adapter calls included; mu protects single sections of    *)
(* state and is free while a callback or the adapter runs, so that every   *)
(* section under mu is one action here.                                    *)
(*                                                                         *)
(* An error is the set of the sentinels that errors.Is finds in it; nil is *)
(* the empty set, and composing errors is union.                           *)
(*                                                                         *)
(* A definition Bad<name> before <name> is a mutated form of it, used by   *)
(* no other definition: the README says which property each one breaks.    *)
(***************************************************************************)
EXTENDS Integers, FiniteSets, SequencesExt

CONSTANTS
  Goroutines,      \* the callers that share the UnitOfWork
  Scopes,          \* scopeState objects (bound: the begins of one behaviour)
  NoOne,           \* opMu is free
  NoScope,         \* no scopeState (a nil pointer)
  NestedMode,      \* Config.NestedMode: "strict" or "emulated"
  Savepoints,      \* Capabilities: can the adapter nest?
  CallbackPanics   \* may an interceptor or a hook panic?

ASSUME NestedModeAssumption == NestedMode \in {"strict", "emulated"}
ASSUME CapabilityAssumption == Savepoints \in BOOLEAN /\ CallbackPanics \in BOOLEAN
ASSUME NullAssumption == NoOne \notin Goroutines /\ NoScope \notin Scopes

VARIABLES
  rootStatus,      \* txStatus of the root
  stack,           \* the open scopes, root first
  scope,           \* what each scopeState holds
  rollbackOnly,
  rollbackReason,  \* "none" is nil
  ctxDone,         \* rootCtx.Err() # nil
  opMu,            \* the goroutine that holds opMu
  op,              \* where each goroutine is in its call
  backend          \* the database's own view of the tx behind each scope

state == <<rootStatus, stack, scope, rollbackOnly, rollbackReason>>
vars == <<state, ctxDone, opMu, op, backend>>

-----------------------------------------------------------------------------
(* Types.                                                                  *)

Terminal == {"committed", "rolledBack", "failed"}
TxStatus == {"none", "active"} \cup Terminal
ScopeMode == {"physical", "emulated", "inherited"}
Reason == {"none", "user", "canceled", "scope"}
BeginKind == {"beginRoot", "beginNested"}
FinalizeKind == {"commit", "rollback"}
PC == {"idle", "lock", "before", "adapter", "publish", "after", "done"}
Inside == {"before", "adapter", "publish", "after"}   \* opMu is held here
Sentinel == {"Veto", "AdapterError", "Panic", "NoActiveTransaction",
  "TxAlreadyClosed", "ScopeOrderViolation", "RollbackOnly",
  "RootOwnershipViolation", "NestedTxUnsupported", "BeginAborted",
  "BeginFailed", "CommitAborted", "RollbackFailed", "FinalizationFailed"}
Error == SUBSET Sentinel

ScopeState == [status : TxStatus, mode : ScopeMode, depth : Nat]
Unused == [status |-> "none", mode |-> "physical", depth |-> 0]

Operation == [pc : PC, kind : BeginKind \cup FinalizeKind \cup {"none"},
  scope : Scopes \cup {NoScope}, mode : ScopeMode,
  before : Error,      \* what the Before interceptors returned
  attempt : Error,     \* what the adapter returned
  commitErr : Error,   \* the failed commit that this rollback compensates
  ret : Error]         \* what the call returns
Idle == [pc |-> "idle", kind |-> "none", scope |-> NoScope, mode |-> "physical",
  before |-> {}, attempt |-> {}, commitErr |-> {}, ret |-> {}]

TypeOK ==
  /\ rootStatus \in TxStatus
  /\ stack \in Seq(Scopes)
  /\ scope \in [Scopes -> ScopeState]
  /\ rollbackOnly \in BOOLEAN
  /\ rollbackReason \in Reason
  /\ ctxDone \in BOOLEAN
  /\ opMu \in Goroutines \cup {NoOne}
  /\ op \in [Goroutines -> Operation]
  /\ backend \in [Scopes -> {"none", "open", "committed", "rolledBack"}]

Init ==
  /\ rootStatus = "none"
  /\ stack = <<>>
  /\ scope = [s \in Scopes |-> Unused]
  /\ rollbackOnly = FALSE
  /\ rollbackReason = "none"
  /\ ctxDone = FALSE
  /\ opMu = NoOne
  /\ op = [g \in Goroutines |-> Idle]
  /\ backend = [s \in Scopes |-> "none"]

-----------------------------------------------------------------------------
(* The rollback-only mark.  Under mu alone, so that any goroutine can set  *)
(* or refresh it at any time, also from a callback while opMu is held.     *)

Cancelled == rootStatus = "active" /\ ctxDone
MarkedOnly == rollbackOnly \/ Cancelled
MarkedReason ==
  IF Cancelled /\ rollbackReason = "none" THEN "canceled" ELSE rollbackReason
BadFirstReason(old, new) == IF new = "none" THEN old ELSE new
FirstReason(old, new) == IF old = "none" THEN new ELSE old

markCancelledIfNeeded ==
  /\ rollbackOnly' = MarkedOnly
  /\ rollbackReason' = MarkedReason

\* InTransaction, Root, Current, CurrentHandle, IsRollbackOnly, RollbackReason.
Query ==
  /\ Cancelled
  /\ markCancelledIfNeeded
  /\ UNCHANGED <<rootStatus, stack, scope, ctxDone, opMu, op, backend>>

SetRollbackOnly(reason) ==
  /\ rootStatus = "active"
  /\ rollbackOnly' = TRUE
  /\ rollbackReason' = FirstReason(MarkedReason, reason)
  /\ UNCHANGED <<rootStatus, stack, scope, ctxDone, opMu, op, backend>>

Cancel ==
  /\ ~ctxDone
  /\ ctxDone' = TRUE
  /\ UNCHANGED <<state, opMu, op, backend>>

-----------------------------------------------------------------------------
(* Calls.                                                                  *)

Fresh == {s \in Scopes : scope[s].status = "none" /\ backend[s] = "none"}
Beginning == {g \in Goroutines : op[g].kind \in BeginKind}

\* The bound Scopes: a begin waits for a scope to be left for it, unless it
\* will be refused in any case.
WillBeRefused(kind) == kind = "beginRoot" /\ rootStatus \in Terminal
Needing == {g \in Beginning : /\ op[g].pc \in {"lock", "before", "adapter", "publish"}
                              /\ op[g].scope \in Fresh \cup {NoScope}
                              /\ ~WillBeRefused(op[g].kind)}
Room == Cardinality(Needing) < Cardinality(Fresh)
Root == IF stack = <<>> THEN NoScope ELSE Head(stack)

\* The TxScope handles that a BeginNested has returned (and, more than the
\* code gives out, those that a panicking OnNestedBegin has swallowed).
Handles == {s \in Scopes : /\ scope[s].status # "none"
                           /\ scope[s].depth > 0
                           /\ \A g \in Beginning : op[g].scope # s}

Call(g, kind, s) ==
  /\ op[g].pc = "idle"
  /\ op' = [op EXCEPT ![g] = [Idle EXCEPT !.pc = "lock", !.kind = kind, !.scope = s]]
  /\ UNCHANGED <<state, ctxDone, opMu, backend>>

CallBegin(g, kind) ==
  /\ Room \/ WillBeRefused(kind)
  /\ Call(g, kind, NoScope)
CallScope(g, kind) == \E s \in Handles : Call(g, kind, s)

\* CommitRoot and RollbackRoot look the root up without opMu.
CallRoot(g, kind) == Root # NoScope /\ Call(g, kind, Root)

\* A call that returns before any callback: the lock is taken and released.
Refuse(g, err) ==
  /\ op' = [op EXCEPT ![g].pc = "done",
       ![g].ret = IF op[g].commitErr = {} THEN err
                  ELSE {"FinalizationFailed"} \cup op[g].commitErr \cup err]
  /\ UNCHANGED opMu

\* A call that passes its checks keeps opMu and runs the Before interceptors.
Admit(g, s, mode) ==
  /\ opMu' = g
  /\ op' = [op EXCEPT ![g].pc = "before", ![g].scope = s, ![g].mode = mode,
                      ![g].before = {}, ![g].attempt = {}]

\* The statuses under which beginRoot refuses: a UnitOfWork has one root.
BadRootUsedActive == rootStatus = "active"
BadRootUsedFinished == rootStatus \notin {"none", "active"}
RootUsed == rootStatus # "none"

beginRoot(g) ==
  /\ op[g].pc = "lock" /\ op[g].kind = "beginRoot" /\ opMu = NoOne
  /\ \/ RootUsed /\ Refuse(g, {"RootOwnershipViolation"})
     \/ ~RootUsed /\ \E s \in Fresh : Admit(g, s, "physical")
  /\ UNCHANGED <<state, ctxDone, backend>>

\* The mode of a nested scope, fixed by the mark as it is before the callbacks.
BadNestedScopeMode == IF NestedMode = "strict" THEN "physical" ELSE "inherited"
NestedScopeMode ==
  IF NestedMode = "strict" THEN "physical"
  ELSE IF MarkedOnly THEN "inherited" ELSE "emulated"

BeginNestedRefusal ==
  IF rootStatus # "active" \/ stack = <<>> THEN {"NoActiveTransaction"}
  ELSE IF NestedMode = "strict" /\ MarkedOnly THEN {"RollbackOnly"}
  ELSE {}

beginNestedScope(g) ==
  /\ op[g].pc = "lock" /\ op[g].kind = "beginNested" /\ opMu = NoOne
  /\ markCancelledIfNeeded
  /\ \/ BeginNestedRefusal # {} /\ Refuse(g, BeginNestedRefusal)
     \/ BeginNestedRefusal = {} /\ \E s \in Fresh : Admit(g, s, NestedScopeMode)
  /\ UNCHANGED <<rootStatus, stack, scope, ctxDone, backend>>

\* The checks that commitScope and rollbackScope share.
BadScopeRefusal(s) ==
  IF rootStatus # "active" \/ s = NoScope \/ scope[s].status # "active"
  THEN {"TxAlreadyClosed"} ELSE {}
ScopeRefusal(s) ==
  IF rootStatus = "none" THEN {"NoActiveTransaction"}
  ELSE IF rootStatus # "active" \/ stack = <<>> THEN {"TxAlreadyClosed"}
  ELSE IF s = NoScope \/ scope[s].status # "active" THEN {"TxAlreadyClosed"}
  ELSE IF Last(stack) # s THEN {"ScopeOrderViolation"}
  ELSE {}

BadCommitRefusal(s) == ScopeRefusal(s)
CommitRefusal(s) ==
  IF ScopeRefusal(s) # {} THEN ScopeRefusal(s)
  ELSE IF scope[s].depth = 0 /\ MarkedOnly THEN {"RollbackOnly"}
  ELSE {}

\* commitRootManaged, rollbackRootManaged: no root, so no wait for opMu.
CallNoRoot(g, kind) ==
  /\ op[g].pc = "idle" /\ Root = NoScope
  /\ op' = [op EXCEPT
       ![g] = [Idle EXCEPT !.pc = "done", !.kind = kind, !.ret = ScopeRefusal(NoScope)]]
  /\ UNCHANGED <<state, ctxDone, opMu, backend>>

commitScope(g) ==
  LET s == op[g].scope IN
  /\ op[g].pc = "lock" /\ op[g].kind = "commit" /\ opMu = NoOne
  /\ markCancelledIfNeeded
  /\ \/ CommitRefusal(s) # {} /\ Refuse(g, CommitRefusal(s))
     \/ CommitRefusal(s) = {} /\ Admit(g, s, scope[s].mode)
  /\ UNCHANGED <<rootStatus, stack, scope, ctxDone, backend>>

rollbackScope(g) ==
  LET s == op[g].scope IN
  /\ op[g].pc = "lock" /\ op[g].kind = "rollback" /\ opMu = NoOne
  /\ \/ ScopeRefusal(s) # {} /\ Refuse(g, ScopeRefusal(s))
     \/ ScopeRefusal(s) = {} /\ Admit(g, s, scope[s].mode)
  /\ UNCHANGED <<state, ctxDone, backend>>

-----------------------------------------------------------------------------
(* Inside a call: Before interceptors, adapter, publication, After.        *)

\* A Before error vetoes a begin or a commit; a rollback only remembers it.
RunBefore(g) ==
  /\ op[g].pc = "before"
  /\ \E err \in {{}, {"Veto"}} :
       op' = [op EXCEPT
         ![g].before = err,
         ![g].pc = IF err # {} /\ op[g].kind # "rollback" THEN "after"
                   ELSE IF op[g].mode = "physical" THEN "adapter"
                   ELSE "publish"]
  /\ UNCHANGED <<state, ctxDone, opMu, backend>>

Calling(g, kind) == op[g].pc = "adapter" /\ op[g].kind = kind

\* The adapter answers err and leaves the tx of the call's scope at status.
Answer(g, err, status, next) ==
  /\ op' = [op EXCEPT ![g].attempt = err, ![g].pc = next]
  /\ backend' = [backend EXCEPT ![op[g].scope] = status]
  /\ UNCHANGED <<state, ctxDone, opMu>>

AdapterBegin(g) ==
  /\ Calling(g, "beginRoot")
  /\ \/ Answer(g, {}, "open", "publish")
     \/ Answer(g, {"AdapterError"}, "none", "after")

\* Without the capability the adapter is not called; with it, it may still
\* answer that it cannot nest (gorm does when SAVEPOINT fails).
AdapterBeginNested(g) ==
  /\ Calling(g, "beginNested")
  /\ \/ Savepoints /\ backend[Root] = "open" /\ Answer(g, {}, "open", "publish")
     \/ Savepoints /\ Answer(g, {"AdapterError"}, "none", "after")
     \/ Answer(g, {"NestedTxUnsupported"}, "none", "after")

\* What a failing call may leave behind: a Commit the open tx, none, or one
\* committed with the answer lost; a Rollback the open tx or none.
AfterFailure(s, outcomes) == IF backend[s] = "open" THEN outcomes ELSE {backend[s]}

AdapterCommit(g) ==
  /\ Calling(g, "commit")
  /\ \/ backend[op[g].scope] = "open" /\ Answer(g, {}, "committed", "publish")
     \/ \E status \in AfterFailure(op[g].scope, {"open", "committed", "rolledBack"}) :
          Answer(g, {"AdapterError"}, status, "after")

AdapterRollback(g) ==
  /\ Calling(g, "rollback")
  /\ \/ /\ backend[op[g].scope] = "open" /\ backend[Root] = "open"
        /\ Answer(g, {}, "rolledBack", "publish")
     \/ \E status \in AfterFailure(op[g].scope, {"open", "rolledBack"}) :
          Answer(g, {"AdapterError"}, status, "publish")

\* database/sql ends the tx by itself when the context it began with is done,
\* also the tx of a begin that a panicking callback has cut short.
BackendAborts ==
  /\ ctxDone
  /\ \E s \in Scopes :
       /\ backend[s] = "open"
       /\ \/ scope[s].status # "none" /\ scope[s].depth = 0
          \/ \E g \in Beginning : op[g].kind = "beginRoot" /\ op[g].scope = s
          \/ scope[s].status = "none" /\ \A g \in Goroutines : op[g].scope # s
       /\ backend' = [backend EXCEPT ![s] = "rolledBack"]
  /\ UNCHANGED <<state, ctxDone, opMu, op>>

BadStarted(g, depth) ==
  [status |-> "active", mode |-> op[g].mode, depth |-> depth - 1]
Started(g, depth) == [status |-> "active", mode |-> op[g].mode, depth |-> depth]

PublishBeginRoot(g) ==
  /\ op[g].pc = "publish" /\ op[g].kind = "beginRoot"
  /\ rootStatus' = "active"
  /\ stack' = <<op[g].scope>>
  /\ scope' = [scope EXCEPT ![op[g].scope] = Started(g, 0)]
  /\ rollbackOnly' = FALSE
  /\ rollbackReason' = "none"
  /\ op' = [op EXCEPT ![g].pc = "after"]
  /\ UNCHANGED <<ctxDone, opMu, backend>>

PublishBeginNested(g) ==
  /\ op[g].pc = "publish" /\ op[g].kind = "beginNested"
  /\ stack' = Append(stack, op[g].scope)
  /\ scope' = [scope EXCEPT ![op[g].scope] = Started(g, Len(stack))]
  /\ op' = [op EXCEPT ![g].pc = "after"]
  /\ UNCHANGED <<rootStatus, rollbackOnly, rollbackReason, ctxDone, opMu, backend>>

BadfinishRootLocked(s, status) ==
  /\ scope' = [scope EXCEPT ![s].status = status]
  /\ rootStatus' = status
  /\ rollbackOnly' = FALSE
  /\ rollbackReason' = "none"
  /\ UNCHANGED stack
finishRootLocked(s, status) ==
  /\ scope' = [scope EXCEPT ![s].status = status]
  /\ rootStatus' = status
  /\ stack' = <<>>
  /\ rollbackOnly' = FALSE
  /\ rollbackReason' = "none"

\* The pop is blind: it removes the top whatever scope is finishing.
finishNestedLocked(s, status) ==
  /\ scope' = [scope EXCEPT ![s].status = status]
  /\ stack' = Front(stack)
  /\ UNCHANGED rootStatus

\* The scopes between the root and the failed one keep their status.
failExecutionLocked(s) ==
  /\ scope' = [t \in Scopes |->
       IF t \in {s, Root} THEN [scope[t] EXCEPT !.status = "failed"] ELSE scope[t]]
  /\ rootStatus' = "failed"
  /\ stack' = <<>>
  /\ rollbackOnly' = FALSE
  /\ rollbackReason' = "none"

PublishCommit(g) ==
  LET s == op[g].scope IN
  /\ op[g].pc = "publish" /\ op[g].kind = "commit"
  /\ \/ scope[s].depth = 0 /\ finishRootLocked(s, "committed")
     \/ /\ scope[s].depth > 0
        /\ finishNestedLocked(s, "committed")
        /\ UNCHANGED <<rollbackOnly, rollbackReason>>
  /\ op' = [op EXCEPT ![g].pc = "after"]
  /\ UNCHANGED <<ctxDone, opMu, backend>>

\* A rolled back emulated scope dooms the root, once.
BadDooms(s) == scope[s].mode = "inherited" /\ ~rollbackOnly
Dooms(s) == scope[s].mode = "emulated" /\ ~rollbackOnly

BadRolledBack(g) == op[g].attempt \cap op[g].before = {}
RolledBack(g) == op[g].attempt = {}

PublishRollback(g) ==
  LET s == op[g].scope IN
  /\ op[g].pc = "publish" /\ op[g].kind = "rollback"
  /\ \/ ~RolledBack(g) /\ failExecutionLocked(s)
     \/ RolledBack(g) /\ scope[s].depth = 0 /\ finishRootLocked(s, "rolledBack")
     \/ /\ RolledBack(g) /\ scope[s].depth > 0
        /\ finishNestedLocked(s, "rolledBack")
        /\ rollbackOnly' = (rollbackOnly \/ Dooms(s))
        /\ rollbackReason' =
             IF Dooms(s) THEN FirstReason(rollbackReason, "scope") ELSE rollbackReason
  /\ op' = [op EXCEPT ![g].pc = "after"]
  /\ UNCHANGED <<ctxDone, opMu, backend>>

-----------------------------------------------------------------------------
(* The return of a call.                                                   *)

BeginResult(o) ==
  IF o.before # {} THEN {"BeginAborted"} \cup o.before
  ELSE IF o.attempt = {} \/ "NestedTxUnsupported" \in o.attempt THEN o.attempt
  ELSE {"BeginFailed"} \cup o.attempt

BeginFailed(o) == o.kind \in BeginKind /\ o.before \cup o.attempt # {}

\* RollbackRoot and TxScope.Rollback.
RollbackResult(o) ==
  IF o.attempt = {} THEN o.before
  ELSE IF o.before = {} THEN {"RollbackFailed"} \cup o.attempt
  ELSE {"FinalizationFailed"} \cup o.before \cup o.attempt

BadcommitFailureError(o) ==
  (IF o.before = {} THEN {"CommitAborted"}
   ELSE {"FinalizationFailed"} \cup o.before \cup o.attempt) \cup o.commitErr
commitFailureError(o) ==
  (IF o.attempt = {} /\ o.before = {} THEN {"CommitAborted"}
   ELSE {"FinalizationFailed"} \cup o.before \cup o.attempt) \cup o.commitErr

Result(o) ==
  IF o.kind \in BeginKind THEN BeginResult(o)
  ELSE IF o.kind = "commit" THEN {}
  ELSE IF o.commitErr = {} THEN RollbackResult(o)
  ELSE commitFailureError(o)

BadCommitFailed(g) == op[g].kind = "commit" /\ op[g].attempt # {}
CommitFailed(g) == op[g].kind = "commit" /\ op[g].before \cup op[g].attempt # {}

\* After interceptors and hooks have run; the deferred unlock releases opMu.
Finish(g) ==
  /\ op[g].pc = "after" /\ ~CommitFailed(g)
  /\ op' = [op EXCEPT ![g].pc = "done", ![g].ret = Result(op[g]),
       ![g].scope = IF BeginFailed(op[g]) THEN NoScope ELSE @]
  /\ opMu' = NoOne
  /\ UNCHANGED <<state, ctxDone, backend>>

\* CommitRoot and TxScope.Commit answer a failed commit with a rollback, and
\* opMu is free in between.
BadCompensate(g) ==
  /\ op[g].pc = "after" /\ CommitFailed(g)
  /\ op' = [op EXCEPT ![g].pc = "lock", ![g].kind = "rollback",
                      ![g].commitErr = op[g].before \cup op[g].attempt]
  /\ UNCHANGED <<state, ctxDone, opMu, backend>>
Compensate(g) ==
  /\ op[g].pc = "after" /\ CommitFailed(g)
  /\ op' = [op EXCEPT ![g].pc = "lock", ![g].kind = "rollback",
                      ![g].commitErr = op[g].before \cup op[g].attempt]
  /\ opMu' = NoOne
  /\ UNCHANGED <<state, ctxDone, backend>>

\* Where callbacks run: around the adapter call; AfterBegin precedes the
\* publication of a begin, the other After callbacks follow it.
AtCallback(g) ==
  \/ op[g].pc \in {"before", "after"}
  \/ op[g].pc = "publish" /\ op[g].kind \in BeginKind

\* A panicking callback unwinds the call; the deferred unlock still runs, and a
\* begin returns no scope.
CallbackPanic(g) ==
  /\ CallbackPanics
  /\ AtCallback(g)
  /\ op' = [op EXCEPT ![g].pc = "done", ![g].ret = {"Panic"},
       ![g].scope = IF op[g].kind \in BeginKind THEN NoScope ELSE @]
  /\ opMu' = NoOne
  /\ UNCHANGED <<state, ctxDone, backend>>

Return(g) ==
  /\ op[g].pc = "done"
  /\ op' = [op EXCEPT ![g] = Idle]
  /\ UNCHANGED <<state, ctxDone, opMu, backend>>

-----------------------------------------------------------------------------

Enter(g) == beginRoot(g) \/ beginNestedScope(g) \/ commitScope(g) \/ rollbackScope(g)

Adapter(g) ==
  \/ AdapterBegin(g) \/ AdapterBeginNested(g)
  \/ AdapterCommit(g) \/ AdapterRollback(g)

Publish(g) ==
  \/ PublishBeginRoot(g) \/ PublishBeginNested(g)
  \/ PublishCommit(g) \/ PublishRollback(g)

\* The steps of a call once its goroutine holds opMu, and its return.
Progress(g) ==
  RunBefore(g) \/ Adapter(g) \/ Publish(g) \/ Finish(g) \/ Compensate(g)

CallAny(g) ==
  \/ \E kind \in BeginKind : CallBegin(g, kind)
  \/ \E kind \in FinalizeKind :
       CallScope(g, kind) \/ CallRoot(g, kind) \/ CallNoRoot(g, kind)

Step(g) == Enter(g) \/ Progress(g) \/ CallbackPanic(g)

Environment ==
  \/ Query
  \/ \E reason \in {"none", "user"} : SetRollbackOnly(reason)
  \/ Cancel
  \/ BackendAborts

Next == Environment \/ \E g \in Goroutines : CallAny(g) \/ Step(g) \/ Return(g)

\* Callbacks and the adapter answer, so a call that holds opMu goes on (WF);
\* sync.Mutex is starvation free, so one that waits for it gets it (SF).
Fairness == \A g \in Goroutines :
  WF_vars(Progress(g)) /\ WF_vars(Return(g)) /\ SF_vars(Enter(g))

Spec == Init /\ [][Next]_vars
FairSpec == Spec /\ Fairness

-----------------------------------------------------------------------------
(* Properties.                                                             *)

OnStack(s) == \E i \in DOMAIN stack : stack[i] = s

\* The stack holds the active scopes, each once, root first, at its depth; a
\* scope is active outside the stack only if the execution failed above it.
ScopesNest ==
  /\ rootStatus = "active" <=> stack # <<>>
  /\ \A i \in DOMAIN stack :
       /\ scope[stack[i]].status = "active"
       /\ scope[stack[i]].depth = i - 1
  /\ \A s \in Scopes :
       scope[s].status = "active" => OnStack(s) \/ rootStatus = "failed"

\* From its checks to its publication a commit or a rollback works on the top
\* of the stack, although mu is released in between: so the blind pop of
\* finishNestedLocked removes the scope that was finished.
FinalizesTop == \A g \in Goroutines :
  op[g].kind \in FinalizeKind /\ op[g].pc \in {"before", "adapter", "publish"} =>
    stack # <<>> /\ Last(stack) = op[g].scope

\* A scope that reports committed or rolled back says what the database did,
\* also when a Commit failed after the database had committed, or when the
\* database rolled back by itself.
HonestOutcome == \A s \in Scopes :
  scope[s].mode = "physical" /\ scope[s].status \in {"committed", "rolledBack"} =>
    backend[s] = scope[s].status

\* Once an emulated nested scope has rolled back, the root does not commit:
\* the mark is set and stays until the root has ended some other way.
EmulatedRollbackSticks ==
  (\E s \in Scopes : scope[s].mode # "physical" /\ scope[s].status = "rolledBack") =>
    /\ rootStatus # "committed"
    /\ rootStatus = "active" => rollbackOnly

\* The sentinel that a call returns tells what became of its scope.
ResultTellsOutcome == \A g \in Goroutines :
  LET o == op[g] IN
  o.pc = "done" /\ o.scope # NoScope =>
    LET status == scope[o.scope].status IN
    /\ o.ret = {} =>
         CASE o.kind = "commit" -> status = "committed"
           [] o.kind = "rollback" -> status = "rolledBack"
           [] OTHER -> status # "none"
    /\ "CommitAborted" \in o.ret => status = "rolledBack"
    /\ "RollbackFailed" \in o.ret => status = "failed" /\ rootStatus = "failed"

\* No database transaction is left open where nobody can end it: the scope of
\* an open one is on the stack, or its begin is under way, or a failing
\* rollback has ended the execution.  (A panicking AfterBegin breaks this.)
NoOrphan == \A s \in Scopes :
  backend[s] = "open" =>
    \/ OnStack(s)
    \/ \E g \in Goroutines : opMu = g /\ op[g].kind \in BeginKind /\ op[g].scope = s
    \/ rootStatus = "failed"
    \/ CallbackPanics

\* Nothing follows a terminal status: a finished root keeps its outcome and
\* no adapter call reaches the database any more; a finished scope stays so.
TerminalKept ==
  /\ rootStatus \in Terminal =>
       UNCHANGED <<rootStatus, stack, scope>> /\ (BackendAborts \/ UNCHANGED backend)
  /\ \A s \in Scopes : scope[s].status \in Terminal => scope'[s] = scope[s]
TerminalIsFinal == [][TerminalKept]_vars

\* While the root is active the mark is never taken back, and the first reason
\* given for it is the one that is kept.
DoomKept ==
  rootStatus = "active" /\ rootStatus' = "active" =>
    /\ rollbackOnly => rollbackOnly'
    /\ rollbackReason # "none" => rollbackReason' = rollbackReason
DoomIsSticky == [][DoomKept]_vars

\* The root commits only while it is not marked rollback-only.
RollbackOnlyBlocksCommit ==
  [][rootStatus = "active" /\ rootStatus' = "committed" => ~rollbackOnly]_vars

\* A root commit that has passed its check: a mark that arrives now is late.
CommittingRoot == \E g \in Goroutines :
  /\ op[g].kind = "commit" /\ op[g].pc \in {"before", "adapter", "publish"}
  /\ op[g].scope = Root

Abs == INSTANCE RootTransaction WITH
  root <- rootStatus,
  open <- IF stack = <<>> THEN 0 ELSE Len(stack) - 1,
  doomed <- rollbackOnly /\ ~CommittingRoot

\* The UnitOfWork implements the abstract root transaction; a mark counts
\* from the moment no root commit is past its check.
ImplementsRootTransaction == Abs!Spec

\* Every call returns, whoever else uses the UnitOfWork.
CallsReturn == \A g \in Goroutines : op[g].pc # "idle" ~> op[g].pc = "idle"

-----------------------------------------------------------------------------
(* Invariants that the properties above rest on.                           *)

\* opMu is held by exactly the goroutine that is inside an operation.
Exclusive == \A g \in Goroutines : opMu = g <=> op[g].pc \in Inside

\* What is known of an operation between its checks and its publication.
BeginSound(g) ==
  op[g].kind \in BeginKind /\ op[g].pc \in Inside \ {"after"} =>
    /\ op[g].scope \in Scopes /\ scope[op[g].scope].status = "none"
    /\ op[g].kind = "beginRoot" => rootStatus = "none" /\ op[g].mode = "physical"
    /\ op[g].kind = "beginNested" => rootStatus = "active"
    /\ op[g].mode = "inherited" => rollbackOnly

FinalizeSound(g) ==
  LET s == op[g].scope IN
  op[g].kind \in FinalizeKind /\ op[g].pc \in Inside \ {"after"} =>
    /\ s \in Scopes /\ op[g].mode = scope[s].mode
    /\ stack # <<>> /\ Last(stack) = s
    /\ op[g].pc = "publish" /\ op[g].mode = "physical" =>
         \/ op[g].kind = "commit" /\ backend[s] = "committed"
         \/ op[g].kind = "rollback" /\ op[g].attempt # {}
         \/ op[g].kind = "rollback" /\ backend[s] = "rolledBack"

Soft(s) == scope[s].mode # "physical"   \* an emulated scope, or inherited

\* Before the first begin nothing has happened; an inherited scope is open only
\* above a marked root; a rolled back emulated scope leaves the root marked, and
\* no root commit passes its check after that.
Doomed ==
  /\ rootStatus = "none" => \A s \in Scopes : scope[s].status = "none"
  /\ \A s \in Scopes :
       /\ rootStatus = "active" /\ scope[s].status = "active" /\ scope[s].mode = "inherited"
            => rollbackOnly
       /\ Soft(s) /\ scope[s].status = "rolledBack" => ~CommittingRoot

\* The inductive invariant.
IInv ==
  /\ TypeOK /\ Exclusive /\ ScopesNest
  /\ \A g \in Goroutines : BeginSound(g) /\ FinalizeSound(g)
  /\ HonestOutcome
  /\ Doomed /\ EmulatedRollbackSticks
=============================================================================
