------------------------------ MODULE Manager ------------------------------
(***************************************************************************)
(* The managed executions of manager.go over one UnitOfWork: InTx and      *)
(* InNestedTx begin a root or a nested scope, run the user's callback, and *)
(* finalize what they began.  The callback may start further executions,   *)
(* from the goroutine that runs it or from others that hold its context,   *)
(* and may open and end nested scopes by hand.  Every step is a step of    *)
(* UnitOfWork or leaves it alone.                                          *)
(*                                                                         *)
(* Only the executor controls the root: user code has no RootController.   *)
(***************************************************************************)
EXTENDS UnitOfWork

CONSTANTS
  DefaultPolicy,   \* defaultFinalizePolicy, or a policy that answers anything
  ManualScopes     \* does user code call BeginNested by hand?

ASSUME ManagerAssumption == DefaultPolicy \in BOOLEAN /\ ManualScopes \in BOOLEAN
ASSUME GoroutinesAssumption == IsFiniteSet(Goroutines)

VARIABLES
  frames,   \* each goroutine's stack of running executions, outermost first
  manual    \* the TxScope handles that user code holds

managerVars == <<vars, frames, manual>>

-----------------------------------------------------------------------------
(* Types.                                                                  *)

\* asked: InTransaction has answered.  begin, end: the scope is being begun or
\* finalized.  fn: the callback runs.  decided: it has returned.
Stage == {"asked", "begin", "fn", "decided", "end"}
Cause == {"FnError", "FnPanic", "ContextCancelled", "RollbackCause"}

Frame == [root : BOOLEAN, stage : Stage, scope : Scopes \cup {NoScope},
  plan : FinalizeKind \cup {"none"},
  outcome : SUBSET {"FnError", "FnPanic"},   \* how the callback ended
  cause : SUBSET Cause]                      \* what the executor answers first

Asked(isRoot) == [root |-> isRoot, stage |-> "asked", scope |-> NoScope,
  plan |-> "none", outcome |-> {}, cause |-> {}]

ManagerTypeOK ==
  /\ TypeOK
  /\ frames \in [Goroutines -> Seq(Frame)]
  /\ manual \subseteq Scopes

ManagerInit ==
  /\ Init
  /\ frames = [g \in Goroutines |-> <<>>]
  /\ manual = {}

Running(g) == IF frames[g] = <<>> THEN Asked(FALSE) ELSE Last(frames[g])
At(g, stage) == frames[g] # <<>> /\ Last(frames[g]).stage = stage

\* User code runs: in the goroutine's innermost callback, or outside of all.
InUserCode(g) == op[g].pc = "idle" /\ (frames[g] = <<>> \/ At(g, "fn"))

SetFrame(g, f) == frames' = [frames EXCEPT ![g] = Append(Front(@), f)]
Leave(g) == frames' = [frames EXCEPT ![g] = Front(@)]

-----------------------------------------------------------------------------
(* Beginning an execution.                                                 *)

Kind(g) == IF Running(g).root THEN "beginRoot" ELSE "beginNested"

\* The bound Scopes: an execution reserves the scope that it may begin.
Awaiting ==
  Needing \cup {g \in Goroutines : At(g, "asked") /\ ~WillBeRefused(Kind(g))}
RoomToBegin == Cardinality(Awaiting) < Cardinality(Fresh)

\* InTransaction refreshes the mark and answers; without a root in sight the
\* execution will begin one, otherwise it nests.
Ask(g) ==
  /\ InUserCode(g)
  /\ RoomToBegin \/ WillBeRefused("beginRoot")
  /\ frames' = [frames EXCEPT ![g] = Append(@, Asked(rootStatus # "active"))]
  /\ markCancelledIfNeeded
  /\ UNCHANGED <<rootStatus, stack, scope, ctxDone, opMu, op, backend, manual>>

\* Time passes between the answer and the begin.
BeginExecution(g) ==
  /\ At(g, "asked") /\ op[g].pc = "idle"
  /\ CallBegin(g, Kind(g))
  /\ SetFrame(g, [Running(g) EXCEPT !.stage = "begin"])
  /\ UNCHANGED manual

\* A failed begin returns its error; fn does not run.
Began(g) ==
  /\ At(g, "begin") /\ Return(g)
  /\ \/ op[g].ret # {} /\ Leave(g)
     \/ /\ op[g].ret = {}
        /\ SetFrame(g, [Running(g) EXCEPT !.stage = "fn", !.scope = op[g].scope])
  /\ UNCHANGED manual

-----------------------------------------------------------------------------
(* The callback returns and the executor decides.                          *)

Decided(g, outcome, plan, cause) ==
  SetFrame(g, [Running(g) EXCEPT !.stage = "decided", !.outcome = outcome,
                                 !.plan = plan, !.cause = cause])

Outcome == {{}, {"FnError"}, {"FnPanic"}}

IsRollbackOnly == rootStatus = "active" /\ MarkedOnly

\* What a finalize policy may answer.
PolicyAnswers(outcome) ==
  IF DefaultPolicy THEN {outcome # {} \/ IsRollbackOnly \/ ctxDone} ELSE BOOLEAN

\* shouldRollback: a panic, then an error that the policy minds, then the mark,
\* then the context, then the policy alone.
Overridden(outcome, wants) == outcome = {"FnPanic"} \/ (wants /\ outcome # {})
RollbackWanted(outcome, wants) ==
  Overridden(outcome, wants) \/ IsRollbackOnly \/ ctxDone \/ wants

DecideRoot(g) ==
  /\ At(g, "fn") /\ op[g].pc = "idle" /\ Running(g).root
  /\ \E outcome \in Outcome : \E wants \in PolicyAnswers(outcome) :
       /\ IF RollbackWanted(outcome, wants)
          THEN Decided(g, outcome, "rollback",
                       IF outcome = {} THEN {"RollbackCause"} ELSE outcome)
          ELSE Decided(g, outcome, "commit", outcome)
       /\ \/ Overridden(outcome, wants) /\ UNCHANGED <<rollbackOnly, rollbackReason>>
          \/ ~Overridden(outcome, wants) /\ markCancelledIfNeeded
  /\ UNCHANGED <<rootStatus, stack, scope, ctxDone, opMu, op, backend, manual>>

\* A nested execution applies no policy.  Its context is not the root's: it may
\* be a child of that one, or the one that the UnitOfWork was bound in.
DecideNested(g) ==
  /\ At(g, "fn") /\ op[g].pc = "idle" /\ ~Running(g).root
  /\ \/ \E outcome \in Outcome \ {{}} : Decided(g, outcome, "rollback", outcome)
     \/ Decided(g, {}, "rollback", {"ContextCancelled"})
     \/ Decided(g, {}, "commit", {})
  /\ UNCHANGED <<vars, manual>>

-----------------------------------------------------------------------------
(* Finalizing.                                                             *)

\* commitRootManaged and rollbackRootManaged look the root up.
BadFinalizeCall(g, f) == CallRoot(g, f.plan) \/ CallNoRoot(g, f.plan)
FinalizeCall(g, f) ==
  \/ f.root /\ (CallRoot(g, f.plan) \/ CallNoRoot(g, f.plan))
  \/ ~f.root /\ Call(g, f.plan, f.scope)

FinalizeExecution(g) ==
  /\ At(g, "decided")
  /\ FinalizeCall(g, Running(g))
  /\ SetFrame(g, [Running(g) EXCEPT !.stage = "end"])
  /\ UNCHANGED manual

\* What InTx or InNestedTx answers when its finalization o is done.
Refused(o) ==
  o.ret \cap {"NoActiveTransaction", "TxAlreadyClosed", "ScopeOrderViolation"} # {}
BadAnswered(f, o) == IF "Panic" \in o.ret THEN o.ret ELSE f.cause
Answered(f, o) ==
  IF "Panic" \in o.ret THEN o.ret
  ELSE IF "FnPanic" \in f.cause THEN f.cause
  ELSE IF f.root /\ f.plan = "rollback" /\ f.outcome = {} /\ Refused(o) THEN o.ret
  ELSE f.cause \cup o.ret

EndExecution(g) == At(g, "end") /\ Return(g) /\ Leave(g) /\ UNCHANGED manual

-----------------------------------------------------------------------------
(* Scopes that user code opens and ends by hand.                           *)

ManualCall(g) ==
  /\ ManualScopes /\ InUserCode(g)
  /\ \/ RoomToBegin /\ CallBegin(g, "beginNested")
     \/ \E kind \in FinalizeKind, s \in manual : Call(g, kind, s)
  /\ UNCHANGED <<frames, manual>>

ManualReturn(g) ==
  /\ frames[g] = <<>> \/ At(g, "fn")
  /\ Return(g)
  /\ manual' = IF op[g].kind = "beginNested" /\ op[g].ret = {}
               THEN manual \cup {op[g].scope} ELSE manual
  /\ UNCHANGED frames

-----------------------------------------------------------------------------

Execute(g) ==
  \/ Ask(g) \/ BeginExecution(g) \/ Began(g)
  \/ DecideRoot(g) \/ DecideNested(g)
  \/ FinalizeExecution(g) \/ EndExecution(g)

ManagerNext ==
  \/ (Environment \/ \E g \in Goroutines : Step(g)) /\ UNCHANGED <<frames, manual>>
  \/ \E g \in Goroutines : Execute(g) \/ ManualCall(g) \/ ManualReturn(g)

ManagerSpec == ManagerInit /\ [][ManagerNext]_managerVars

\* The executor goes on whenever it can (WF), a call of UnitOfWork as in
\* Fairness, and a callback returns although it may call the library again and
\* again while it runs (SF).
ManagerFairness == \A g \in Goroutines :
  /\ WF_managerVars(Progress(g) /\ UNCHANGED <<frames, manual>>)
  /\ SF_managerVars(Enter(g) /\ UNCHANGED <<frames, manual>>)
  /\ WF_managerVars(BeginExecution(g) \/ Began(g))
  /\ WF_managerVars(FinalizeExecution(g) \/ EndExecution(g) \/ ManualReturn(g))
  /\ SF_managerVars(DecideRoot(g) \/ DecideNested(g))
FairManagerSpec == ManagerSpec /\ ManagerFairness

-----------------------------------------------------------------------------
(* Properties.                                                             *)

\* An execution whose finalization is done and that is about to answer.
Answering(g) == At(g, "end") /\ op[g].pc = "done"
AnswerOf(g) == Answered(Running(g), op[g])

\* While a callback runs, the transaction it was given is open: nobody ends
\* the scope of another execution, except that a failing rollback ends all.
CallbackHasScope == \A g \in Goroutines : \A i \in DOMAIN frames[g] :
  LET f == frames[g][i] IN
  f.stage \in {"fn", "decided"} =>
    \/ scope[f.scope].status = "active" /\ OnStack(f.scope)
    \/ rootStatus = "failed"

\* An execution that answers nil has committed; under the default policy one
\* that answers an error has not.
AnswerTellsCommit == \A g \in Goroutines :
  Answering(g) =>
    LET committed == scope[Running(g).scope].status = "committed" IN
    /\ AnswerOf(g) = {} => committed
    /\ DefaultPolicy /\ committed /\ "Panic" \notin AnswerOf(g) => AnswerOf(g) = {}

\* A root execution that answers nil has kept everything: no emulated scope
\* that was open above it, by whichever goroutine, has been rolled back.
AllOrNothing == \A g \in Goroutines :
  Answering(g) /\ Running(g).root /\ AnswerOf(g) = {} =>
    \A s \in Scopes : Soft(s) => scope[s].status \in {"none", "committed"}

\* An execution leaves its scope open only when its finalization was refused:
\* something is open above the scope, or the mark arrived after the decision.
\* (A panicking callback of the library's is the third way.)
OpenOnlyIfRefused == \A g \in Goroutines :
  Answering(g) /\ rootStatus = "active" /\ scope[Running(g).scope].status = "active" =>
    op[g].ret \cap {"ScopeOrderViolation", "RollbackOnly", "Panic"} # {}

\* One goroutine that only nests executions never finalizes out of order and
\* never finds its scope closed, unless a rollback has failed.
LexicalOrder ==
  Cardinality(Goroutines) = 1 /\ ~ManualScopes /\ ~CallbackPanics =>
    \A g \in Goroutines :
      Answering(g) => ~Refused(op[g]) \/ rootStatus = "failed"

\* Every execution answers, however deep its callbacks nest.
ExecutionsReturn == \A g \in Goroutines : frames[g] # <<>> ~> frames[g] = <<>>

\* The executor finalizes the root that it began before it answers, whatever
\* scopes its callback has left open (for a late mark, see the next property).
ExecutorFinalizes == \A g \in Goroutines :
  Answering(g) /\ Running(g).root /\ "RollbackOnly" \notin op[g].ret =>
    rootStatus \in Terminal

\* A root that is rollback-only when it is finalized is rolled back.
RollbackOnlyRollsBack == \A g \in Goroutines :
  Answering(g) /\ Running(g).root /\ "RollbackOnly" \in op[g].ret =>
    rootStatus \in {"rolledBack", "failed"}

\* When the executor has decided for a rollback, the database is asked for it
\* before the execution answers: a tx that is still open has refused it.
RootRollbackAttempted == \A g \in Goroutines :
  /\ Answering(g) /\ Running(g).root /\ Running(g).plan = "rollback"
  /\ rootStatus = "failed" /\ backend[Running(g).scope] = "open"
  => "AdapterError" \in op[g].ret
=============================================================================
