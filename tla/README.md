# A verification of `uow`

TLA+ models, TLC checks and TLAPS proofs for the Go library in `src/`: a unit of
work that puts one root transaction, with nested scopes above it, around a piece
of application code, over SQL or GORM, by hand or from an HTTP request.

Line numbers refer to files under `src/`.

## 1. Inventory

| Part | State | Operations |
|---|---|---|
| **UnitOfWork** (`uow.go`) | root status, stack of scopes, rollback-only mark and its reason, `opMu`, `mu` | `beginRoot`, `BeginNested`, `CommitRoot`, `RollbackRoot`, `TxScope.Commit/Rollback`, `SetRollbackOnly`, the queries |
| **Manager** (`manager.go`) | none of its own; the UnitOfWork travels in the context | `Bind`, `Run`, `InTx`, `InNestedTx`, `ResolveBinding`, `finalizeRoot`, option policy |
| **Registry and resolver** (`registry.go`, `resolver.go`) | registrations by key, in order | `Register`, `Registrations`, `mergeSelectors`, `resolveTenant`, `chooseRegistration` |
| **Context and tenant** (`context.go`, `tenant.go`) | values of a context | `With...`, `From...` |
| **Configuration** (`config.go`, `config_builders.go`) | none | option builders, validation |
| **Contract** (`types.go`, `errors.go`) | none | interfaces and error sentinels |
| **SQL adapter** (`adapters/sql`) | `sql.Tx` | `Begin`, `Commit`, `Rollback`; no nesting |
| **GORM adapter** (`adapters/gorm`) | `gorm.DB`, savepoint name | the same, and nested savepoints |
| **HTTP middleware** (`framework/http`) | recorder or buffered response | `serve`, `serveBuffered`, `markRollbackOnly` |
| **Fiber middleware** (`framework/fiber`) | request context | `execute`, `markRollbackOnly` |
| **Examples** (`examples`) | | no logic of the library |

**How they interact.** A middleware calls the manager with a callback. The manager
resolves a registration, binds a fresh UnitOfWork to the context, and calls
`beginRoot`. The callback runs with that context: it may call the manager again
(which then nests on the same UnitOfWork), open scopes by hand, mark the root
rollback-only, and hand the context to other goroutines. The UnitOfWork calls
interceptors and hooks, and the adapter, which calls the database. When the
callback ends, `finalizeRoot` decides between commit and rollback and asks the
UnitOfWork for it.

**What is hard.**

- *Two locks.* `opMu` is held by the four operations of `uow.go` from their first
  line to their return, callbacks and adapter calls included. `mu` is held for
  short sections only. A commit checks in one section and publishes in another,
  and `SetRollbackOnly`, the queries and a cancelled context change the mark in
  between, without `opMu`.
- *A commit that fails.* `CommitRoot` and `TxScope.Commit` answer a failed commit
  with a rollback, and take `opMu` a second time for it. Other goroutines may get in
  first.
- *The blind pop.* `finishNestedLocked` (`uow.go:598-601`) removes the top of the
  stack, whatever scope is finishing.
- *Emulated nesting.* The rollback of an emulated scope ends nothing in the
  database. Only the mark it leaves keeps the root from committing its writes, and
  the scope's mode was decided before the callbacks ran.
- *A decision that grows stale.* `finalizeRoot` decides for a commit before
  `commitScope` looks at the mark again.
- *Failures of failures.* A rollback that the adapter fails ends the execution and
  leaves scopes in the middle of the stack with the status active.
- *The database acts by itself.* `database/sql` rolls back when the context of the
  transaction is done; a `Commit` may fail after the database has committed.
- *A registry that grows.* A call resolves its binding, and then acts on a UnitOfWork
  that an earlier call has bound: what was checked is the adapter found now, what is
  used is the adapter found then.
- *One connection.* The scopes of a root are savepoints of one connection: what any
  goroutine writes falls into whatever scope the database has open at that moment.
- *Layers.* A middleware layer that minds a status marks the root and commits its own
  scope; the rollback comes layers further out, and the response has to wait for it.
- *Panics.* A callback of the library's or of the user's may panic at any point.

**What makes each part correct.**

- UnitOfWork: the stack is the active scopes; a finalization removes the scope that
  it finished; a terminal status is final and agrees with the database; a marked
  root does not commit; the mark and its first reason stay; no transaction is
  orphaned; an error tells what happened; every call returns.
- Manager: a running callback has an open scope; the answer tells whether the
  transaction committed; a root that answers nil has kept everything; what was begun
  is finalized; every execution answers.
- Registry, resolver and what the manager checks before it begins: the choice does
  not depend on the order of registrations; a registration does not disturb the calls
  that name what they want; tenants keep to their own registrations; a callback runs
  in a root with the options that it asked for, on an adapter that can do it.
- Adapters: an ended root holds no connection, and no transaction outlives its
  context; the database keeps exactly the writes whose scopes have all committed.
- Middleware: the client sees a success only if the transaction committed, and a status
  that asks for a rollback only without a commit; nothing leaves before the end.

The hazards of this list, each at its line and with the properties that cover it,
are in `PROJECT.json`.

## 2. Plan

| Step | Module | Composes | State |
|---|---|---|---|
| 1 | `RootTransaction`: what a UnitOfWork promises | | done |
| 2 | `UnitOfWork`, `UnitOfWorkMC` | refines `RootTransaction` | done |
| 3 | `UnitOfWorkProofs`: the inductive invariant | `UnitOfWork` | done |
| 4 | `UnitOfWorkRefinement`: the refinement and the action properties | `UnitOfWorkProofs` | done |
| 5 | `Manager`, `ManagerMC`: executions over one UnitOfWork | `UnitOfWork` | done |
| 6 | `Binding`, `BindingMC`: registry, resolver, `Bind`, `Run`, option policy, `validateReentrantRoot` | | done |
| 7 | `BindingProofs`: the choice of a registration, the inductive invariant | `Binding` | done |
| 8 | `SqlAdapter`, `SqlAdapterMC`, `GormAdapter`, `GormAdapterMC`: what the adapters do where `UnitOfWork` leaves it open | `UnitOfWork`, `Manager` | done |
| 9 | `Middleware`, `MiddlewareMC`: response against outcome, HTTP and Fiber | `Manager` | done |
| 10 | `OutcomeProofs`: nothing is orphaned, answers tell the outcome | `UnitOfWorkProofs` | done |
| 11 | `SqlProofs`: the contract, what an ended root holds | `SqlAdapter`, `OutcomeProofs` | done |
| 12 | `ManagerProofs`: the refinement of `UnitOfWork`, scopes, answers, nesting | `Manager`, `OutcomeProofs` | done |
| 13 | `GormProofs`: the contract, what the database keeps | `GormAdapter`, `ManagerProofs` | done |
| 14 | `MiddlewareProofs`: response against outcome | `Middleware`, `ManagerProofs` | done |

Each module that composes others takes their actions and restricts only what they leave
open, so that its behaviours are behaviours of theirs; `WithinContract` says so where the
restriction replaces an action.

## 3. The modules

### `RootTransaction`

Three variables: the root's status, the number of open nested scopes, and whether
the root is doomed. One root per UnitOfWork; scopes open and close; a doomed root
never commits; commit and rollback need that nothing is open above the root; a
failing rollback ends everything at any depth.

### `UnitOfWork`

State: `rootStatus`, `stack`, `scope`, `rollbackOnly`, `rollbackReason` are the
fields of `unitOfWork` (`uow.go:59-75`) and of its `scopeState`s. `opMu` is its
holder. `op[g]` says where goroutine `g` is in its call, with what the call has
already learned (`before`, `attempt`, `commitErr`). `ctxDone` is the root context.
`backend` is not a variable of the program: it is the database's own view of the
transaction behind each scope, which the properties compare with what the code
believes.

A call is a sequence of actions, one per section under `mu` or call out of it:

    Call -> Enter (checks; takes opMu or refuses) -> RunBefore -> Adapter
         -> Publish -> Finish (releases opMu) -> Return
                         \-> Compensate -> Enter (as a rollback) -> ...

| Action | Code |
|---|---|
| `beginRoot`, `PublishBeginRoot` | `uow.go:270-322` |
| `beginNestedScope`, `PublishBeginNested` | `uow.go:328-418` |
| `commitScope`, `PublishCommit` | `uow.go:459-521` |
| `rollbackScope`, `PublishRollback` | `uow.go:523-586` |
| `Compensate` | `CommitRoot` `uow.go:181-191`, `txScope.Commit` `uow.go:216-231` |
| `SetRollbackOnly`, `Query`, `markCancelledIfNeeded` | `uow.go:100-179`, `701-713` |
| `CallbackPanic` | a panic that leaves through the deferred `opMu.Unlock` |
| `AdapterBegin`, `AdapterBeginNested`, `AdapterCommit`, `AdapterRollback` | the adapter call and every answer that it may give |
| `BackendAborts`, `Cancel` | external: the database and the context |

An error is the set of sentinels that `errors.Is` finds in it, `nil` is the empty
set. A refusal takes and releases the lock in one action, since nothing runs in
between. Callbacks are represented by what they may do: return an error (`Veto`),
panic, or, while they run, call what needs only `mu` (any goroutine may do that at
any time, so it needs no action of its own). A callback that calls an operation
under `opMu` of its own UnitOfWork would wait for ever; the model's callbacks do not
(listed as a hazard without a property: nothing in the repository says whether it
is allowed).

The adapter may fail whenever it is called. A failing `Commit` may leave the
transaction open, rolled back, or committed with the answer lost; a failing
`Rollback` may leave it open or rolled back. It succeeds only on a transaction that
is open in the database.

### `Manager`

Each goroutine has a stack of `frames`, one per execution that it is in: asked
whether there is a transaction (`Ask`), beginning (`BeginExecution`, `Began`),
running the callback (`fn`), decided (`DecideRoot`, `DecideNested`), finalizing
(`FinalizeExecution`), answering (`EndExecution`). Between them run the steps of
`UnitOfWork`, whose calls only the executor makes, and user code by hand
(`ManualCall`, when `ManualScopes`). User code has no `RootController`, so that only
an execution that began the root commits it or rolls it back. Other goroutines start
their own executions on the same UnitOfWork, as one does that received the context.

`DefaultPolicy` chooses between `defaultFinalizePolicy` (`manager.go:215-230`) and a
policy of the user's, which may answer anything. The order of `shouldRollback`
(`manager.go:429-454`) is kept: a panic, an error that the policy minds, the mark,
the context, the policy alone. A nested execution looks at its own context, which
need not be the root's: whether it is done is open.

The executions with a UnitOfWork of another kind (`executeNestedGeneric`) have the
same steps. Which binding an execution resolves to, and the options it asks for, can
only refuse it before it begins anything: that is the subject of `Binding`.

### `Binding`

What happens before anything begins. `list` is the registry; `unit` is the UnitOfWork
in the context, reduced to its binding, whether its root has begun, and the option the
root has; `call[g]` is what a caller has resolved and not yet used; `asked` is what the
callbacks that are running have asked for. A configuration is chosen at the start.

| Action | Code |
|---|---|
| `Register` | `registry.go:26-44` |
| `Resolve` | the first half of `Run`, `Bind`, `InTx`: `ResolveBinding` on a snapshot of the registry, the capability check, the option policy, the comparison of names (`manager.go:135-149`, `232-271`) |
| `Bind`, `BeginRoot`, `Nest` | the second half: `newUnitOfWork`, `beginRoot`, `validateReentrantRoot` with the nested scope |
| `Refuse` | a begin or a nested begin that answers an error |
| `Finish`, `Leave` | the root ends; a new execution starts without a UnitOfWork |

Selectors, overrides, defaults, the tenant policy and the choice of a registration are
operators, one per function of `resolver.go`; a resolution is `Missing` or `Ambiguous`
where the code answers an error, and a call that resolves to an error is no step.
Candidates are a set, and only the last resort of `chooseRegistration`
(`resolver.go:189`) looks at their order. An option stands for any of read-only,
isolation level and timeout, and capabilities are `root` and `options`; a registration
carries the capabilities of its adapter, since two registrations of one adapter name may
hold different adapters. Which selectors a request may have does not depend on whether
it is ambient or explicit, and every merged selection is tried for every kind of call.

### `SqlAdapter`

`UnitOfWork` with its adapter actions replaced by those of `adapters/sql`; they are meant
to be some of the behaviours that `UnitOfWork` allows (`WithinContract`). `SqlBegin`
hands the context of the execution to `BeginTx`; from then on the goroutine
`Tx.awaitDone` of `database/sql` may roll the transaction back once that context is done
(`AwaitDone`), also that of a begin that a panic has cut short. `SqlCommit` refuses a
context that is done and leaves the transaction as it is; `SqlRollback` ends what is
open, whatever it answers. Both answer `ErrTxDone` for a transaction that is over. There
is no nested begin.

### `GormAdapter`

`Manager` with the adapter actions of `adapters/gorm`, and with data: `log` is the open
transaction of the root as the database has it, savepoints and writes in order, and
`durable` what the database keeps. `GormBeginNested` sets a savepoint, `GormCommit` of a
nested scope does nothing, `GormRollback` of one cuts the log back to its savepoint; a
root's commit keeps the writes of the log, and a transaction of the root that the
database ends by itself loses them (`GormAborts`, `RootOpen`). `WriteAny` is a statement of a callback over
`CurrentHandle` (`uow.go:131-140`). `under` remembers which scopes were open when a write
was made, for `KeepsExactly`.

A write may be made by a callback of one goroutine while another goroutine's scope is
the innermost: it then falls into that scope, and its fate is that scope's. What is more,
the database has a savepoint a moment before its scope is on the stack, and has cut back
a moment before its scope is off it. A write of another goroutine in between (`raced`) may
be lost although every scope that it could see has committed; `KeepsExactly` excepts it.
The documentation asks for a UnitOfWork that is safe to share, not for one that keeps the
goroutines' writes apart.

### `Middleware`

One request through a chain of layers, composed with `Manager`: a layer that starts a
transaction is an execution of it (`EnterLayer`, `BeginLayer`, `BeganLayer`, then
`DecideLayer`, `FinalizeLayer`, `RunReturns`), and the others only pass through. Added is
what each writer holds (`response`), what is being returned (`err`), the errors that Fiber's
layers pass through, and the status in the rollback reason (`statusErr`).

| Action | HTTP | Fiber |
|---|---|---|
| `EnterLayer`, `RefuseLayer` | `middleware.go:36-59`, `config.go:43-80` | `middleware.go:33-47`, `config.go:35-72` |
| `HttpFnReturns`, `FiberFnReturns`, `MarkRollbackOnly` | `middleware.go:76-99` | `middleware.go:49-91`, `config.go:74-85` |
| `HttpLayerEnds`, `FiberLayerEnds` | `middleware.go:83-88`, `226-233`, `config.go:82-108` | `middleware.go:65-71`, `config.go:87-104` |
| `Unwind` | a panic that each execution recovers, finalizes and raises again | the same |

Over HTTP a layer that is not switched off has a buffer, whether it starts a transaction
or not, and a layer that is switched off writes through to the nearest buffer or to the
client (`Writer`). In Fiber there is one response, sent when the chain has returned; so
there the errors travel up, and each layer judges them anew. The chains are applications'
configurations: every mode, `RollbackOnStatus` given or not, a `RollbackOnError` that
tolerates or not, and both transaction modes of the manager.

### Mutated forms

A definition `Bad<name>` right before `<name>` is that definition with a plausible
mistake in it: a dropped guard, a status that is not reset, a lock that is not
released. No other definition uses it. For each property of a passing run,
`PROJECT.json` names one that breaks the property under the run's own
configuration, which shows that the run could tell.

## 4. The runs

| Run | Bounds | Shows |
|---|---|---|
| `UowStrict` | 2 goroutines, 3 scopes, savepoints | type; the stack is the active scopes (`ScopesNest`), pops its own scope (`FinalizesTop`), agrees with the database (`HonestOutcome`), orphans nothing (`NoOrphan`), errors tell the outcome (`ResultTellsOutcome`), terminal is final, implements `RootTransaction` |
| `SqlAdapter` | 2 goroutines, 2 scopes, panics, fair | the adapter keeps to the contract; every call returns; an ended root holds no connection; the end of the context ends every transaction |
| `ManEmulated` | 2 goroutines, 3 scopes, any policy, scopes by hand | the inductive invariant of the proofs; an emulated rollback dooms the root; the mark is sticky and keeps its first reason (all three occur: user, cancellation, scope); a root that answers nil has kept everything; a scope stays open only after a refusal |
| `ManLexical` | 1 goroutine, 3 scopes, fair | callbacks that only nest finalize in order; answers tell whether the scope committed; every execution answers |
| `GormAdapter` | 2 goroutines, 3 scopes, 1 write | a callback keeps its scope; the database keeps exactly the writes whose scopes have all committed; savepoints stand while their scopes are open; no write misses the transaction unless a rollback has failed; the adapter keeps to the contract |
| `Middleware` | 1 request, 1 or 2 layers, 48 chains, fair | a client that sees success has been told the truth; a status that rolls back is never answered with a commit, and is the status answered; a panic keeps nothing; nothing is sent before the end; every request is answered |
| `Binding` | 2 callers, 2 registrations out of 8, 2 tenants, 1 option value, every configuration | the order of registration does not matter, tenants are isolated, also from calls that select otherwise, options are granted, a root begins within the capabilities of its adapter, registering is harmless to calls that name what they want |
| `UowLateMark` | 1 goroutine, 2 scopes | *violated*: see 6 |
| `ManOpenScope`, `ManLateMark`, `ManFailedNested` | 1 goroutine, 1 or 2 scopes | *violated*: see 6 |
| `BindingFallback` | 1 caller, 2 registrations, 2 tenants | *violated*: see 6 |

**Bounds.** `Scopes` is the number of scope objects of a behaviour, and so the number
of begins that succeed: `Room` makes a call to begin wait when no scope would be left
for it, unless the call will be refused in any case (a second `beginRoot` must be
refused, so it needs none); `RoomToBegin` does the same for an execution. A scope that
a failed begin did not use goes back. Calls that are refused, marks, queries and
failures are not bounded. Three scopes give a root, a scope above it and a scope above
that: the smallest stack with something between the root and the top, where a failed
rollback leaves a scope active, and a scope can finish and another take its place. Two
goroutines give every pair of calls, one inside and one waiting; a third could only
wait too, as all but the mark is under `opMu`. The proofs below do without the bounds.

Goroutines and scopes are symmetric in the runs that check no liveness. `SqlAdapter` has
two scopes, as nothing nests over `database/sql` in strict mode: one for the root, one for
a begin that a panic cuts short. What waits there is for `opMu`, which a begin, a commit,
its compensation and a panic all release in their own way.

In `GormAdapter` one write (`MaxWrites`) is enough: what the database does to a write
depends on where it stands among the savepoints, not on the other writes, and the one may
be made by any callback at any time. In `Middleware` two layers give every pair of an outer
and an inner one, of which the inner is one of three that differ in what they do to the
transaction around them: one that nests, one that nests and marks, one that only marks. A
third layer would meet the same alternatives, as each sees only what the layer below has
returned. That run does not check deadlock, because a request ends; `RequestAnswered`
says that it does so only when answered.

In `Binding` two registrations give every pair: two candidates of one tenant with one
default, two or none; a shared registration and one of a tenant; the same names with
other capabilities. A third would only make an ambiguous choice more ambiguous, and the
proofs need no bound. Two callers let one bind, begin or end the root while the other has
resolved and not acted. No default name is configured, because a name that is filled in
leaves the choice nothing to decide; the proofs hold for both. The `Binding` runs do not
check deadlock: a call that resolves to an error is no step, so that where everything is
an error nothing may happen.

**Fairness.** The documentation makes a UnitOfWork safe for concurrent use within one
execution (`types.go:319-321`). Callbacks and adapter calls are assumed to answer, so a
call that holds `opMu` goes on (WF of `Progress`). Go's `sync.Mutex` does not starve a
waiter, so a goroutine that waits for `opMu` enters although others keep taking it (SF
of `Enter`). `FairManagerSpec` adds that the executor takes its next step (WF), and
that a user callback returns although it may start executions again and again before
it does (SF of the decision). `FairSqlSpec` adds that the goroutine of `database/sql`
which waits for the end of a context runs (WF of `AwaitDone`), and `FairMiddlewareSpec`
that handlers return (WF of `Serve`). `ExecutionsReturn` and `RequestAnswered` are checked
with one goroutine; the contention for `opMu` is in `CallsReturn`, with two, and between its
calls an execution waits for nobody. Nothing is assumed of marks, cancellations, the database
or of anyone calling.

## 5. What is proved

All theorems hold for every set of goroutines and scopes, both nesting modes, with and
without savepoints, panics, user policies and scopes opened by hand, and any number of
writes. Their assumptions are those of the modules: `NestedMode` is one of the two, the
switches are booleans, `MaxWrites` is a natural number, the two null values are not
members of the sets, and there are finitely many goroutines at any time, as in any
running program (`GoroutinesAssumption`: `RoomToBegin` counts them). The set of scopes
may be infinite. `MiddlewareProofs` holds for any set of chains of layers, of any length,
with any `RollbackOnStatus` (`ChainAssumption`, `RequestAssumption`), for both frameworks.

| Theorem | Property |
|---|---|
| `Invariance` | `IInv` |
| `TypeCorrect` | `TypeOK` |
| `StackDiscipline` | `ScopesNest` |
| `PopsItsOwnScope` | `FinalizesTop` |
| `OutcomeIsHonest` | `HonestOutcome` |
| `EmulationIsSafe` | `EmulatedRollbackSticks` |
| `OutcomeIsFinal` | `TerminalIsFinal` |
| `MarkIsSticky` | `DoomIsSticky` |
| `Refinement` | `ImplementsRootTransaction` |
| `NothingOrphaned` | `NoOrphan` |
| `ResultIsTrue` | `ResultTellsOutcome` |
| `SqlWithinContract` | `SqlSpec => Spec` (`WithinContract`) |
| `EndedRootReleased` | `EndedRootHoldsNothing` |
| `ManagerWithinContract` | `ManagerSpec => Spec` |
| `ManagerTypes` | `ManagerTypeOK` |
| `CallbackKeepsScope` | `CallbackHasScope` |
| `OpenRefused` | `OpenOnlyIfRefused` |
| `AnswerIsTrue` | `AnswerTellsCommit` |
| `NilKeepsAll` | `AllOrNothing` |
| `NestingIsLexical` | `LexicalOrder` |
| `GormWithinContract` | `GormSpec => ManagerSpec` (`WithinContract`) |
| `GormTypes` | `GormTypeOK` |
| `CommitKeepsExactly` | `KeepsExactly` |
| `WritesInside` | `WritesAreInside` |
| `SavepointsHold` | `SavepointsStand` |
| `RequestsAreManaged` | `MiddlewareSpec => ManagerSpec` |
| `MiddlewareTypes` | `MiddlewareTypeOK` |
| `RepliesAreTrue` | `ReplyTellsCommit` |
| `StatusMeansRollback` | `StatusPreventsCommit` |
| `StatusReachesClient` | `StatusPreserved` |
| `PanicsKeepNothing` | `PanicKeepsNothing` |
| `OpenMeansBuffered` | `BufferedUntilEnd` |

`BindingProofs` holds for all sets of names, tenants, options, registrations and
callers. It assumes that the empty string is no name and that the null values are
distinct from what they stand beside.

| Theorem | Property |
|---|---|
| `OrderDoesNotMatter` | `OrderIrrelevant` |
| `TenantsAreIsolated` | `TenantIsolation` |
| `OptionsAreGranted` | `OptionsGranted` |
| `BeginsAreSupported` | `BeginsWithinCapabilities` |
| `SelectionIsStable` | `StableWhenSelected` |
| `BindingTypeCorrect` | `BindingTypeOK` |

**The inductive invariant.** None of these is inductive alone: that a commit publishes
for the top of the stack rests on what it checked two actions earlier, while `mu` was
free. `IInv` carries that knowledge across. `Exclusive` says that `opMu` is held by
exactly the goroutine inside an operation, so that at most one is. `BeginSound` and
`FinalizeSound` say what such a goroutine still knows: the scope of a begin is
unused and its root is in the state that was checked; the scope of a finalization is on
top; at the publication the database has done what will be published. They are kept
because whatever another goroutine can do meanwhile touches only the mark, and the
database only the other way (`BackendAborts` never turns "rolled back" into something
else). `ScopesNest` and `HonestOutcome` follow at each publication. For emulated
nesting, `Doomed` says that an inherited scope is open only above a marked root, and
that after a soft scope has rolled back no root commit is past its check: the
rollback could be published only when nobody else was inside, and the mark that it
left stops the next commit at its check.

The step lemma has one case per action; `Published`, `TopOfStack`, `FinishNested` and
their like are the facts that several of them use.

**The refinement.** Only the four publications change the root, the stack or a scope.
`Quiet` says what every other step does: it leaves those alone, keeps the mark and its
first reason, and lets no root commit pass its checks once the root is marked. A quiet
step dooms the abstract root or stutters (`QuietKeeps`), and each publication is one
abstract action (`PublishBeginKeeps`, `PublishFinalizeKeeps`), under `IInv` and
`MarkNeedsRoot` (the mark is set only on an active root). `Kept` collects what this
gives; the three theorems are its parts. In the mapping a mark counts only while no
root commit is past its check: that is the strongest statement the code satisfies, as
the first finding shows.

**What a call answers.** `OutcomeInv` (in `OutcomeProofs`) stands beside `IInv`.
`RootAgrees`: the scope of depth 0 has the root's status. `Placed`: a transaction comes
into being between a begin's checks and its publication, so that an open one is on the
stack or about to be. `Known`: which errors a call can have collected where it is (`Told`
is `ResultTellsOutcome` of one call, and `Concluded` what is known before its answer is
composed). A publication is the only step that changes a scope, and a scope that has ended
stays as it is (`Lasts`); so what a call knows once it has published is still true when
it answers.

**The SQL adapter.** `SqlInv` says that the root alone is physical, and that an ended root
holds nothing. The contract follows: the adapter is only ever called for the root
(`CalledForRoot`), so the choices that `SqlAdapter` makes are among those of `UnitOfWork`;
and every invariant of `UnitOfWork` holds over `database/sql`.

**Executions.** A step of `Manager` is a step of `UnitOfWork` or leaves it alone
(`ManagerNextAllowed`): the only thing to show is that what the executor finalizes is a
call that user code could have made. `CallInv` first adds what any caller of `UnitOfWork` can rely
on: a begin returns a scope or an error, no two begins have the same scope, there is one
root. `ManagerInv` then says that each frame owns a scope: begun, not in the hands of user
code, not that of another frame (`FramesApart`), and untouched until its own finalization
(`FrameSound`, `Finalizing`). Ownership is what makes `CallbackHasScope` hold: whoever
publishes a commit or a rollback works on a scope of `manual` or on the frame that it is
finalizing (`Finalizer`), hence never on the scope of a running callback. The answers are
then read off `Finalizing`, `CallSound` and `Told` in the state where the execution
answers. `NestingIsLexical` needs more: `Lexical` says that the scopes of one goroutine's
frames are the top of the stack, innermost last (below them may be what an earlier execution
has left open), so that the innermost is `Last(stack)` when it is finalized.

**The GORM adapter.** `GormInv` relates three things that change at different steps: the log
of the connection, the stack, and the statuses of the scopes. `Standing` are the nested
scopes that have a savepoint, including one whose begin is about to be published, and
`Level` is the place that each has or will have on the stack; `StandingSound` says that
their savepoints are in the log, ordered as the levels, and that a write stands after a
savepoint exactly if it was made under that scope. That is what a rollback to a savepoint
needs in order to take back the right writes. `KeptSound` follows a write from then on: it is in
the log unless a scope around it has been `Undone`, which includes one that the database
has cut back and the UnitOfWork has not yet published. `LogSound` says that no entry is
there twice. Writes that raced are excepted in `StandingSound` and `KeptSound`, and
nowhere else. `GormSpec => ManagerSpec` comes with the same induction, since the adapter's
choices are allowed because a nested scope's transaction is open until the adapter ends it
(`NestedOpen`). Together with `ManagerWithinContract`, what is proved of the UnitOfWork and of
the executions holds over GORM.

**Requests.** `Served` relates what the layers hold to what their executions have done.
`Control` says where a request can be: only its own goroutine does anything (`Single`), a
layer writes to the nearest buffer around it (`WritersNest`), there are as many frames as
layers whose executions are running (`Opened`), and each `pc` goes with one stage of the
innermost frame (`Staged`); that is what ties the chain, which knows of layers, to
`ManagerInv`, which knows of frames. `Telling` follows the answer. On the way down nothing
ends (`Beginnings`). On the way up, as long as what is being returned is the handler's
success, everything that was begun has committed or belongs to an execution that is still
running (`SuccessTells`): each layer either commits its scope and passes the success on, or
answers something else. `RefusedEndsNothing` and `Deciding` carry through the finalization
why it answers what it does. `Preventing` and `Preserving` follow a status from the layer
that looked at it: the mark that it leaves (`ReasonGiven`) is there when the root's execution
decides, by `DoomIsSticky`, and the plan to roll back survives until the answer.
`Panicking` and `ClientWaits` follow a panic, which no layer turns into a commit, and the
outermost buffer, which is emptied only at the end. A step of a call that the request is
inside changes scopes in one of two ways (`ScopesMove`), so the UnitOfWork's own actions need
no case each; the layers' actions have one lemma each.

Each of these invariants was first an invariant of a TLC run on instances like those of
section 4.

**Binding.** Keys are unique (`KeysDistinct`, kept by `Register`). Under a selection the
candidates of one tenant that agree on adapter and client have the same key
(`CandidatesDiffer`), so several candidates differ in a name that was not selected, and
the choice is ambiguous before it comes to its last resort (`LastResortUnreached`). So
a resolution is a function of the set of registrations (`ResolvesBySet`): order does not
matter, and a selection of both names has at most one candidate per tenant, which a
further registration cannot displace. `BInv` adds what a call that has resolved still
knows when it acts (`CallsOK`): its registration is registered and its tenant's or
shared, its adapter can do what it will begin, its tenant is the UnitOfWork's (the second half of
`TenantIsolation`, which says that a later call with other selectors is refused or acts for
the same tenant), and, when the UnitOfWork was not bound
by fallback, it is the UnitOfWork's own (`SameNamesSameRegistration`: the names are
equal, the tenant has it registered, so the call cannot have fallen back). The last
part is what makes `BeginsWithinCapabilities` hold although the adapter that is asked is
not, in the code, the one that begins.

**Only model-checked.** Liveness (`CallsReturn`, `ContextEndsAll`, `ExecutionsReturn`,
`RequestAnswered`), which rests on fairness and so on `ENABLED`. Every invariant and every
other property of the passing runs is proved.

## 6. Where the code and its documents disagree

Each is a run that TLC ends with a counterexample.

- `UowLateMark`. The mark is read at `uow.go:486` and not again before the commit is
  published at `uow.go:506`. A mark made meanwhile, by a `BeforeCommit` interceptor
  for instance, is accepted, and the root commits. `specs/root.spec.md:950` says that
  a marked root must not successfully commit.
- `ManLateMark`. A mark between the decision of `finalizeRoot` (`manager.go:390`) and
  the check of the commit makes the commit fail as `ErrRollbackOnly`, which nobody
  follows with a rollback (`manager.go:416-421`): the root stays active.
  `specs/root.spec.md:951` says that finalization must roll back instead.
- `ManOpenScope`. A scope that the callback has left open makes both root
  finalizations a scope order violation, and the root stays active.
  `specs/root.spec.md:1092` says that the executor must finalize the scope that it
  created before it returns.
- `ManFailedNested`. After a failed nested rollback the root is already failed, and the
  executor's rollback of the root never reaches the database.
  `specs/root.spec.md:1105` says that it must be attempted.

- `BindingFallback`. A UnitOfWork that was bound for a tenant by fallback has the
  tenant's id and the shared registration. If the tenant then registers the same adapter
  and client names, the next `InTx` resolves to the tenant's registration, finds the
  names equal (`manager.go:270`, `582-586`), and begins the root on the shared client.
  `specs/root.spec.md:1054` says that a UnitOfWork that is bound to a conflicting
  resolved binding must be refused. `BeginsWithinCapabilities` excepts this case.

One line can be read against the code without a finding of its own. A failed rollback of a
nested scope at depth 2 or more marks that scope and the root failed and leaves the scopes in
between with the status active (`uow.go:605`, `failExecutionLocked`).
`specs/root.spec.md:930` says that a parent must not reach a terminal state while a nested
child is still active; `specs/root.spec.md:878` excepts full root failure handling, which
this is. `ScopesNest` and its theorem therefore except a failed root. The status is left over
and no more: every later call on it is refused, and `TerminalIsFinal`
shows that nothing changes such a scope or reaches the database any more.

Also seen, with no line in the documents to set against it: an `AfterBegin` that
panics leaves the new database transaction open and published nowhere
(`uow.go:297-303`); `NoOrphan` excepts it by name, and `ContextEndsAll` shows that over
`database/sql` the end of its context ends it. After a failed nested rollback a callback
that goes on writing writes to the client, outside of any transaction, since
`CurrentHandle` falls back to it (`uow.go:136-138`); `WritesAreInside` shows that this is
the only way. An HTTP response with a status that rolls back loses its body and headers
(`framework/http/config.go:103-104`), where Fiber's keeps them. In Fiber an error without
a code that `RollbackOnError` tolerates is judged by the status that the response has so
far (`framework/fiber/middleware.go:90`), so that a commit may stand behind the 500 that
Fiber makes of it; so may it when a finalize policy of the user's commits in spite of an
error whose status rolls back. `StatusPreventsCommit` excepts both. A Fiber layer whose
`RollbackOnStatus` names a success rolls back and sends the handler's body all the same
(`RollsBackSuccess` in `ReplyTellsCommit`), where HTTP drops the body. Where options may be downgraded, a
re-entrant call that repeats the very options of its root is refused when the root's
were downgraded (`uow.go:255`, compared with the stored options). `Config.Validate`
rejects a downgrade together with strict enforcement (`config.go:46`), but looks at the
normalized configuration, in which the downgrade has already turned enforcement off
(`config.go:62-65`), so that it never does.

## 7. What is not modelled, and why

- The normalization of a registration (`registry.go:66-97`) and of names: names are
  trimmed names. A tenant policy that answers an error ends the call.
- How `Binding` and `Manager` fit together is by argument, not by a composed module:
  `Binding` ends where an execution of `Manager` begins, and they share only the
  UnitOfWork, whose binding `Manager` does not read and whose outcome `Binding` does not.
- A database that fails to commit or to roll back and still keeps the transaction open
  over a live connection: `SqlAdapter` and `GormAdapter` take a driver's error to lose the
  transaction with the connection (`UnitOfWork`, and so the proofs, allow both).
- Custom error handlers of the middlewares, which may answer anything; streaming, flushing,
  hijacking and pushing through the recorder, which the documentation confines to layers
  that are switched off (`README.md:259-261`). A handler writes its response at once, and
  nothing but the handler and the layers writes.
- Fiber's user context, which a layer sets and does not restore
  (`framework/fiber/middleware.go:50`): within the chain it is the context of the innermost
  execution, and what runs on the request afterwards is not in the repository.
- Requests that share anything: each has a UnitOfWork of its own.
- Configuration builders: they copy values. Examples: they use the library.
- Labels, messages and metadata; `validateReentrantRoot` compares labels the way it
  compares options, but no property tells them apart.
