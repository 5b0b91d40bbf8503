------------------------------ MODULE GormProofs ------------------------------
(***************************************************************************)
(* The GORM adapter keeps to what manager.go expects of an adapter, and    *)
(* the database keeps exactly the writes of the scopes that committed: the *)
(* savepoints of the open scopes divide the log of the transaction as the  *)
(* stack of the UnitOfWork divides its work.                               *)
(***************************************************************************)
EXTENDS GormAdapter, ManagerProofs

-----------------------------------------------------------------------------
(* The log and the stack.                                                  *)

Logged(e) == e \in ToSet(log)

\* A savepoint whose scope is not published yet.
Pending(s) == \E g \in Goroutines :
  /\ op[g].pc = "publish" /\ op[g].kind = "beginNested" /\ op[g].mode = "physical"
  /\ op[g].scope = s

\* A nested scope that has a savepoint, and where it is or will be on the stack.
Standing(s) ==
  \/ OnStack(s) /\ scope[s].depth > 0 /\ ~Soft(s)
  \/ Pending(s)
Level(s) == IF scope[s].status = "none" THEN Len(stack) ELSE scope[s].depth

\* The database has ended a scope, or has undone it, that is still on the stack.
Ending(s) == \E g \in Goroutines :
  op[g].pc = "publish" /\ op[g].kind \in FinalizeKind /\ op[g].scope = s
Undoing(s) == \E g \in Goroutines :
  op[g].pc = "publish" /\ op[g].kind = "rollback" /\ op[g].attempt = {} /\ op[g].scope = s
Undone(s) ==
  scope[s].depth > 0 /\ ~Soft(s) /\ (scope[s].status = "rolledBack" \/ Undoing(s))

\* No entry is there twice, none is of a scope that has not begun, and what the
\* database keeps has been written.
LogSound ==
  /\ IsInjective(log)
  /\ \A s \in Scopes : Logged(Savepoint(s)) => backend[s] # "none"
  /\ \A s \in Scopes : Logged(Write(s)) => under[s] # {}
  /\ durable \subseteq Written

\* A write was made in a root.
UnderSound == \A s \in Scopes :
  /\ \A t \in under[s] : scope[t].status # "none"
  /\ under[s] # {} => \E r \in under[s] : scope[r].depth = 0

\* The transaction of an open nested scope is open until the adapter ends it.
NestedOpen == \A s \in Scopes : Standing(s) => backend[s] = "open" \/ Ending(s)

\* While the root is open in the database: the savepoints are in the order of
\* the stack, and a write comes after those that it was made under.
StandingSound ==
  stack # <<>> /\ backend[Root] = "open" =>
    \A s \in Scopes : Standing(s) =>
      /\ Logged(Savepoint(s))
      /\ \A t \in Scopes :
           Standing(t) /\ Level(s) < Level(t) => Place(Savepoint(s)) < Place(Savepoint(t))
      /\ \A t \in Scopes \ raced :
           Logged(Write(t)) => (s \in under[t] <=> Place(Savepoint(s)) < Place(Write(t)))

\* Until the root ends a write is in the log unless a scope around it has been
\* undone; when the root has committed those scopes have all ended.
KeptSound == \A s \in Scopes \ raced : \A r \in under[s] :
  scope[r].depth = 0 =>
    /\ backend[r] = "open" /\ rootStatus = "active" =>
         (Logged(Write(s)) <=> \A t \in under[s] : ~Undone(t))
    /\ backend[r] = "committed" =>
         \A t \in under[s] \ {r} : scope[t].status \in {"committed", "rolledBack"}

\* The inductive invariant, given that of the manager.
GormInv ==
  /\ GormTypeOK /\ LogSound /\ UnderSound /\ NestedOpen /\ StandingSound
  /\ KeptSound /\ KeepsExactly /\ WritesAreInside

\* A begin that fails leaves its scope unused.
FailedBegins == \A g \in Goroutines :
  op[g].pc = "after" /\ BeginFailed(op[g]) => scope[op[g].scope].status = "none"

Stored == Managed /\ FailedBegins /\ GormInv

-----------------------------------------------------------------------------
(* Logs.                                                                   *)

Entry == [kind : {"savepoint", "write"}, of : Scopes]

\* Where an entry is.
LEMMA PlaceFacts ==
  ASSUME NEW e, Logged(e), IsInjective(log)
  PROVE  /\ Place(e) \in DOMAIN log /\ log[Place(e)] = e
         /\ \A i \in DOMAIN log : log[i] = e => i = Place(e)
<1>1. \E i \in DOMAIN log : log[i] = e
  BY DEF Logged, ToSet
<1>2. Place(e) \in DOMAIN log /\ log[Place(e)] = e
  BY <1>1 DEF Place
<1> QED BY <1>2 DEF IsInjective

\* Two entries of a log are not at the same place.
LEMMA PlacesDiffer ==
  ASSUME log \in Seq(Entry), IsInjective(log), NEW e, NEW f, Logged(e), Logged(f), e # f
  PROVE  Place(e) \in Nat /\ Place(f) \in Nat /\ Place(e) # Place(f)
BY PlaceFacts

\* Where an entry is after a step.
LEMMA PlaceNext ==
  ASSUME NEW e, IsInjective(log)', NEW i \in DOMAIN log', log'[i] = e
  PROVE  Logged(e)' /\ Place(e)' = i
<1>1. Logged(e)'
  BY DEF Logged, ToSet
<1>2. Place(e)' \in DOMAIN log' /\ log'[Place(e)'] = e
  BY DEF Place
<1> QED BY <1>1, <1>2 DEF IsInjective

\* An entry that is new is appended.
LEMMA LogAppends ==
  ASSUME log \in Seq(Entry), IsInjective(log), NEW e \in Entry, ~Logged(e),
         log' = Append(log, e)
  PROVE  /\ log' \in Seq(Entry) /\ IsInjective(log)'
         /\ \A f : Logged(f)' <=> Logged(f) \/ f = e
         /\ \A f : Logged(f) => Place(f)' = Place(f) /\ Place(f) < Place(e)'
<1>1. /\ log' \in Seq(Entry) /\ DOMAIN log = 1 .. Len(log) /\ Len(log) \in Nat
      /\ DOMAIN log' = 1 .. Len(log) + 1 /\ log'[Len(log) + 1] = e
      /\ \A i \in 1 .. Len(log) : log'[i] = log[i]
  OBVIOUS
<1>2. \A i \in 1 .. Len(log) : log[i] # e
  BY <1>1 DEF Logged, ToSet
<1>3. IsInjective(log)'
  BY <1>1, <1>2 DEF IsInjective
<1>4. ASSUME NEW f PROVE Logged(f)' <=> Logged(f) \/ f = e
  <2>1. ASSUME Logged(f)' PROVE Logged(f) \/ f = e
    <3> PICK i \in DOMAIN log' : log'[i] = f
      BY <2>1 DEF Logged, ToSet
    <3> QED BY <1>1 DEF Logged, ToSet
  <2>2. ASSUME Logged(f) PROVE Logged(f)'
    <3> PICK i \in DOMAIN log : log[i] = f
      BY <2>2 DEF Logged, ToSet
    <3>1. i \in DOMAIN log' /\ log'[i] = f
      BY <1>1
    <3> QED BY <3>1 DEF Logged, ToSet
  <2>3. ASSUME f = e PROVE Logged(f)'
    <3>1. Len(log) + 1 \in DOMAIN log' /\ log'[Len(log) + 1] = f
      BY <1>1, <2>3
    <3> QED BY <3>1 DEF Logged, ToSet
  <2> QED BY <2>1, <2>2, <2>3
<1>5. Place(e)' = Len(log) + 1
  <2>1. Len(log) + 1 \in DOMAIN log'
    BY <1>1
  <2> QED BY <1>1, <1>3, <2>1, PlaceNext
<1>6. ASSUME NEW f, Logged(f) PROVE Place(f)' = Place(f) /\ Place(f) < Place(e)'
  <2>1. Place(f) \in DOMAIN log /\ log[Place(f)] = f
    BY <1>6, PlaceFacts
  <2>2. Place(f) \in DOMAIN log' /\ log'[Place(f)] = f
    BY <1>1, <2>1
  <2>3. Place(f)' = Place(f)
    BY <1>3, <2>2, PlaceNext
  <2> QED BY <1>1, <1>5, <2>1, <2>3
<1> QED BY <1>1, <1>3, <1>4, <1>6

\* ROLLBACK TO keeps what is not after the savepoint.
LEMMA LogCuts ==
  ASSUME log \in Seq(Entry), IsInjective(log), NEW s \in Scopes, Logged(Savepoint(s)),
         log' = BackTo(s)
  PROVE  /\ log' \in Seq(Entry) /\ IsInjective(log)'
         /\ \A f : Logged(f)' <=> Logged(f) /\ Place(f) <= Place(Savepoint(s))
         /\ \A f : Logged(f)' => Place(f)' = Place(f)
<1> PICK n : n = Place(Savepoint(s))
  OBVIOUS
<1>1. n \in DOMAIN log /\ n \in 1 .. Len(log) /\ Len(log) \in Nat
  BY PlaceFacts
<1>2. log' = SubSeq(log, 1, n)
  BY DEF BackTo
<1>3. /\ log' \in Seq(Entry) /\ Len(log') = n
      /\ \A i \in 1 .. n : log'[i] = log[i]
  <2>1. \A i \in 1 .. n : log[i] \in Entry
    BY <1>1
  <2>2. /\ SubSeq(log, 1, n) \in Seq(Entry)
        /\ Len(SubSeq(log, 1, n)) = IF 1 <= n THEN n - 1 + 1 ELSE 0
        /\ \A i \in 1 .. n - 1 + 1 : SubSeq(log, 1, n)[i] = log[1 + i - 1]
    BY <1>1, <2>1, SubSeqProperties
  <2>3. \A i \in 1 .. n : i \in 1 .. n - 1 + 1 /\ 1 + i - 1 = i
    BY <1>1
  <2> QED BY <1>1, <1>2, <2>2, <2>3
<1>4. DOMAIN log' = 1 .. n /\ DOMAIN log = 1 .. Len(log)
  BY <1>3
<1>5. IsInjective(log)'
  BY <1>1, <1>3, <1>4 DEF IsInjective
<1>6. ASSUME NEW f, Logged(f), Place(f) <= n PROVE Logged(f)' /\ Place(f)' = Place(f)
  <2>1. Place(f) \in DOMAIN log /\ log[Place(f)] = f
    BY <1>6, PlaceFacts
  <2>2. Place(f) \in DOMAIN log' /\ log'[Place(f)] = f
    BY <1>1, <1>3, <1>4, <1>6, <2>1
  <2> QED BY <1>5, <2>2, PlaceNext
<1>7. ASSUME NEW f, Logged(f)' PROVE Logged(f) /\ Place(f) <= n
  <2> PICK i \in DOMAIN log' : log'[i] = f
    BY <1>7 DEF Logged, ToSet
  <2>1. i \in DOMAIN log /\ log[i] = f /\ i <= n
    BY <1>1, <1>3, <1>4
  <2>2. Logged(f)
    BY <2>1 DEF Logged, ToSet
  <2> QED BY <2>1, <2>2, PlaceFacts
<1> QED BY <1>3, <1>5, <1>6, <1>7

-----------------------------------------------------------------------------
(* Steps that leave the data alone.                                        *)

\* The root is at the bottom of the stack, and there is only one.
LEMMA RootFacts ==
  ASSUME Managed, stack # <<>>
  PROVE  /\ Root \in Scopes /\ Root = stack[1] /\ rootStatus = "active"
         /\ scope[Root].status = "active" /\ scope[Root].depth = 0
         /\ \A r \in Scopes : scope[r].status # "none" /\ scope[r].depth = 0 => r = Root
<1>1. Root \in Scopes /\ Root = stack[1] /\ 1 \in DOMAIN stack
  BY LastFacts DEF Managed, Usual, IInv, TypeOK, Root
<1>2. scope[Root].status = "active" /\ scope[Root].depth = 0 /\ rootStatus = "active"
  BY <1>1 DEF Managed, Usual, IInv, ScopesNest
<1> QED BY <1>1, <1>2 DEF Managed, Usual, CallInv

\* A nested scope that has a savepoint is above an open root.
LEMMA StandingFacts ==
  ASSUME Managed, NEW s \in Scopes, Standing(s)
  PROVE  /\ stack # <<>> /\ rootStatus = "active"
         /\ Pending(s) <=> scope[s].status = "none"
<1>1. CASE OnStack(s)
  <2>1. scope[s].status = "active"
    BY <1>1 DEF Managed, Usual, IInv, ScopesNest, OnStack
  <2>2. ~Pending(s)
    BY <2>1 DEF Pending, Managed, Usual, IInv, BeginSound, BeginKind, Inside
  <2>3. stack # <<>>
    BY <1>1 DEF OnStack
  <2> QED BY <2>1, <2>2, <2>3, RootFacts
<1>2. CASE Pending(s)
  <2>1. scope[s].status = "none" /\ rootStatus = "active"
    BY <1>2 DEF Pending, Managed, Usual, IInv, BeginSound, BeginKind, Inside
  <2> QED BY <1>2, <2>1 DEF Managed, Usual, IInv, ScopesNest
<1> QED BY <1>1, <1>2 DEF Standing

\* What a write was made under has begun, and lasts.
LEMMA UnderLasts ==
  ASSUME Managed, UnderSound, Lasts, NEW s \in Scopes, NEW t \in Scopes, t \in under[s]
  PROVE  /\ scope[t].status # "none" /\ scope'[t].status # "none"
         /\ scope'[t].depth = scope[t].depth
         /\ scope[t].status \in {"committed", "rolledBack"} =>
              scope'[t].status = scope[t].status
BY DEF UnderSound, Lasts, Terminal

\* A step that leaves the data alone and brings nothing new to the stack but
\* what is about to be published, and by which nothing is done or undone.
LEMMA GormStill ==
  ASSUME Stored, [Next]_vars, UNCHANGED <<dataVars, backend>>,
         \A s \in Scopes : Standing(s)' =>
           /\ Standing(s) /\ Level(s)' = Level(s) /\ Root' = Root
           /\ Ending(s) => Ending(s)',
         rootStatus' = "active" =>
           \A s \in Scopes : scope[s].status # "none" => (Undone(s)' <=> Undone(s))
  PROVE  GormInv'
<1>0. /\ Managed /\ GormInv /\ Lasts
      /\ rootStatus' = "active" => rootStatus = "active" \/ \A s \in Scopes : scope[s].status = "none"
  BY NextLasts, FirstRoot DEF Stored, Managed, Usual, OutcomeInv
<1>1. GormTypeOK' /\ under \in [Scopes -> SUBSET Scopes]
  BY <1>0 DEF GormInv, GormTypeOK, dataVars
<1>2. \A e : (Logged(e)' <=> Logged(e)) /\ Place(e)' = Place(e)
  BY DEF Logged, Place, dataVars
<1>3. LogSound'
  <2>1. IsInjective(log)'
    BY <1>0 DEF GormInv, LogSound, IsInjective, dataVars
  <2> QED BY <1>0, <1>2, <2>1 DEF GormInv, LogSound, Written, dataVars
<1>4. UnderSound'
  BY <1>0, <1>1, UnderLasts DEF GormInv, UnderSound, dataVars
<1>5. NestedOpen'
  BY <1>0 DEF GormInv, NestedOpen
<1>6. StandingSound'
  <2> SUFFICES ASSUME NEW s \in Scopes, Standing(s)', (backend[Root] = "open")',
                      NEW t \in Scopes
               PROVE  /\ Logged(Savepoint(s))'
                      /\ Standing(t)' /\ (Level(s) < Level(t))' =>
                           (Place(Savepoint(s)) < Place(Savepoint(t)))'
                      /\ t \notin raced' /\ Logged(Write(t))' =>
                           (s \in under'[t] <=> (Place(Savepoint(s)) < Place(Write(t)))')
    BY DEF StandingSound
  <2>1. stack # <<>> /\ backend[Root] = "open" /\ Standing(s)
    BY <1>0, StandingFacts
  <2> QED BY <1>0, <1>2, <2>1 DEF GormInv, StandingSound, dataVars
<1>7. KeptSound'
  <2> SUFFICES ASSUME NEW s \in Scopes \ raced, NEW r \in under[s], scope'[r].depth = 0
               PROVE  /\ backend[r] = "open" /\ rootStatus' = "active" =>
                           (Logged(Write(s))' <=> \A t \in under[s] : ~Undone(t)')
                      /\ backend[r] = "committed" =>
                           \A t \in under[s] \ {r} : scope'[t].status \in {"committed", "rolledBack"}
    BY DEF KeptSound, dataVars
  <2>1. \A t \in under[s] : t \in Scopes
    BY <1>1
  <2>2. scope[r].depth = 0 /\ scope[r].status # "none"
    BY <1>0, <2>1, UnderLasts DEF GormInv
  <2>3. rootStatus' = "active" => rootStatus = "active" /\ \A t \in under[s] : Undone(t)' <=> Undone(t)
    BY <1>0, <2>1, <2>2, UnderLasts DEF GormInv
  <2>4. backend[r] = "committed" =>
          \A t \in under[s] \ {r} : scope'[t].status \in {"committed", "rolledBack"}
    BY <1>0, <2>1, <2>2, UnderLasts DEF GormInv, KeptSound
  <2> QED BY <1>0, <1>2, <2>2, <2>3, <2>4 DEF GormInv, KeptSound
<1>8. KeepsExactly'
  <2> SUFFICES ASSUME NEW s \in Scopes \ raced, under[s] # {}
               PROVE  s \in durable <=> \A t \in under[s] :
                        IF scope'[t].depth = 0 THEN backend[t] = "committed"
                                               ELSE scope'[t].status = "committed"
    BY DEF KeepsExactly, dataVars
  <2>1. \A t \in under[s] : t \in Scopes /\ scope'[t].depth = scope[t].depth
    BY <1>0, <1>1, UnderLasts DEF GormInv
  <2>2. PICK r \in under[s] : scope[r].depth = 0
    BY <1>0 DEF GormInv, UnderSound
  <2>3. s \in durable <=> \A t \in under[s] :
          IF scope[t].depth = 0 THEN backend[t] = "committed" ELSE scope[t].status = "committed"
    BY <1>0 DEF GormInv, KeepsExactly
  <2>4. CASE backend[r] = "committed"
    <3>1. \A t \in under[s] \ {r} : scope'[t].status = scope[t].status
      BY <1>0, <2>1, <2>2, <2>4, UnderLasts DEF GormInv, KeptSound
    <3> QED BY <2>1, <2>2, <2>3, <2>4, <3>1
  <2> QED BY <2>1, <2>2, <2>3, <2>4
<1>9. WritesAreInside'
  BY <1>0 DEF GormInv, WritesAreInside, Lasts, dataVars
<1> QED BY <1>1, <1>3, <1>4, <1>5, <1>6, <1>7, <1>8, <1>9 DEF GormInv

\* So does a step that publishes nothing and is not about to undo anything.
LEMMA QuietStill ==
  ASSUME Stored, [Next]_vars, NEW g \in Goroutines,
         UNCHANGED <<rootStatus, stack, scope, backend, dataVars>>, OthersKept(g),
         op'[g] = op[g] \/ op[g].pc # "publish" \/ op[g].kind \in BeginKind,
         op'[g] = op[g] \/ op'[g].pc # "publish" \/
           /\ op'[g].kind = "beginNested" => op'[g].mode # "physical"
           /\ op'[g].kind = "rollback" /\ op'[g].attempt = {} =>
                \A s \in Scopes : s = op'[g].scope => Soft(s) \/ scope[s].depth = 0
  PROVE  GormInv'
<1>1. \A s \in Scopes : /\ OnStack(s)' <=> OnStack(s)
                        /\ Soft(s)' <=> Soft(s)
                        /\ Level(s)' = Level(s)
  BY DEF OnStack, Soft, Level
<1>2. Root' = Root
  BY DEF Root
<1>3. \A s \in Scopes : Pending(s)' => Pending(s)
  BY DEF Pending, OthersKept
<1>4. \A s \in Scopes : Ending(s) => Ending(s)'
  BY DEF Ending, OthersKept, FinalizeKind, BeginKind
<1>5. ASSUME NEW s \in Scopes PROVE Undone(s)' <=> Undone(s)
  <2>1. Undoing(s) => Undoing(s)'
    BY DEF Undoing, OthersKept, BeginKind
  <2>2. Undoing(s)' => Undoing(s) \/ Soft(s) \/ scope[s].depth = 0
    BY DEF Undoing, OthersKept
  <2>3. scope[s].depth = 0 => ~(scope[s].depth > 0)
    OBVIOUS
  <2> QED BY <1>1, <2>1, <2>2, <2>3 DEF Undone
<1>6. \A s \in Scopes : Standing(s)' => Standing(s)
  BY <1>1, <1>3 DEF Standing
<1> QED BY <1>1, <1>2, <1>4, <1>5, <1>6, GormStill

\* So does a step that changes at most the mark and the context.
LEMMA SameStill ==
  ASSUME Stored, [Next]_vars, UNCHANGED <<rootStatus, stack, scope, op, backend, dataVars>>
  PROVE  GormInv'
<1>1. \A s \in Scopes : /\ Standing(s)' <=> Standing(s)
                        /\ Level(s)' = Level(s)
                        /\ Ending(s)' <=> Ending(s)
                        /\ Undone(s)' <=> Undone(s)
  BY DEF Standing, Level, Ending, Undone, Undoing, Pending, OnStack, Soft
<1>2. Root' = Root
  BY DEF Root
<1> QED BY <1>1, <1>2, GormStill

\* Callers, interceptors and the marks.
LEMMA CallersStill ==
  ASSUME Stored, NEW g \in Goroutines, UNCHANGED dataVars,
         \/ CallAny(g) \/ Return(g) \/ Enter(g)
         \/ RunBefore(g) \/ Finish(g) \/ Compensate(g) \/ CallbackPanic(g)
  PROVE  GormInv'
<1>0. IInv /\ Aware(g) /\ [Next]_vars
  BY DEF Stored, Managed, Usual, OutcomeInv, Known, Next, Step, Progress
<1>1. CASE CallAny(g) \/ Return(g)
  <2>1. StateKept /\ OthersKept(g) /\ op[g].pc # "publish" /\ op'[g].pc # "publish"
    BY <1>0, <1>1, OutsideStep DEF IInv, Idle
  <2> QED BY <1>0, <2>1, QuietStill DEF StateKept
<1>2. CASE Enter(g)
  <2>1. StateKept /\ OthersKept(g) /\ op[g].pc # "publish" /\ op'[g].pc # "publish"
    BY <1>0, <1>2, EnterStep
  <2> QED BY <1>0, <2>1, QuietStill DEF StateKept
<1>3. CASE RunBefore(g) \/ Finish(g) \/ Compensate(g) \/ CallbackPanic(g)
  <2>1. /\ StateKept /\ OthersKept(g) /\ op'[g].mode = op[g].mode
        /\ op[g].pc = "publish" => op[g].kind \in BeginKind
        /\ op'[g].pc = "publish" =>
             /\ op[g].pc = "before" /\ op[g].mode # "physical"
             /\ op'[g].kind = op[g].kind /\ op'[g].scope = op[g].scope
    BY <1>0, <1>3, InnerStep
  <2>2. op[g].pc = "before" /\ op[g].kind = "rollback" => op[g].mode = scope[op[g].scope].mode
    BY <1>0 DEF IInv, FinalizeSound, FinalizeKind, Inside
  <2>3. op'[g].pc = "publish" /\ op'[g].kind = "rollback" => Soft(op[g].scope)
    BY <2>1, <2>2 DEF Soft
  <2> QED BY <1>0, <2>1, <2>3, QuietStill DEF StateKept
<1> QED BY <1>1, <1>2, <1>3

\* A publication puts a scope that was pending on the stack, or takes the top
\* off it.
LEMMA PublishStill ==
  ASSUME Stored, NEW g \in Goroutines, UNCHANGED dataVars, Publish(g)
  PROVE  GormInv'
<1> PICK s : s = op[g].scope
  OBVIOUS
<1>0. IInv /\ Managed /\ [Next]_vars
  BY DEF Stored, Managed, Usual, Next, Step, Progress
<1>1. IInv'
  BY <1>0, NextIInv
<1>2. /\ UNCHANGED backend /\ op[g].pc = "publish" /\ op'[g].pc = "after" /\ s \in Scopes
      /\ \A h \in Goroutines \ {g} : op'[h] = op[h] /\ op[h].pc # "publish"
      /\ op'[g].kind = op[g].kind /\ op'[g].scope = s
  BY <1>0, PublishStep, Alone DEF Inside, OthersKept
<1>3. /\ \A t \in Scopes : ~Pending(t)' /\ ~Ending(t)' /\ ~Undoing(t)'
      /\ \A t \in Scopes \ {s} : ~Pending(t) /\ ~Ending(t) /\ ~Undoing(t)
  BY <1>2 DEF Pending, Ending, Undoing
<1>4. CASE PublishBeginRoot(g)
  <2>1. \A t \in Scopes : scope[t].status = "none"
    BY <1>0, <1>4, PublishStep DEF PublishBeginRoot, PublishBeginNested, PublishCommit,
       PublishRollback, IInv, Doomed
  <2>2. stack' = <<s>> /\ scope'[s].depth = 0
    BY <1>0, <1>4, PublishedBegin DEF PublishBeginRoot
  <2>3. \A t \in Scopes : OnStack(t)' => t = s
    BY <2>2 DEF OnStack
  <2>4. \A t \in Scopes : ~Standing(t)'
    BY <1>3, <2>2, <2>3 DEF Standing
  <2> QED BY <1>0, <1>2, <2>1, <2>4, GormStill
<1>5. CASE PublishBeginNested(g)
  <2>1. /\ op[g].kind = "beginNested" /\ stack' = Append(stack, s)
        /\ scope[s].status = "none" /\ scope'[s].status = "active"
        /\ scope'[s].mode = op[g].mode /\ scope'[s].depth = Len(stack) /\ Len(stack) > 0
        /\ \A t \in Scopes \ {s} : scope'[t] = scope[t]
    BY <1>0, <1>5, PublishedBegin DEF PublishBeginNested
  <2>2. stack # <<>> /\ stack \in Seq(Scopes)
    BY <1>0, <2>1 DEF IInv, TypeOK
  <2>3. Root' = Root
    BY <1>2, <2>1, <2>2, LastFacts DEF Root
  <2>4. \A t \in Scopes \ {s} : OnStack(t)' => OnStack(t)
    BY <1>2, <2>1, <2>2 DEF OnStack
  <2>5. ~Ending(s) /\ ~Undoing(s)
    BY <1>2, <2>1 DEF Ending, Undoing, FinalizeKind
  <2>6. ASSUME NEW t \in Scopes, Standing(t)'
        PROVE  Standing(t) /\ Level(t)' = Level(t) /\ ~Ending(t)
    <3>1. CASE t = s
      <4>1. op[g].mode = "physical"
        BY <1>3, <2>1, <2>6, <3>1 DEF Standing, Soft
      <4>2. Pending(t)
        BY <1>2, <2>1, <3>1, <4>1 DEF Pending
      <4> QED BY <2>1, <2>5, <3>1, <4>2 DEF Standing, Level
    <3>2. CASE t # s
      <4>1. OnStack(t) /\ scope'[t] = scope[t] /\ scope[t].status # "none"
        <5>1. OnStack(t)
          BY <1>3, <2>4, <2>6, <3>2 DEF Standing
        <5> QED BY <1>0, <2>1, <3>2, <5>1 DEF OnStack, IInv, ScopesNest
      <4> QED BY <1>3, <2>6, <3>2, <4>1 DEF Standing, Level, Soft
    <3> QED BY <3>1, <3>2
  <2>7. \A t \in Scopes : scope[t].status # "none" => (Undone(t)' <=> Undone(t))
    BY <1>3, <2>1, <2>5 DEF Undone, Soft
  <2> QED BY <1>0, <1>2, <2>3, <2>6, <2>7, GormStill
<1>6. CASE PublishCommit(g) \/ PublishRollback(g)
  <2>1. /\ op[g].kind \in FinalizeKind /\ scope[s].status = "active"
        /\ \A t \in Scopes : scope'[t].mode = scope[t].mode /\ scope'[t].depth = scope[t].depth
        /\ scope'[s].status # "active"
        /\ stack # <<>> /\ stack \in Seq(Scopes)
    BY <1>0, <1>2, <1>6, PublishedEnd DEF PublishCommit, PublishRollback, FinalizeKind,
       OnStack, IInv, TypeOK
  <2>2. stack' = <<>> \/ stack' = Front(stack)
    BY <1>6 DEF PublishCommit, PublishRollback, finishRootLocked, finishNestedLocked,
       failExecutionLocked
  <2>3. ASSUME NEW t \in Scopes, Standing(t)'
        PROVE  Standing(t) /\ Level(t)' = Level(t) /\ ~Ending(t) /\ Root' = Root
    <3>1. OnStack(t)' /\ stack' # <<>>
      BY <1>3, <2>3 DEF Standing, OnStack
    <3>2. scope'[t].status = "active" /\ t # s
      BY <1>1, <2>1, <3>1 DEF IInv, ScopesNest, OnStack
    <3>3. stack' = Front(stack) /\ Len(stack') = Len(stack) - 1 /\ Len(stack) \in Nat \ {0}
          /\ stack' \in Seq(Scopes)
          /\ \A i \in 1 .. Len(stack) - 1 : stack'[i] = stack[i]
      BY <2>1, <2>2, <3>1, FrontFacts, LastFacts
    <3>4. Len(stack') > 0
      BY <3>1, <3>3
    <3>5. Root' = Root
      <4>1. Root = stack[1]
        BY <2>1, LastFacts DEF Root
      <4>2. Root' = stack'[1]
        BY <3>1, <3>3, LastFacts DEF Root
      <4> QED BY <3>3, <3>4, <4>1, <4>2
    <3>6. OnStack(t)
      <4> PICK i \in DOMAIN stack' : stack'[i] = t
        BY <3>1 DEF OnStack
      <4>1. i \in 1 .. Len(stack) - 1 /\ i \in DOMAIN stack
        BY <2>1, <3>3
      <4> QED BY <3>3, <4>1 DEF OnStack
    <3>7. scope[t].status = "active"
      BY <1>0, <3>6 DEF IInv, ScopesNest, OnStack
    <3> QED BY <1>3, <2>1, <2>3, <3>2, <3>5, <3>6, <3>7 DEF Standing, Level, Soft
  <2>4. ASSUME rootStatus' = "active", NEW t \in Scopes PROVE Undone(t)' <=> Undone(t)
    <3>1. op[g].kind = "commit" \/ op[g].attempt = {}
      BY <1>0, <1>6, <2>4, PublishedEnd
    <3>2. CASE t # s
      <4>1. scope'[t] = scope[t]
        BY <1>0, <1>6, <2>4, <3>2, PublishedEnd
      <4> QED BY <1>3, <3>2, <4>1 DEF Undone, Soft
    <3>3. CASE t = s /\ op[g].kind = "commit"
      <4>1. scope'[s].status = "committed" /\ ~Undoing(s)
        BY <1>0, <1>2, <1>6, <3>3, PublishedEnd DEF Undoing
      <4> QED BY <1>3, <2>1, <3>3, <4>1 DEF Undone
    <3>4. CASE t = s /\ op[g].kind = "rollback"
      <4>1. scope'[s].status = "rolledBack" /\ Undoing(s)
        BY <1>0, <1>2, <1>6, <3>1, <3>4, PublishedEnd DEF Undoing
      <4> QED BY <2>1, <3>4, <4>1 DEF Undone, Soft
    <3> QED BY <2>1, <3>2, <3>3, <3>4 DEF FinalizeKind
  <2> QED BY <1>0, <1>2, <2>3, <2>4, GormStill
<1> QED BY <1>4, <1>5, <1>6 DEF Publish


\* The executor touches no data either, nor do the calls that it makes.
LEMMA ExecutorStill ==
  ASSUME Stored, NEW g \in Goroutines, UNCHANGED dataVars,
         Execute(g) \/ ManualCall(g) \/ ManualReturn(g)
  PROVE  GormInv'
<1>0. Managed /\ [Next]_vars
  BY ManagerNextAllowed DEF Stored, ManagerNext
<1>1. ASSUME UNCHANGED <<rootStatus, stack, scope, op, backend>> PROVE GormInv'
  BY <1>0, <1>1, SameStill
<1>2. CASE Ask(g) \/ DecideRoot(g)
  BY <1>1, <1>2 DEF Ask, DecideRoot
<1>3. CASE DecideNested(g)
  BY <1>1, <1>3 DEF DecideNested, vars, state
<1>4. CASE Began(g) \/ EndExecution(g) \/ ManualReturn(g)
  BY <1>4, CallersStill DEF Began, EndExecution, ManualReturn
<1>5. CASE BeginExecution(g)
  BY <1>5, CallersStill DEF BeginExecution, CallAny, Kind, BeginKind
<1>6. CASE FinalizeExecution(g)
  BY <1>0, <1>6, CallersStill, FinalizeAllowed
<1>7. CASE ManualCall(g)
  <2>1. manual \subseteq Handles
    BY <1>0 DEF Managed, ManagerInv
  <2> QED BY <1>7, <2>1, CallersStill DEF ManualCall, CallAny, CallScope, BeginKind
<1> QED BY <1>2, <1>3, <1>4, <1>5, <1>6, <1>7 DEF Execute

-----------------------------------------------------------------------------
(* Each call of this adapter is one that the manager expects.              *)

\* A commit or a rollback that reaches the adapter is of the top of the stack,
\* and of a transaction that nobody is ending.
LEMMA CalledScope ==
  ASSUME Stored, NEW g \in Goroutines, op[g].pc = "adapter", op[g].kind \in FinalizeKind
  PROVE  LET s == op[g].scope IN
         /\ s \in Scopes /\ stack # <<>> /\ Last(stack) = s /\ OnStack(s)
         /\ scope[s].status = "active" /\ ~Soft(s) /\ scope[s].depth = Len(stack) - 1
         /\ scope[s].depth \in Nat /\ rootStatus = "active" /\ Len(stack) \in Nat \ {0}
         /\ scope[s].depth = 0 => s = Root
         /\ scope[s].depth > 0 => Standing(s) /\ backend[s] = "open" /\ s # Root
<1> DEFINE s == op[g].scope
<1>0. IInv /\ Managed /\ GormInv
  BY DEF Stored, Managed, Usual
<1>1. stack # <<>> /\ Last(stack) = s /\ op[g].mode = scope[s].mode
  BY <1>0 DEF IInv, FinalizeSound, Inside
<1>2. /\ s \in Scopes /\ scope[s].status = "active" /\ rootStatus = "active"
      /\ scope[s].depth = Len(stack) - 1 /\ Len(stack) \in Nat \ {0} /\ stack[Len(stack)] = s
      /\ Root = stack[1]
  BY <1>0, <1>1, TopOfStack
<1>3. ~Soft(s)
  BY <1>0, <1>1 DEF Managed, Usual, OutcomeInv, Placed, InPlace, Soft
<1>4. OnStack(s)
  BY <1>2 DEF OnStack
<1>5. scope[s].depth \in Nat
  BY <1>0, <1>2 DEF IInv, TypeOK, ScopeState
<1>6. scope[s].depth = 0 => s = Root
  <2>1. scope[s].depth = 0 => Len(stack) = 1
    <3>1. 1 \in Nat \ {0} /\ 1 <= Len(stack) /\ Len(stack) \in Nat
      BY <1>2
    <3> QED BY <1>2, <3>1, LastScope
  <2> QED BY <1>2, <2>1
<1>7. scope[Root].depth = 0
  BY <1>0, <1>1, RootFacts
<1>8. ~Ending(s)
  BY <1>0, Alone DEF Ending, Inside
<1>9. scope[s].depth > 0 => Standing(s) /\ backend[s] = "open"
  BY <1>0, <1>2, <1>3, <1>4, <1>8 DEF Standing, GormInv, NestedOpen
<1> QED BY <1>1, <1>2, <1>3, <1>4, <1>5, <1>6, <1>7, <1>9

\* What this adapter answers, UnitOfWork allows.
LEMMA GormCallAllowed ==
  ASSUME Stored, NEW g \in Goroutines, GormCall(g) PROVE Adapter(g)
<1>1. CASE GormBegin(g)
  BY <1>1 DEF GormBegin, Adapter, AdapterBegin
<1>2. CASE GormBeginNested(g)
  BY <1>2 DEF GormBeginNested, Adapter, AdapterBeginNested
<1>3. CASE GormCommit(g)
  <2>1. op[g].pc = "adapter" /\ op[g].kind = "commit" /\ op[g].kind \in FinalizeKind
    BY <1>3 DEF GormCommit, Calling, FinalizeKind
  <2>2. scope[op[g].scope].depth > 0 => backend[op[g].scope] = "open"
    BY <2>1, CalledScope
  <2> QED BY <1>3, <2>2 DEF GormCommit, Adapter, AdapterCommit, AfterFailure
<1>4. CASE GormRollback(g)
  <2>1. op[g].pc = "adapter" /\ op[g].kind = "rollback" /\ op[g].kind \in FinalizeKind
    BY <1>4 DEF GormRollback, Calling, FinalizeKind
  <2>2. /\ scope[op[g].scope].depth > 0 => backend[op[g].scope] = "open"
        /\ scope[op[g].scope].depth = 0 => op[g].scope = Root
    BY <2>1, CalledScope
  <2>3. RollbackAnswers(g) \subseteq {{}, {"AdapterError"}}
    BY DEF RollbackAnswers
  <2> QED BY <1>4, <2>2, <2>3 DEF GormRollback, Adapter, AdapterRollback, AfterFailure
<1> QED BY <1>1, <1>2, <1>3, <1>4 DEF GormCall

\* So every step is one of managed executions over any adapter.
LEMMA GormNextAllowed == Stored /\ [GormNext]_gormVars => [ManagerNext]_managerVars
<1> SUFFICES ASSUME Stored, GormNext PROVE [ManagerNext]_managerVars
  BY DEF gormVars
<1>1. ASSUME NEW g \in Goroutines, GormCall(g), UNCHANGED <<frames, manual>> PROVE ManagerNext
  BY <1>1, GormCallAllowed DEF ManagerNext, Step, Progress
<1>2. CASE GormAborts /\ UNCHANGED <<frames, manual>>
  BY <1>2 DEF GormAborts, ManagerNext, Environment
<1>3. ASSUME NEW g \in Goroutines, WriteAny(g) PROVE [ManagerNext]_managerVars
  <2>1. CASE Cancelled
    BY <1>3, <2>1 DEF WriteAny, Query, Environment, ManagerNext
  <2>2. CASE ~Cancelled
    <3>1. rollbackOnly \in BOOLEAN
      BY DEF Stored, Managed, Usual, IInv, TypeOK
    <3>2. rollbackOnly' = (rollbackOnly \/ FALSE) /\ rollbackReason' = rollbackReason
      BY <1>3, <2>2 DEF WriteAny, markCancelledIfNeeded, MarkedOnly, MarkedReason
    <3>3. UNCHANGED <<rollbackOnly, rollbackReason>>
      BY <3>1, <3>2
    <3> QED BY <1>3, <3>3 DEF WriteAny, managerVars, vars, state
  <2> QED BY <2>1, <2>2
<1>4. CASE PlainEnvironment /\ UNCHANGED <<frames, manual>>
  BY <1>4 DEF PlainEnvironment, Environment, ManagerNext
<1>5. ASSUME NEW g \in Goroutines, Plain(g), UNCHANGED <<frames, manual>> PROVE ManagerNext
  BY <1>5 DEF Plain, Step, Progress, ManagerNext
<1>6. ASSUME NEW g \in Goroutines, Execute(g) \/ ManualCall(g) \/ ManualReturn(g)
      PROVE  ManagerNext
  BY <1>6 DEF ManagerNext
<1> QED BY <1>1, <1>2, <1>3, <1>4, <1>5, <1>6 DEF GormNext


-----------------------------------------------------------------------------
(* The calls of the adapter.                                               *)

\* Every step leaves the scopes of failing begins unused.
LEMMA NextFailed == Stored /\ [Next]_vars => FailedBegins'
<1> SUFFICES ASSUME Stored, [Next]_vars, NEW h \in Goroutines,
                    op'[h].pc = "after", BeginFailed(op'[h])
             PROVE  scope'[op'[h].scope].status = "none"
  BY DEF FailedBegins, BeginFailed
<1>0. IInv /\ Managed /\ FailedBegins
  BY DEF Stored, Managed, Usual
<1>1. ASSUME op'[h] = op[h], UNCHANGED scope PROVE scope'[op'[h].scope].status = "none"
  BY <1>0, <1>1 DEF FailedBegins
<1>2. CASE Environment \/ UNCHANGED vars
  BY <1>0, <1>1, <1>2, EnvironmentStep DEF vars, state
<1>3. ASSUME NEW g \in Goroutines, CallAny(g) \/ Return(g) \/ Enter(g)
      PROVE  scope'[op'[h].scope].status = "none"
  <2>1. OthersKept(g) /\ UNCHANGED scope /\ op'[g].pc # "after"
    BY <1>0, <1>3, OutsideStep, EnterStep DEF StateKept, IInv, Idle
  <2> QED BY <1>1, <2>1 DEF OthersKept
<1>4. ASSUME NEW g \in Goroutines, RunBefore(g) \/ Finish(g) \/ Compensate(g) \/ CallbackPanic(g)
      PROVE  scope'[op'[h].scope].status = "none"
  <2>1. /\ OthersKept(g) /\ UNCHANGED scope
        /\ op'[g].pc = "after" => /\ op[g].pc = "before" /\ op'[g].kind = op[g].kind
                                  /\ op'[g].scope = op[g].scope
    BY <1>0, <1>4, InnerStep DEF StateKept
  <2>2. op[g].pc = "before" /\ op[g].kind \in BeginKind => scope[op[g].scope].status = "none"
    BY <1>0 DEF IInv, BeginSound, Inside
  <2> QED BY <1>1, <2>1, <2>2 DEF OthersKept, BeginFailed
<1>5. ASSUME NEW g \in Goroutines, Adapter(g) PROVE scope'[op'[h].scope].status = "none"
  <2>1. OthersKept(g) /\ UNCHANGED scope /\ op[g].pc = "adapter" /\ op'[g].kind = op[g].kind
        /\ op'[g].scope = op[g].scope
    BY <1>0, <1>5, AdapterStep
  <2>2. op[g].kind \in BeginKind => scope[op[g].scope].status = "none"
    BY <1>0, <2>1 DEF IInv, BeginSound, Inside
  <2> QED BY <1>1, <2>1, <2>2 DEF OthersKept, BeginFailed
<1>6. ASSUME NEW g \in Goroutines, Publish(g) PROVE scope'[op'[h].scope].status = "none"
  <2>1. OthersKept(g) /\ op[g].pc = "publish" /\ op'[g].kind = op[g].kind
        /\ op'[g].before = op[g].before /\ op'[g].attempt = op[g].attempt
        /\ \A k \in Goroutines \ {g} : op[k].pc # "after"
    BY <1>0, <1>6, PublishStep, Alone DEF Inside
  <2>2. op[g].kind \in BeginKind => op[g].before = {} /\ op[g].attempt = {}
    BY <1>0, <2>1 DEF Managed, Usual, OutcomeInv, Known, Aware, ErrorsGiven, BeginKind
  <2> QED BY <2>1, <2>2 DEF OthersKept, BeginFailed
<1> QED BY <1>2, <1>3, <1>4, <1>5, <1>6 DEF Next, Step, Progress

\* While a call is at the adapter nothing is pending, and after it at most its
\* own scope is.
LEMMA CallKeeps ==
  ASSUME Stored, NEW g \in Goroutines, Adapter(g)
  PROVE  /\ UNCHANGED <<rootStatus, stack, scope>> /\ [Next]_vars /\ Root' = Root
         /\ OthersKept(g) /\ op[g].pc = "adapter" /\ op[g].mode = "physical"
         /\ op'[g].kind = op[g].kind /\ op'[g].scope = op[g].scope /\ op'[g].mode = op[g].mode
         /\ op[g].scope \in Scopes
         /\ \A t \in Scopes \ {op[g].scope} : backend'[t] = backend[t]
         /\ \A t \in Scopes :
              /\ ~Pending(t) /\ ~Ending(t) /\ ~Undoing(t)
              /\ OnStack(t)' <=> OnStack(t)
              /\ Soft(t)' <=> Soft(t)
              /\ Level(t)' = Level(t)
              /\ Standing(t) <=> OnStack(t) /\ scope[t].depth > 0 /\ ~Soft(t)
              /\ Pending(t)' <=> /\ t = op[g].scope /\ op'[g].pc = "publish"
                                 /\ op[g].kind = "beginNested"
              /\ Ending(t)' <=> /\ t = op[g].scope /\ op'[g].pc = "publish"
                                /\ op[g].kind \in FinalizeKind
              /\ Undoing(t)' <=> /\ t = op[g].scope /\ op'[g].pc = "publish"
                                 /\ op[g].kind = "rollback" /\ op'[g].attempt = {}
<1>0. IInv
  BY DEF Stored, Managed, Usual
<1>1. /\ UNCHANGED <<rootStatus, stack, scope>>
      /\ OthersKept(g) /\ op[g].pc = "adapter" /\ op[g].scope \in Scopes
      /\ op'[g].kind = op[g].kind /\ op'[g].scope = op[g].scope /\ op'[g].mode = op[g].mode
      /\ \A t \in Scopes \ {op[g].scope} : backend'[t] = backend[t]
  BY <1>0, AdapterStep
<1>2. op[g].mode = "physical"
  BY <1>1 DEF Stored, Managed, Usual, OutcomeInv, Placed, InPlace
<1>3. \A h \in Goroutines \ {g} : op'[h] = op[h] /\ op[h].pc # "publish"
  BY <1>0, <1>1, Alone DEF Inside, OthersKept
<1>4. [Next]_vars
  BY DEF Next, Step, Progress
<1>5. ASSUME NEW t \in Scopes
      PROVE  /\ ~Pending(t) /\ ~Ending(t) /\ ~Undoing(t)
             /\ Pending(t)' <=> /\ t = op[g].scope /\ op'[g].pc = "publish"
                                /\ op[g].kind = "beginNested"
             /\ Ending(t)' <=> /\ t = op[g].scope /\ op'[g].pc = "publish"
                               /\ op[g].kind \in FinalizeKind
             /\ Undoing(t)' <=> /\ t = op[g].scope /\ op'[g].pc = "publish"
                                /\ op[g].kind = "rollback" /\ op'[g].attempt = {}
  <2>1. ~Pending(t) /\ ~Ending(t) /\ ~Undoing(t)
    BY <1>1, <1>3 DEF Pending, Ending, Undoing
  <2>2. Pending(t)' <=> /\ t = op[g].scope /\ op'[g].pc = "publish"
                        /\ op[g].kind = "beginNested"
    BY <1>1, <1>2, <1>3 DEF Pending
  <2>3. Ending(t)' <=> /\ t = op[g].scope /\ op'[g].pc = "publish"
                       /\ op[g].kind \in FinalizeKind
    BY <1>1, <1>3 DEF Ending
  <2>4. Undoing(t)' <=> /\ t = op[g].scope /\ op'[g].pc = "publish"
                        /\ op[g].kind = "rollback" /\ op'[g].attempt = {}
    BY <1>1, <1>3 DEF Undoing
  <2> QED BY <2>1, <2>2, <2>3, <2>4
<1>6. ASSUME NEW t \in Scopes
      PROVE  /\ OnStack(t)' <=> OnStack(t)
             /\ Soft(t)' <=> Soft(t)
             /\ Level(t)' = Level(t)
             /\ Root' = Root
  BY <1>1 DEF OnStack, Soft, Level, Root
<1>6a. Root' = Root
  BY <1>1 DEF Root
<1>7. \A t \in Scopes : Standing(t) <=> OnStack(t) /\ scope[t].depth > 0 /\ ~Soft(t)
  BY <1>5 DEF Standing
<1> QED BY <1>1, <1>2, <1>4, <1>5, <1>6, <1>6a, <1>7


\* A step of the database that the open transaction of the root survives.
LEMMA BackendStill ==
  ASSUME Stored, UNCHANGED <<rootStatus, stack, scope, dataVars>>,
         \A t \in Scopes : /\ backend'[t] = "none" => backend[t] = "none"
                           /\ scope[t].status # "none" /\ scope[t].depth = 0 =>
                                backend'[t] = backend[t]
                           /\ Standing(t)' =>
                                /\ Standing(t)
                                /\ backend'[t] = "open" \/ Ending(t)'
                           /\ Undone(t)' <=> Undone(t)
  PROVE  GormInv'
<1>0. Managed /\ GormInv
  BY DEF Stored
<1>1. /\ \A e : (Logged(e)' <=> Logged(e)) /\ Place(e)' = Place(e)
      /\ \A t \in Scopes : Level(t)' = Level(t)
      /\ Root' = Root
  BY DEF Logged, Place, Level, Root, dataVars
<1>2. GormTypeOK' /\ under \in [Scopes -> SUBSET Scopes]
  BY <1>0 DEF GormInv, GormTypeOK, dataVars
<1>3. LogSound'
  <2>1. IsInjective(log)'
    BY <1>0 DEF GormInv, LogSound, IsInjective, dataVars
  <2> QED BY <1>0, <1>1, <2>1 DEF GormInv, LogSound, Written, dataVars
<1>4. UnderSound' /\ WritesAreInside'
  BY <1>0 DEF GormInv, UnderSound, WritesAreInside, dataVars
<1>5. NestedOpen'
  BY DEF NestedOpen
<1>6. StandingSound'
  <2> SUFFICES ASSUME stack # <<>>, backend'[Root] = "open", NEW s \in Scopes, Standing(s)',
                      NEW t \in Scopes
               PROVE  /\ Logged(Savepoint(s))
                      /\ Standing(t)' /\ Level(s) < Level(t) =>
                           Place(Savepoint(s)) < Place(Savepoint(t))
                      /\ t \notin raced /\ Logged(Write(t)) =>
                           (s \in under[t] <=> Place(Savepoint(s)) < Place(Write(t)))
    BY <1>1 DEF StandingSound, dataVars
  <2>1. backend[Root] = "open"
    BY <1>0, RootFacts
  <2> QED BY <1>0, <2>1 DEF GormInv, StandingSound
<1>7. \A s \in Scopes : \A t \in under[s] : t \in Scopes /\ scope[t].status # "none"
  BY <1>0, <1>2 DEF GormInv, UnderSound
<1>8. KeptSound'
  BY <1>0, <1>1, <1>7 DEF GormInv, KeptSound, dataVars
<1>9. KeepsExactly'
  BY <1>0, <1>7 DEF GormInv, KeepsExactly, dataVars
<1> QED BY <1>2, <1>3, <1>4, <1>5, <1>6, <1>8, <1>9 DEF GormInv

\* The end of a transaction: the log is gone, and what the database keeps is
\* what has committed.
LEMMA EndKeeps ==
  ASSUME Stored, UNCHANGED <<rootStatus, stack, scope, under, raced, outside>>,
         log' = <<>>, durable' \subseteq Written,
         \A t \in Scopes : /\ scope[t].status # "none" /\ scope[t].depth = 0 => backend'[t] # "open"
                           /\ Standing(t)' => backend'[t] = "open" \/ Ending(t)',
         \A s \in Scopes \ raced : \A r \in under[s] :
           scope[r].status # "none" /\ scope[r].depth = 0 =>
             /\ s \in durable' <=> \A t \in under[s] :
                  IF scope[t].depth = 0 THEN backend'[t] = "committed"
                                        ELSE scope[t].status = "committed"
             /\ backend'[r] = "committed" =>
                  \A t \in under[s] \ {r} : scope[t].status \in {"committed", "rolledBack"}
  PROVE  GormInv'
<1>0. Managed /\ GormInv
  BY DEF Stored
<1>1. GormTypeOK' /\ under \in [Scopes -> SUBSET Scopes]
  BY <1>0 DEF GormInv, GormTypeOK, Written
<1>2. \A e : ~Logged(e)'
  BY DEF Logged, ToSet
<1>3. LogSound'
  <2>1. IsInjective(log)'
    BY DEF IsInjective
  <2> QED BY <1>2, <2>1 DEF LogSound, Written
<1>4. UnderSound' /\ WritesAreInside'
  BY <1>0 DEF GormInv, UnderSound, WritesAreInside
<1>5. NestedOpen'
  BY DEF NestedOpen
<1>6. StandingSound'
  <2> SUFFICES ASSUME stack # <<>> PROVE backend'[Root] # "open" /\ Root' = Root
    BY DEF StandingSound
  <2> QED BY <1>0, RootFacts DEF Root
<1>7. \A s \in Scopes : \A t \in under[s] : t \in Scopes /\ scope[t].status # "none"
  BY <1>0, <1>1 DEF GormInv, UnderSound
<1>8. KeptSound'
  BY <1>7 DEF KeptSound
<1>9. KeepsExactly'
  <2> SUFFICES ASSUME NEW s \in Scopes \ raced, under[s] # {}
               PROVE  s \in durable' <=> \A t \in under[s] :
                        IF scope[t].depth = 0 THEN backend'[t] = "committed"
                                              ELSE scope[t].status = "committed"
    BY DEF KeepsExactly
  <2>1. PICK r \in under[s] : scope[r].depth = 0
    BY <1>0 DEF GormInv, UnderSound
  <2> QED BY <1>7, <2>1
<1> QED BY <1>1, <1>3, <1>4, <1>5, <1>6, <1>8, <1>9 DEF GormInv

\* A transaction that ends without a commit keeps nothing more.
LEMMA AbortKeeps ==
  ASSUME Stored, UNCHANGED <<rootStatus, stack, scope, under, raced, outside>>,
         log' = <<>>, durable' = durable,
         \A t \in Scopes : /\ scope[t].status # "none" /\ scope[t].depth = 0 =>
                                /\ backend'[t] # "open"
                                /\ backend'[t] = "committed" <=> backend[t] = "committed"
                           /\ Standing(t)' => backend'[t] = "open" \/ Ending(t)'
  PROVE  GormInv'
<1>0. GormInv /\ under \in [Scopes -> SUBSET Scopes] /\ durable \subseteq Written
  BY DEF Stored, GormInv, GormTypeOK, LogSound
<1>1. \A s \in Scopes : \A t \in under[s] : t \in Scopes /\ scope[t].status # "none"
  BY <1>0 DEF GormInv, UnderSound
<1>2. ASSUME NEW s \in Scopes \ raced, NEW r \in under[s],
             scope[r].status # "none", scope[r].depth = 0
      PROVE  /\ s \in durable' <=> \A t \in under[s] :
                  IF scope[t].depth = 0 THEN backend'[t] = "committed"
                                        ELSE scope[t].status = "committed"
             /\ backend'[r] = "committed" =>
                  \A t \in under[s] \ {r} : scope[t].status \in {"committed", "rolledBack"}
  BY <1>0, <1>1, <1>2 DEF GormInv, KeepsExactly, KeptSound
<1> QED BY <1>0, <1>2, EndKeeps


\* What an answer does to the goroutine and to the database.
LEMMA Answers ==
  ASSUME Stored, NEW g \in Goroutines, op[g].scope \in Scopes,
         NEW err, NEW status, NEW next, Answer(g, err, status, next)
  PROVE  /\ op'[g].attempt = err /\ op'[g].pc = next
         /\ backend'[op[g].scope] = status
         /\ status = backend[op[g].scope] => UNCHANGED backend
<1>1. op \in [Goroutines -> Operation] /\ backend \in [Scopes -> {"none", "open", "committed", "rolledBack"}]
  BY DEF Stored, Managed, Usual, IInv, TypeOK
<1> QED BY <1>1 DEF Answer, Operation

\* The begin of the root: there is nothing yet.
LEMMA BeginStored ==
  ASSUME Stored, NEW g \in Goroutines, GormBegin(g) PROVE GormInv'
<1> DEFINE s == op[g].scope
<1>0. IInv /\ Managed /\ GormInv /\ Adapter(g) /\ UNCHANGED dataVars
  BY GormCallAllowed DEF Stored, Managed, Usual, GormCall, GormBegin
<1>1. /\ op[g].kind = "beginRoot" /\ op[g].pc = "adapter" /\ s \in Scopes
      /\ \A t \in Scopes : /\ t # s => backend'[t] = backend[t]
                           /\ ~Pending(t)'
      /\ UNCHANGED <<rootStatus, stack, scope>>
  BY <1>0, CallKeeps DEF GormBegin, Calling
<1>2. rootStatus = "none" /\ \A t \in Scopes : scope[t].status = "none"
  BY <1>0, <1>1 DEF IInv, BeginSound, BeginKind, Inside, Doomed
<1>3. stack = <<>>
  BY <1>0, <1>2, RootFacts
<1>4. under \in [Scopes -> SUBSET Scopes] /\ \A t \in Scopes : under[t] = {}
  BY <1>0, <1>2 DEF GormInv, GormTypeOK, UnderSound
<1>5. \A t \in Scopes : ~Standing(t)'
  BY <1>1, <1>3 DEF Standing, OnStack
<1>6. LogSound'
  <2>1. backend[s] = "none"
    BY <1>0, <1>1 DEF Managed, Usual, OutcomeInv, Placed, InPlace, BeginKind
  <2>2. \A e : Logged(e)' <=> Logged(e)
    BY <1>0 DEF Logged, dataVars
  <2>3. \A t \in Scopes : Logged(Savepoint(t)) => t # s
    BY <1>0, <2>1 DEF GormInv, LogSound
  <2>4. IsInjective(log)'
    BY <1>0 DEF GormInv, LogSound, IsInjective, dataVars
  <2> QED BY <1>0, <1>1, <2>2, <2>3, <2>4 DEF GormInv, LogSound, Written, dataVars
<1>7. GormTypeOK' /\ WritesAreInside' /\ UnderSound'
  BY <1>0, <1>1 DEF GormInv, GormTypeOK, WritesAreInside, UnderSound, dataVars
<1>8. NestedOpen' /\ StandingSound'
  BY <1>5 DEF NestedOpen, StandingSound
<1>9. KeptSound' /\ KeepsExactly'
  BY <1>0, <1>4 DEF KeptSound, KeepsExactly, dataVars
<1> QED BY <1>6, <1>7, <1>8, <1>9 DEF GormInv

\* A savepoint that fails changes nothing.
LEMMA NoSavepointStored ==
  ASSUME Stored, NEW g \in Goroutines, Calling(g, "beginNested"), Adapter(g),
         Answer(g, {"NestedTxUnsupported"}, "none", "after"), UNCHANGED dataVars
  PROVE  GormInv'
<1>1. op[g].kind = "beginNested" /\ op[g].pc = "adapter"
  BY DEF Calling
<1>2. backend[op[g].scope] = "none"
  BY <1>1 DEF Stored, Managed, Usual, OutcomeInv, Placed, InPlace, BeginKind
<1>3. UNCHANGED backend /\ op'[g].pc = "after"
  BY <1>2, CallKeeps, Answers
<1> QED BY <1>1, <1>3, CallKeeps, QuietStill

\* A savepoint is the last entry of the log, as its scope will be the top of
\* the stack.
LEMMA SavepointStored ==
  ASSUME Stored, NEW g \in Goroutines, Calling(g, "beginNested"), Adapter(g),
         backend[Root] = "open", Answer(g, {}, "open", "publish"),
         log' = Append(log, Savepoint(op[g].scope)), UNCHANGED <<durable, under, raced, outside>>
  PROVE  GormInv'
<1> PICK s : s = op[g].scope
  OBVIOUS
<1>0. IInv /\ Managed /\ GormInv
  BY DEF Stored, Managed, Usual
<1>1. /\ op[g].kind = "beginNested" /\ op[g].pc = "adapter" /\ s \in Scopes
      /\ UNCHANGED <<rootStatus, stack, scope>> /\ Root' = Root
      /\ backend'[s] = "open" /\ op'[g].pc = "publish"
      /\ \A t \in Scopes \ {s} : backend'[t] = backend[t]
      /\ \A t \in Scopes :
           /\ ~Pending(t) /\ ~Ending(t) /\ ~Undoing(t)
           /\ OnStack(t)' <=> OnStack(t)
           /\ Soft(t)' <=> Soft(t)
           /\ Level(t)' = Level(t)
           /\ Standing(t) <=> OnStack(t) /\ scope[t].depth > 0 /\ ~Soft(t)
           /\ Pending(t)' <=> t = s
           /\ ~Undoing(t)'
  BY CallKeeps, Answers DEF Calling
<1>2. backend[s] = "none" /\ scope[s].status = "none"
  BY <1>0, <1>1 DEF Managed, Usual, OutcomeInv, Placed, InPlace, BeginKind, IInv, BeginSound, Inside
<1>3. /\ log \in Seq(Entry) /\ IsInjective(log) /\ Savepoint(s) \in Entry
      /\ ~Logged(Savepoint(s)) /\ under \in [Scopes -> SUBSET Scopes]
  BY <1>0, <1>1, <1>2 DEF GormInv, GormTypeOK, LogSound, Entry, Savepoint
<1>4. /\ log' \in Seq(Entry) /\ IsInjective(log)'
      /\ \A f : Logged(f)' <=> Logged(f) \/ f = Savepoint(s)
      /\ \A f : Logged(f) => Place(f)' = Place(f) /\ Place(f) < Place(Savepoint(s))'
  BY <1>3, LogAppends
<1>5. \A t \in Scopes : /\ Write(t) # Savepoint(s)
                        /\ Savepoint(t) = Savepoint(s) => t = s
  BY DEF Write, Savepoint
<1>6. \A w \in Scopes : \A t \in under[w] : t \in Scopes /\ scope[t].status # "none" /\ t # s
  BY <1>0, <1>2, <1>3 DEF GormInv, UnderSound
<1>7. GormTypeOK' /\ WritesAreInside' /\ UnderSound'
  BY <1>0, <1>1, <1>4 DEF GormInv, GormTypeOK, WritesAreInside, UnderSound, Entry
<1>8. LogSound'
  BY <1>0, <1>1, <1>2, <1>4, <1>5 DEF GormInv, LogSound, Written
<1>9. \A t \in Scopes : /\ Standing(t)' => t = s \/ (Standing(t) /\ OnStack(t))
                        /\ OnStack(t) => t # s /\ Level(t) < Level(s)
  <2>1. ASSUME NEW t \in Scopes, OnStack(t) PROVE t # s /\ Level(t) < Level(s)
    <3> PICK i \in DOMAIN stack : stack[i] = t
      BY <2>1 DEF OnStack
    <3>1. scope[t].status = "active" /\ scope[t].depth = i - 1 /\ i <= Len(stack) /\ i \in Nat
          /\ Len(stack) \in Nat
      BY <1>0 DEF IInv, ScopesNest, TypeOK
    <3> QED BY <1>2, <3>1 DEF Level
  <2>2. \A t \in Scopes : Standing(t)' => t = s \/ (Standing(t) /\ OnStack(t))
    BY <1>1 DEF Standing
  <2> QED BY <2>1, <2>2
<1>10. NestedOpen'
  BY <1>0, <1>1, <1>9 DEF GormInv, NestedOpen
<1>11. StandingSound'
  <2> SUFFICES ASSUME stack # <<>>, NEW t \in Scopes, Standing(t)', NEW u \in Scopes
               PROVE  /\ Logged(Savepoint(t))'
                      /\ Standing(u)' /\ Level(t) < Level(u) =>
                           Place(Savepoint(t))' < Place(Savepoint(u))'
                      /\ u \notin raced /\ Logged(Write(u))' =>
                           (t \in under[u] <=> Place(Savepoint(t))' < Place(Write(u))')
    BY <1>1 DEF StandingSound
  <2>0. \A v \in Scopes : Standing(v) =>
          /\ Logged(Savepoint(v))
          /\ \A w \in Scopes :
               Standing(w) /\ Level(v) < Level(w) => Place(Savepoint(v)) < Place(Savepoint(w))
          /\ \A w \in Scopes \ raced :
               Logged(Write(w)) => (v \in under[w] <=> Place(Savepoint(v)) < Place(Write(w)))
    BY <1>0 DEF GormInv, StandingSound
  <2>1. CASE t = s
    <3>1. ~(Standing(u)' /\ Level(t) < Level(u))
      <4>1. \A v \in Scopes : OnStack(v) => Level(v) \in Nat
        BY <1>0, <1>9 DEF Level, IInv, TypeOK, ScopeState
      <4>2. Level(s) \in Nat
        BY <1>0, <1>2 DEF Level, IInv, TypeOK
      <4> QED BY <1>9, <2>1, <4>1, <4>2
    <3>2. u \notin raced /\ Logged(Write(u))' =>
            s \notin under[u] /\ Place(Write(u))' < Place(Savepoint(s))'
      BY <1>4, <1>5, <1>6
    <3>3. Logged(Write(u))' => Place(Write(u))' \in Nat /\ Place(Savepoint(s))' \in Nat
      <4>1. ASSUME NEW e, Logged(e)' PROVE Place(e)' \in Nat
        <5>1. \E i \in DOMAIN log' : log'[i] = e
          BY <4>1 DEF Logged, ToSet
        <5>2. Place(e)' \in DOMAIN log'
          BY <5>1 DEF Place
        <5> QED BY <1>4, <5>2
      <4> QED BY <1>4, <4>1
    <3> QED BY <1>4, <2>1, <3>1, <3>2, <3>3
  <2>2. CASE t # s
    <3>1. Standing(t) /\ OnStack(t) /\ Logged(Savepoint(t))
      BY <1>9, <2>0, <2>2
    <3>2. Standing(u)' /\ Level(t) < Level(u) => Place(Savepoint(t))' < Place(Savepoint(u))'
      BY <1>4, <1>9, <2>0, <3>1
    <3>3. u \notin raced /\ Logged(Write(u))' =>
            (t \in under[u] <=> Place(Savepoint(t))' < Place(Write(u))')
      BY <1>4, <1>5, <2>0, <3>1
    <3> QED BY <1>4, <3>1, <3>2, <3>3
  <2> QED BY <2>1, <2>2
<1>12. KeptSound'
  <2>1. \A t \in Scopes : Undone(t)' <=> Undone(t)
    BY <1>1 DEF Undone
  <2> QED BY <1>0, <1>1, <1>4, <1>5, <1>6, <2>1 DEF GormInv, KeptSound
<1>13. KeepsExactly'
  BY <1>0, <1>1, <1>6 DEF GormInv, KeepsExactly
<1> QED BY <1>7, <1>8, <1>10, <1>11, <1>12, <1>13 DEF GormInv


\* Above the root of a transaction that is about to commit nothing is open, and
\* no emulated scope has been rolled back.
LEMMA NothingAbove ==
  ASSUME Stored, NEW g \in Goroutines, Calling(g, "commit"), scope[op[g].scope].depth = 0,
         NEW t \in Scopes, scope[t].status # "none", t # op[g].scope
  PROVE  /\ scope[t].status \in {"committed", "rolledBack"} /\ scope[t].depth > 0
         /\ ~OnStack(t)
         /\ scope[t].status = "committed" <=> ~Undone(t)
<1> PICK s : s = op[g].scope
  OBVIOUS
<1>0. IInv /\ Managed
  BY DEF Stored, Managed, Usual
<1>1. /\ s = Root /\ Last(stack) = s /\ scope[s].depth = Len(stack) - 1 /\ rootStatus = "active"
      /\ stack # <<>> /\ Len(stack) \in Nat \ {0} /\ s \in Scopes /\ scope[s].depth = 0
      /\ op[g].pc = "adapter" /\ op[g].kind = "commit"
  BY CalledScope DEF Calling, FinalizeKind
<1>2. Len(stack) = 1 /\ stack[1] = s
  <2>1. 1 \in Nat \ {0} /\ 1 <= Len(stack) /\ Len(stack) \in Nat
    BY <1>1
  <2>2. Len(stack) = 1
    BY <1>1, <2>1, LastScope
  <2> QED BY <1>0, <1>1, <2>2, TopOfStack
<1>3. ~OnStack(t)
  <2>1. \A i \in DOMAIN stack : i = 1
    BY <1>0, <1>2 DEF IInv, TypeOK
  <2> QED BY <1>2, <2>1 DEF OnStack
<1>4. scope[t].depth \in Nat /\ scope[t].status \in TxStatus
  BY <1>0 DEF IInv, TypeOK, ScopeState
<1>5. scope[t].depth > 0
  BY <1>0, <1>1, <1>4, RootFacts
<1>6. scope[t].status # "active"
  BY <1>0, <1>1, <1>3 DEF IInv, ScopesNest
<1>7. scope[t].status # "failed"
  BY <1>0, <1>1 DEF Managed, Usual, OutcomeInv, RootAgrees
<1>8. scope[t].status \in {"committed", "rolledBack"}
  BY <1>4, <1>6, <1>7 DEF TxStatus, Terminal
<1>9. CommittingRoot
  BY <1>1 DEF CommittingRoot
<1>10. Soft(t) => scope[t].status # "rolledBack"
  BY <1>0, <1>9 DEF IInv, Doomed
<1>11. ~Undoing(t)
  BY <1>0, <1>1, Alone DEF Undoing, Inside
<1> QED BY <1>3, <1>5, <1>8, <1>10, <1>11 DEF Undone

\* A commit keeps the writes that are in the log: those that no rollback has
\* cut off, the scopes around which have all committed.
LEMMA CommitStored ==
  ASSUME Stored, NEW g \in Goroutines, Calling(g, "commit"), Adapter(g),
         scope[op[g].scope].depth = 0, backend[op[g].scope] = "open",
         NEW err, NEW end \in {"committed", "rolledBack"}, NEW next,
         Answer(g, err, end, next), Ends(end), UNCHANGED <<under, raced, outside>>
  PROVE  GormInv'
<1> PICK s : s = op[g].scope
  OBVIOUS
<1>0. IInv /\ Managed /\ GormInv /\ under \in [Scopes -> SUBSET Scopes]
  BY DEF Stored, Managed, Usual, GormInv, GormTypeOK
<1>1. /\ op[g].kind = "commit" /\ op[g].pc = "adapter" /\ s \in Scopes
      /\ UNCHANGED <<rootStatus, stack, scope>>
      /\ backend'[s] = end
      /\ \A t \in Scopes \ {s} : backend'[t] = backend[t]
      /\ s = Root /\ stack # <<>> /\ rootStatus = "active" /\ scope[s].status # "none"
  BY CallKeeps, Answers, CalledScope DEF Calling, FinalizeKind
<1>2. \A t \in Scopes : scope[t].status # "none" /\ scope[t].depth = 0 => t = s
  BY <1>0, <1>1, RootFacts
<1>3. \A w \in Scopes : \A t \in under[w] : t \in Scopes /\ scope[t].status # "none"
  BY <1>0 DEF GormInv, UnderSound
<1>4. \A t \in Scopes : ~Standing(t)'
  <2>1. \A t \in Scopes : OnStack(t)' <=> OnStack(t)
    BY CallKeeps
  <2>2. \A t \in Scopes : OnStack(t) => t = s
    <3>1. \A t \in Scopes : OnStack(t) => scope[t].status # "none"
      BY <1>0 DEF IInv, ScopesNest, OnStack
    <3> QED BY <3>1, NothingAbove
  <2>3. \A t \in Scopes : ~Pending(t)'
    BY <1>1, CallKeeps
  <2>4. ~(scope'[s].depth > 0)
    BY <1>1
  <2> QED BY <2>1, <2>2, <2>3, <2>4 DEF Standing
<1>5. Writes(log) \subseteq Written /\ durable \subseteq Written
      /\ \A w \in Scopes : w \in Writes(log) <=> Logged(Write(w))
  BY <1>0 DEF GormInv, LogSound, Writes, Logged, Written
<1>6. log' = <<>> /\ durable' = IF end = "committed" THEN durable \cup Writes(log) ELSE durable
  BY DEF Ends
<1>7. CASE end = "rolledBack"
  BY <1>1, <1>2, <1>4, <1>6, <1>7, AbortKeeps
<1>8. CASE end = "committed"
  <2>1. ASSUME NEW w \in Scopes \ raced, NEW r \in under[w],
               scope[r].status # "none", scope[r].depth = 0
        PROVE  /\ w \in durable' <=> \A t \in under[w] :
                    IF scope[t].depth = 0 THEN backend'[t] = "committed"
                                          ELSE scope[t].status = "committed"
               /\ backend'[r] = "committed" =>
                    \A t \in under[w] \ {r} : scope[t].status \in {"committed", "rolledBack"}
    <3>1. r = s
      BY <1>2, <1>3, <2>1
    <3>2. w \notin durable
      BY <1>0, <3>1, <2>1 DEF GormInv, KeepsExactly
    <3>3. Logged(Write(w)) <=> \A t \in under[w] : ~Undone(t)
      BY <1>0, <1>1, <2>1, <3>1 DEF GormInv, KeptSound
    <3>4. \A t \in under[w] : t # s =>
            /\ scope[t].status \in {"committed", "rolledBack"}
            /\ scope[t].depth # 0
            /\ scope[t].status = "committed" <=> ~Undone(t)
      <4> SUFFICES ASSUME NEW t \in under[w], t # s
                   PROVE  /\ scope[t].status \in {"committed", "rolledBack"}
                          /\ scope[t].depth # 0
                          /\ scope[t].status = "committed" <=> ~Undone(t)
        OBVIOUS
      <4>1. t \in Scopes /\ scope[t].status # "none"
        BY <1>3
      <4>2. scope[t].depth # 0
        BY <1>2, <4>1
      <4> QED BY <4>1, <4>2, NothingAbove
    <3>5. ~Undone(s)
      <4>1. ~(scope[s].depth > 0)
        BY <1>1
      <4> QED BY <4>1 DEF Undone
    <3>6. w \in durable' <=> \A t \in under[w] : ~Undone(t)
      BY <1>5, <1>6, <1>8, <3>2, <3>3
    <3>7. w \in durable' <=> \A t \in under[w] :
                    IF scope[t].depth = 0 THEN backend'[t] = "committed"
                                          ELSE scope[t].status = "committed"
      BY <1>1, <1>8, <3>4, <3>5, <3>6
    <3> QED BY <3>1, <3>4, <3>7
  <2>2. durable' \subseteq Written
    BY <1>5, <1>6
  <2>3. \A t \in Scopes : scope[t].status # "none" /\ scope[t].depth = 0 => backend'[t] # "open"
    BY <1>1, <1>2, <1>8
  <2> QED BY <1>1, <1>4, <1>6, <2>1, <2>2, <2>3, EndKeeps
<1> QED BY <1>7, <1>8

\* The commit of a nested scope leaves everything to its rollback or to the root.
LEMMA ReleaseStored ==
  ASSUME Stored, NEW g \in Goroutines, Calling(g, "commit"), Adapter(g),
         scope[op[g].scope].depth > 0, Answer(g, {}, "committed", "publish"), UNCHANGED dataVars
  PROVE  GormInv'
<1> PICK s : s = op[g].scope
  OBVIOUS
<1>0. GormInv
  BY DEF Stored
<1>1. /\ op[g].kind = "commit" /\ op[g].pc = "adapter" /\ s \in Scopes /\ op'[g].pc = "publish"
      /\ UNCHANGED <<rootStatus, stack, scope>>
      /\ backend'[s] = "committed"
      /\ \A t \in Scopes \ {s} : backend'[t] = backend[t]
  BY CallKeeps, Answers DEF Calling
<1>2. ASSUME NEW t \in Scopes
      PROVE  /\ backend'[t] = "none" => backend[t] = "none"
             /\ scope[t].status # "none" /\ scope[t].depth = 0 => backend'[t] = backend[t]
             /\ Standing(t)' => Standing(t) /\ (backend'[t] = "open" \/ Ending(t)')
             /\ Undone(t)' <=> Undone(t)
  <2>1. /\ Standing(t)' => Standing(t)
        /\ Undone(t)' <=> Undone(t)
        /\ ~Ending(t)
        /\ t = s => Ending(t)'
    BY <1>1, CallKeeps DEF Standing, Undone, FinalizeKind
  <2>2. Standing(t)' => backend'[t] = "open" \/ Ending(t)'
    BY <1>0, <1>1, <2>1 DEF GormInv, NestedOpen
  <2>3. t = s => ~(scope[t].depth = 0)
    OBVIOUS
  <2> QED BY <1>1, <2>1, <2>2, <2>3
<1> QED BY <1>1, <1>2, BackendStill

\* All outcomes of a commit.
LEMMA CommitsStored ==
  ASSUME Stored, NEW g \in Goroutines, GormCommit(g) PROVE GormInv'
<1> DEFINE s == op[g].scope
<1>1. /\ Calling(g, "commit") /\ Adapter(g) /\ UNCHANGED <<under, raced, outside>>
      /\ op[g].pc = "adapter" /\ s \in Scopes
  BY GormCallAllowed, CallKeeps DEF GormCall, GormCommit
<1>2. CASE scope[s].depth > 0 /\ Answer(g, {}, "committed", "publish") /\ UNCHANGED <<log, durable>>
  BY <1>1, <1>2, ReleaseStored DEF dataVars
<1>3. ASSUME scope[s].depth = 0, backend[s] = "open", NEW err,
             NEW end \in {"committed", "rolledBack"}, NEW next,
             Answer(g, err, end, next), Ends(end)
      PROVE  GormInv'
  BY <1>1, <1>3, CommitStored
<1>4. CASE Answer(g, {"AdapterError"}, backend[s], "after") /\ UNCHANGED <<log, durable>>
  <2>1. UNCHANGED backend /\ op'[g].pc = "after"
    BY <1>1, <1>4, Answers
  <2> QED BY <1>1, <1>4, <2>1, CallKeeps, QuietStill DEF dataVars
<1> QED BY <1>2, <1>3, <1>4 DEF GormCommit


\* A rollback to a savepoint cuts off the scope, with what was begun above it,
\* and leaves what was there before.
LEMMA UndoStored ==
  ASSUME Stored, NEW g \in Goroutines, Calling(g, "rollback"), Adapter(g),
         scope[op[g].scope].depth > 0, backend[Root] = "open",
         Answer(g, {}, "rolledBack", "publish"),
         log' = BackTo(op[g].scope), UNCHANGED <<durable, under, raced, outside>>
  PROVE  GormInv'
<1> PICK s : s = op[g].scope
  OBVIOUS
<1>0. /\ IInv /\ Managed /\ GormInv
      /\ under \in [Scopes -> SUBSET Scopes] /\ log \in Seq(Entry) /\ IsInjective(log)
  BY DEF Stored, Managed, Usual, GormInv, GormTypeOK, LogSound, Entry
<1>1. /\ op[g].kind = "rollback" /\ op[g].pc = "adapter" /\ s \in Scopes
      /\ UNCHANGED <<rootStatus, stack, scope>> /\ Root' = Root
      /\ backend'[s] = "rolledBack"
      /\ \A t \in Scopes \ {s} : backend'[t] = backend[t]
      /\ stack # <<>> /\ scope[s].depth = Len(stack) - 1 /\ scope[s].status = "active"
      /\ Standing(s) /\ s # Root /\ OnStack(s) /\ ~Soft(s) /\ scope[s].depth > 0
      /\ rootStatus = "active"
      /\ \A t \in Scopes :
           /\ ~Ending(t) /\ ~Undoing(t)
           /\ Level(t)' = Level(t)
           /\ Standing(t) <=> OnStack(t) /\ scope[t].depth > 0 /\ ~Soft(t)
           /\ Standing(t)' <=> Standing(t)
           /\ Soft(t)' <=> Soft(t)
           /\ Ending(t)' <=> t = s
           /\ Undoing(t)' <=> t = s
  BY CallKeeps, Answers, CalledScope DEF Calling, FinalizeKind, Standing
<1>1a. ~(scope[s].depth = 0)
  OBVIOUS
<1>2. \A v \in Scopes : Standing(v) =>
        /\ Logged(Savepoint(v))
        /\ \A w \in Scopes :
             Standing(w) /\ Level(v) < Level(w) => Place(Savepoint(v)) < Place(Savepoint(w))
        /\ \A w \in Scopes \ raced :
             Logged(Write(w)) => (v \in under[w] <=> Place(Savepoint(v)) < Place(Write(w)))
  BY <1>0, <1>1 DEF GormInv, StandingSound
<1>3. /\ log' \in Seq(Entry) /\ IsInjective(log)'
      /\ \A f : Logged(f)' <=> Logged(f) /\ Place(f) <= Place(Savepoint(s))
      /\ \A f : Logged(f)' => Place(f)' = Place(f)
  BY <1>0, <1>1, <1>2, LogCuts
<1>4. \A f : Logged(f) => Place(f) \in Nat
  <2>1. DOMAIN log \subseteq Nat
    BY <1>0
  <2> QED BY <1>0, <2>1, PlaceFacts
<1>5. \A w \in Scopes : \A t \in under[w] : t \in Scopes /\ scope[t].status # "none"
  BY <1>0 DEF GormInv, UnderSound
<1>6. GormTypeOK' /\ WritesAreInside' /\ UnderSound'
  BY <1>0, <1>1, <1>3 DEF GormInv, GormTypeOK, WritesAreInside, UnderSound, Entry
<1>7. LogSound'
  BY <1>0, <1>1, <1>3 DEF GormInv, LogSound, Written
<1>8. NestedOpen'
  BY <1>0, <1>1 DEF GormInv, NestedOpen
<1>9. \A t \in Scopes : Standing(t) => Logged(Savepoint(t))'
  <2> SUFFICES ASSUME NEW t \in Scopes, Standing(t), t # s
               PROVE  Place(Savepoint(t)) < Place(Savepoint(s))
    BY <1>1, <1>2, <1>3, <1>4
  <2>1. OnStack(t)
    BY <1>1
  <2> PICK i \in DOMAIN stack : stack[i] = t
    BY <2>1 DEF OnStack
  <2>2. /\ i \in Nat /\ i <= Len(stack) /\ Len(stack) \in Nat
        /\ scope[t].depth = i - 1 /\ scope[t].status = "active"
    BY <1>0 DEF IInv, ScopesNest, TypeOK
  <2>3. i # Len(stack)
    BY <1>0, <1>1, TopOfStack, CalledScope DEF Calling, FinalizeKind
  <2>4. Level(t) < Level(s)
    BY <1>1, <2>2, <2>3 DEF Level
  <2> QED BY <1>1, <1>2, <2>4
<1>10. StandingSound'
  <2> SUFFICES ASSUME NEW t \in Scopes, Standing(t), NEW u \in Scopes
               PROVE  /\ Logged(Savepoint(t))'
                      /\ Standing(u) /\ Level(t) < Level(u) =>
                           Place(Savepoint(t))' < Place(Savepoint(u))'
                      /\ u \notin raced /\ Logged(Write(u))' =>
                           (t \in under[u] <=> Place(Savepoint(t))' < Place(Write(u))')
    BY <1>1 DEF StandingSound
  <2> QED BY <1>2, <1>3, <1>9
<1>11. KeptSound'
  <2> SUFFICES ASSUME NEW w \in Scopes \ raced, NEW r \in under[w], scope[r].depth = 0
               PROVE  /\ backend'[r] = "open" /\ rootStatus = "active" =>
                           (Logged(Write(w))' <=> \A t \in under[w] : ~Undone(t)')
                      /\ backend'[r] = "committed" =>
                           \A t \in under[w] \ {r} : scope[t].status \in {"committed", "rolledBack"}
    BY <1>1 DEF KeptSound
  <2>1. r \in Scopes /\ r # s /\ backend'[r] = backend[r]
    BY <1>1, <1>1a, <1>5
  <2>2. \A t \in Scopes : Undone(t)' <=> Undone(t) \/ t = s
    BY <1>1 DEF Undone
  <2>3. Logged(Write(w))' <=> Logged(Write(w)) /\ s \notin under[w]
    BY <1>1, <1>2, <1>3, <1>4
  <2>4. backend[r] = "open" => (Logged(Write(w)) <=> \A t \in under[w] : ~Undone(t))
    BY <1>0, <1>1 DEF GormInv, KeptSound
  <2>5. backend[r] = "open" => (Logged(Write(w))' <=> \A t \in under[w] : ~Undone(t)')
    BY <1>5, <2>2, <2>3, <2>4
  <2> QED BY <1>0, <2>1, <2>5 DEF GormInv, KeptSound
<1>12. KeepsExactly'
  <2>1. \A t \in Scopes : scope[t].depth = 0 => backend'[t] = backend[t]
    BY <1>1, <1>1a
  <2> QED BY <1>0, <1>1, <1>5, <2>1 DEF GormInv, KeepsExactly
<1> QED BY <1>6, <1>7, <1>8, <1>10, <1>11, <1>12 DEF GormInv

\* All outcomes of a rollback.
LEMMA RollbacksStored ==
  ASSUME Stored, NEW g \in Goroutines, GormRollback(g) PROVE GormInv'
<1> PICK s : s = op[g].scope
  OBVIOUS
<1>0. IInv /\ Managed /\ GormInv
  BY DEF Stored, Managed, Usual
<1>1. /\ Calling(g, "rollback") /\ Adapter(g) /\ UNCHANGED <<durable, under, raced, outside>>
      /\ op[g].pc = "adapter" /\ s \in Scopes /\ op[g].kind = "rollback"
  BY GormCallAllowed, CallKeeps DEF GormCall, GormRollback, Calling
<1>2. CASE /\ scope[s].depth > 0 /\ backend[Root] = "open"
           /\ Answer(g, {}, "rolledBack", "publish") /\ log' = BackTo(s)
  BY <1>1, <1>2, UndoStored
<1>3. CASE Answer(g, {"AdapterError"}, backend[s], "publish") /\ UNCHANGED log
  <2>1. UNCHANGED backend /\ op'[g].attempt = {"AdapterError"}
    BY <1>1, <1>3, Answers
  <2> QED BY <1>1, <1>3, <2>1, CallKeeps, QuietStill DEF dataVars, BeginKind
<1>4. ASSUME scope[s].depth = 0, backend[s] = "open", log' = <<>>, NEW err,
             Answer(g, err, "rolledBack", "publish")
      PROVE  GormInv'
  <2>1. /\ UNCHANGED <<rootStatus, stack, scope>> /\ s = Root /\ stack # <<>>
        /\ backend'[s] = "rolledBack"
        /\ \A t \in Scopes : /\ t # s => backend'[t] = backend[t]
                             /\ ~Ending(t)
                             /\ Standing(t)' => Standing(t) /\ scope[t].depth > 0
    BY <1>1, <1>4, CallKeeps, Answers, CalledScope DEF FinalizeKind, Standing
  <2>2. ASSUME NEW t \in Scopes
        PROVE  /\ scope[t].status # "none" /\ scope[t].depth = 0 =>
                    /\ backend'[t] # "open"
                    /\ backend'[t] = "committed" <=> backend[t] = "committed"
               /\ Standing(t)' => backend'[t] = "open" \/ Ending(t)'
    <3>1. scope[t].status # "none" /\ scope[t].depth = 0 => t = s
      BY <1>0, <2>1, RootFacts
    <3>2. t = s => ~(scope[t].depth > 0)
      BY <1>4
    <3>3. Standing(t)' => backend'[t] = "open"
      BY <1>0, <2>1, <3>2 DEF GormInv, NestedOpen
    <3> QED BY <1>4, <2>1, <3>1, <3>3
  <2> QED BY <1>1, <1>4, <2>1, <2>2, AbortKeeps
<1> QED BY <1>2, <1>3, <1>4 DEF GormRollback

\* The transaction that the database ends by itself is that of the root, or of
\* no open scope at all.
LEMMA AbortStored ==
  ASSUME Stored, GormAborts PROVE GormInv'
<1>0. /\ IInv /\ Managed /\ GormInv /\ FailedBegins
      /\ UNCHANGED <<rootStatus, stack, scope, op, durable, under, raced, outside>>
  BY DEF Stored, Managed, Usual, GormAborts, BackendAborts, state
<1> PICK s \in Scopes :
      /\ backend[s] = "open"
      /\ \/ scope[s].status # "none" /\ scope[s].depth = 0
         \/ \E g \in Beginning : op[g].kind = "beginRoot" /\ op[g].scope = s
         \/ scope[s].status = "none" /\ \A g \in Goroutines : op[g].scope # s
      /\ backend' = [backend EXCEPT ![s] = "rolledBack"]
  BY DEF GormAborts, BackendAborts
<1>1. backend'[s] = "rolledBack" /\ \A t \in Scopes \ {s} : backend'[t] = backend[t]
  BY <1>0 DEF IInv, TypeOK
<1>2. ~Standing(s)
  <2>1. CASE scope[s].status # "none" /\ scope[s].depth = 0
    <3>1. ~(scope[s].depth > 0)
      BY <2>1
    <3> QED BY <1>0, <2>1, <3>1, StandingFacts DEF Standing
  <2>2. ASSUME NEW g \in Beginning, op[g].kind = "beginRoot", op[g].scope = s PROVE ~Standing(s)
    <3>0. g \in Goroutines /\ CallSound(g) /\ op[g].pc \in PC /\ op[g].kind \in BeginKind
      BY <1>0, <2>2 DEF Beginning, Managed, Usual, CallInv, IInv, TypeOK, Operation
    <3>1. ~Pending(s)
      <4> SUFFICES ASSUME NEW h \in Goroutines, op[h].kind = "beginNested", op[h].scope = s
                   PROVE  FALSE
        BY DEF Pending
      <4>1. h \in Beginning /\ h # g
        BY <2>2 DEF Beginning, BeginKind
      <4> QED BY <1>0, <2>2, <4>1, NullAssumption DEF Managed, Usual, CallInv
    <3>2. CASE scope[s].status = "none"
      BY <1>0, <3>1, <3>2, StandingFacts
    <3>3. CASE scope[s].status # "none"
      <4>1. Begun(g)
        <5>1. op[g].pc # "idle"
          BY <2>2, <3>0 DEF CallSound, Idle
        <5>2. op[g].pc # "lock"
          BY <2>2, <3>0, NullAssumption DEF CallSound
        <5>3. op[g].pc \notin {"before", "adapter", "publish"}
          BY <1>0, <2>2, <3>0, <3>3 DEF IInv, BeginSound, Inside
        <5>4. op[g].pc = "after" => ~BeginFailed(op[g])
          BY <1>0, <2>2, <3>0, <3>3 DEF FailedBegins
        <5> QED BY <2>2, <3>0, <5>1, <5>2, <5>3, <5>4, NullAssumption DEF Begun, PC
      <4>2. scope[s].depth = 0
        BY <2>2, <3>0, <4>1 DEF CallSound
      <4>3. ~(scope[s].depth > 0)
        BY <4>2
      <4> QED BY <3>1, <4>3 DEF Standing
    <3> QED BY <3>2, <3>3
  <2>3. CASE scope[s].status = "none" /\ \A g \in Goroutines : op[g].scope # s
    BY <1>0, <2>3, StandingFacts DEF Pending
  <2> QED BY <2>1, <2>2, <2>3
<1>3. \A t \in Scopes : /\ Standing(t)' <=> Standing(t)
                        /\ Ending(t)' <=> Ending(t)
                        /\ Undone(t)' <=> Undone(t)
  BY <1>0 DEF Standing, Ending, Undone, Undoing, Pending, OnStack, Soft
<1>4. \A t \in Scopes : Standing(t)' => backend'[t] = "open" \/ Ending(t)'
  BY <1>0, <1>1, <1>2, <1>3 DEF GormInv, NestedOpen
<1>5. CASE RootOpen'
  <2>1. UNCHANGED log
    BY <1>5 DEF GormAborts
  <2>2. PICK r \in Scopes : scope[r].status # "none" /\ scope[r].depth = 0 /\ backend'[r] = "open"
    BY <1>0, <1>5 DEF RootOpen
  <2>3. \A t \in Scopes : scope[t].status # "none" /\ scope[t].depth = 0 => backend'[t] = backend[t]
    BY <1>0, <1>1, <2>2 DEF Managed, Usual, CallInv
  <2>4. \A t \in Scopes : backend'[t] = "none" => backend[t] = "none"
    BY <1>1
  <2> QED BY <1>0, <1>3, <1>4, <2>1, <2>3, <2>4, BackendStill DEF dataVars
<1>6. CASE ~RootOpen'
  <2>1. log' = <<>>
    BY <1>6 DEF GormAborts
  <2>2. \A t \in Scopes : scope[t].status # "none" /\ scope[t].depth = 0 =>
          /\ backend'[t] # "open"
          /\ backend'[t] = "committed" <=> backend[t] = "committed"
    BY <1>0, <1>1, <1>6 DEF RootOpen
  <2> QED BY <1>0, <1>4, <2>1, <2>2, AbortKeeps
<1> QED BY <1>5, <1>6


-----------------------------------------------------------------------------
(* The writes.                                                             *)

\* A callback writes for a scope of its own, which nobody has ended unless a
\* failing rollback has ended all.
LEMMA Writer ==
  ASSUME Managed, NEW g \in Goroutines, At(g, "fn")
  PROVE  LET s == Running(g).scope IN
         s \in Scopes /\ scope[s].status # "none" /\ (rootStatus # "failed" => OnStack(s))
<1>1. frames[g] # <<>> /\ Running(g).stage = "fn"
  BY RunningFacts DEF At, Managed, ManagerInv
<1>2. FrameSound(Running(g))
  BY <1>1, RunningSound
<1> QED BY <1>1, <1>2 DEF FrameSound, Held, Untouched

\* A write to the transaction comes after the savepoints of all open scopes.
LEMMA InsideStored ==
  ASSUME Stored, NEW s \in Scopes, s \notin Written, InTransaction, backend[Root] = "open",
         log' = Append(log, Write(s)),
         under' = [under EXCEPT ![s] = ToSet(stack)],
         raced' = IF DatabaseAhead THEN raced \cup {s} ELSE raced,
         UNCHANGED <<rootStatus, stack, scope, op, backend, durable, outside>>
  PROVE  GormInv'
<1>0. /\ IInv /\ Managed /\ GormInv /\ rootStatus = "active" /\ stack # <<>>
      /\ under \in [Scopes -> SUBSET Scopes] /\ log \in Seq(Entry) /\ IsInjective(log)
      /\ stack \in Seq(Scopes)
  BY DEF Stored, Managed, Usual, GormInv, GormTypeOK, LogSound, Entry, InTransaction, IInv, TypeOK
<1>1. under[s] = {} /\ s \notin outside /\ s \notin durable
  BY <1>0 DEF Written, GormInv, LogSound
<1>2. ~Logged(Write(s)) /\ Write(s) \in Entry
  BY <1>0, <1>1 DEF GormInv, LogSound, Write, Entry
<1>3. /\ log' \in Seq(Entry) /\ IsInjective(log)'
      /\ \A f : Logged(f)' <=> Logged(f) \/ f = Write(s)
      /\ \A f : Logged(f) => Place(f)' = Place(f) /\ Place(f) < Place(Write(s))'
  BY <1>0, <1>2, LogAppends
<1>4. \A t \in Scopes : /\ Savepoint(t) # Write(s)
                        /\ Write(t) = Write(s) => t = s
  BY DEF Write, Savepoint
<1>5. /\ under' \in [Scopes -> SUBSET Scopes] /\ under'[s] = ToSet(stack)
      /\ \A w \in Scopes : w # s => under'[w] = under[w]
      /\ \A t \in Scopes : t \in under'[s] <=> OnStack(t)
  BY <1>0 DEF OnStack, ToSet
<1>6. Root \in Scopes /\ OnStack(Root) /\ scope[Root].depth = 0
      /\ \A r \in Scopes : scope[r].status # "none" /\ scope[r].depth = 0 => r = Root
  <2>1. 1 \in DOMAIN stack
    BY <1>0
  <2> QED BY <1>0, <2>1, RootFacts DEF OnStack
<1>7. \A t \in Scopes : OnStack(t) => scope[t].status = "active"
  BY <1>0 DEF IInv, ScopesNest, OnStack
<1>8. \A w \in Scopes : \A t \in under[w] : t \in Scopes /\ scope[t].status # "none"
  BY <1>0 DEF GormInv, UnderSound
<1>9. \A t \in Scopes : /\ Standing(t)' <=> Standing(t)
                        /\ Level(t)' = Level(t)
                        /\ Ending(t)' <=> Ending(t)
                        /\ Undone(t)' <=> Undone(t)
      /\ Root' = Root
  BY DEF Standing, Level, Ending, Undone, Undoing, Pending, OnStack, Soft, Root
<1>10. GormTypeOK' /\ WritesAreInside'
  BY <1>0, <1>3, <1>5 DEF GormInv, GormTypeOK, WritesAreInside, Entry
<1>11. UnderSound'
  <2>1. ASSUME NEW w \in Scopes
        PROVE  /\ \A t \in under'[w] : scope[t].status # "none"
               /\ under'[w] # {} => \E r \in under'[w] : scope[r].depth = 0
    <3>1. CASE w = s
      <4>1. \A t \in under'[w] : t \in Scopes
        BY <1>5
      <4> QED BY <1>5, <1>6, <1>7, <3>1, <4>1
    <3>2. CASE w # s
      BY <1>0, <1>5, <3>2 DEF GormInv, UnderSound
    <3> QED BY <3>1, <3>2
  <2> QED BY <2>1 DEF UnderSound
<1>12. LogSound'
  <2>1. under'[s] # {}
    BY <1>5, <1>6
  <2>2. Written \subseteq Written'
    BY <1>5, <2>1 DEF Written
  <2> QED BY <1>0, <1>3, <1>4, <1>5, <2>1, <2>2 DEF GormInv, LogSound
<1>13. NestedOpen'
  BY <1>0, <1>9 DEF GormInv, NestedOpen
<1>14. s \notin raced' => ~DatabaseAhead
  OBVIOUS
<1>15. raced \subseteq raced'
  OBVIOUS
<1>16. StandingSound'
  <2> SUFFICES ASSUME NEW t \in Scopes, Standing(t), NEW u \in Scopes
               PROVE  /\ Logged(Savepoint(t))'
                      /\ Standing(u) /\ Level(t) < Level(u) =>
                           Place(Savepoint(t))' < Place(Savepoint(u))'
                      /\ u \notin raced' /\ Logged(Write(u))' =>
                           (t \in under'[u] <=> Place(Savepoint(t))' < Place(Write(u))')
    BY <1>9 DEF StandingSound
  <2>1. \A v \in Scopes : Standing(v) =>
          /\ Logged(Savepoint(v))
          /\ \A w \in Scopes :
               Standing(w) /\ Level(v) < Level(w) => Place(Savepoint(v)) < Place(Savepoint(w))
          /\ \A w \in Scopes \ raced :
               Logged(Write(w)) => (v \in under[w] <=> Place(Savepoint(v)) < Place(Write(w)))
    BY <1>0 DEF GormInv, StandingSound
  <2>2. CASE u = s
    <3>1. s \notin raced' => OnStack(t)
      BY <1>14 DEF Standing, Pending, DatabaseAhead
    <3>2. Place(Savepoint(t))' < Place(Write(s))'
      BY <1>3, <2>1
    <3> QED BY <1>3, <1>5, <2>1, <2>2, <3>1, <3>2
  <2>3. CASE u # s
    BY <1>3, <1>4, <1>5, <1>15, <2>1, <2>3
  <2>4. Standing(u) /\ Level(t) < Level(u) => Place(Savepoint(t))' < Place(Savepoint(u))'
    BY <1>3, <2>1
  <2> QED BY <1>3, <2>1, <2>2, <2>3, <2>4
<1>17. KeptSound'
  <2> SUFFICES ASSUME NEW w \in Scopes \ raced', NEW r \in under'[w], scope[r].depth = 0
               PROVE  /\ backend[r] = "open" =>
                           (Logged(Write(w))' <=> \A t \in under'[w] : ~Undone(t)')
                      /\ backend[r] = "committed" =>
                           \A t \in under'[w] \ {r} : scope[t].status \in {"committed", "rolledBack"}
    BY DEF KeptSound
  <2>1. CASE w = s
    <3>1. \A t \in under'[s] : t \in Scopes /\ scope[t].status = "active"
      BY <1>5, <1>7
    <3>2. backend[r] = "open"
      BY <1>6, <2>1, <3>1
    <3>3. \A t \in Scopes : ~Undoing(t)
      BY <1>14, <2>1 DEF Undoing, DatabaseAhead
    <3>4. \A t \in under'[s] : ~Undone(t)
      BY <3>1, <3>3 DEF Undone
    <3> QED BY <1>3, <1>9, <2>1, <3>1, <3>2, <3>4
  <2>2. CASE w # s
    <3>1. under'[w] = under[w] /\ w \in Scopes \ raced
      BY <1>5, <1>15, <2>2
    <3>2. Logged(Write(w))' <=> Logged(Write(w))
      BY <1>3, <1>4, <2>2
    <3> QED BY <1>0, <1>8, <1>9, <3>1, <3>2 DEF GormInv, KeptSound
  <2> QED BY <2>1, <2>2
<1>18. KeepsExactly'
  <2> SUFFICES ASSUME NEW w \in Scopes \ raced', under'[w] # {}
               PROVE  w \in durable <=> \A t \in under'[w] :
                        IF scope[t].depth = 0 THEN backend[t] = "committed"
                                              ELSE scope[t].status = "committed"
    BY DEF KeepsExactly
  <2>1. CASE w = s
    BY <1>1, <1>5, <1>6, <2>1
  <2>2. CASE w # s
    BY <1>0, <1>5, <1>15, <2>2 DEF GormInv, KeepsExactly
  <2> QED BY <2>1, <2>2
<1> QED BY <1>10, <1>11, <1>12, <1>13, <1>16, <1>17, <1>18 DEF GormInv

\* A write that misses the transaction is in none of the scopes.
LEMMA OutsideStored ==
  ASSUME Stored, NEW s \in Scopes, s \notin Written, rootStatus = "failed",
         durable' = durable \cup {s}, outside' = outside \cup {s},
         UNCHANGED <<rootStatus, stack, scope, op, backend, log, under, raced>>
  PROVE  GormInv'
<1>0. GormInv
  BY DEF Stored
<1>1. under[s] = {}
  BY DEF Written
<1>2. \A t \in Scopes : /\ Standing(t)' <=> Standing(t)
                        /\ Level(t)' = Level(t)
                        /\ Ending(t)' <=> Ending(t)
                        /\ Undone(t)' <=> Undone(t)
  BY DEF Standing, Level, Ending, Undone, Undoing, Pending, OnStack, Soft
<1>3. Root' = Root /\ \A e : (Logged(e)' <=> Logged(e)) /\ Place(e)' = Place(e)
  BY DEF Logged, Place, Root
<1>4. GormTypeOK' /\ WritesAreInside' /\ UnderSound'
  BY <1>0 DEF GormInv, GormTypeOK, WritesAreInside, UnderSound
<1>5. LogSound'
  <2>1. IsInjective(log)'
    BY <1>0 DEF GormInv, LogSound, IsInjective
  <2>2. durable' \subseteq Written'
    BY <1>0 DEF GormInv, LogSound, Written
  <2> QED BY <1>0, <1>3, <2>1, <2>2 DEF GormInv, LogSound
<1>6. NestedOpen'
  BY <1>0, <1>2 DEF GormInv, NestedOpen
<1>7. StandingSound'
  BY <1>0, <1>2, <1>3 DEF GormInv, StandingSound
<1>8. KeptSound'
  BY <1>0, <1>2, <1>3 DEF GormInv, KeptSound
<1>9. KeepsExactly'
  BY <1>0, <1>1 DEF GormInv, KeepsExactly
<1> QED BY <1>4, <1>5, <1>6, <1>7, <1>8, <1>9 DEF GormInv

\* Every write.
LEMMA WriteStored ==
  ASSUME Stored, NEW g \in Goroutines, WriteAny(g) PROVE GormInv'
<1> PICK s : s = Running(g).scope
  OBVIOUS
<1>1. /\ Managed /\ s \notin Written
      /\ s \in Scopes /\ (rootStatus # "failed" => OnStack(s))
      /\ UNCHANGED <<rootStatus, stack, scope, op, backend>>
  BY Writer DEF Stored, WriteAny
<1>2. CASE InTransaction
  BY <1>1, <1>2, InsideStored DEF WriteAny
<1>3. CASE ~InTransaction
  <2>1. rootStatus = "failed"
    <3>1. OnStack(s) => stack # <<>> /\ rootStatus = "active"
      BY <1>1, RootFacts DEF OnStack
    <3> QED BY <1>1, <1>3, <3>1 DEF InTransaction
  <2> QED BY <1>1, <1>3, <2>1, OutsideStored DEF WriteAny
<1> QED BY <1>2, <1>3

-----------------------------------------------------------------------------
(* The invariant and what follows from it.                                 *)

\* Every step keeps the invariant.
LEMMA NextStored == Stored /\ [GormNext]_gormVars => Stored'
<1> SUFFICES ASSUME Stored, [GormNext]_gormVars PROVE Stored'
  OBVIOUS
<1>1. [ManagerNext]_managerVars /\ Managed /\ [Next]_vars
  BY GormNextAllowed, ManagerNextAllowed DEF Stored
<1>2. Managed' /\ FailedBegins'
  BY <1>1, NextManaged, NextFailed
<1>3. ASSUME NEW g \in Goroutines, GormCall(g) PROVE GormInv'
  <2>1. CASE GormBegin(g)
    BY <2>1, BeginStored
  <2>2. CASE GormBeginNested(g)
    <3>1. Adapter(g) /\ Calling(g, "beginNested") /\ UNCHANGED <<durable, under, raced, outside>>
      BY <2>2, GormCallAllowed DEF GormCall, GormBeginNested
    <3>2. CASE Answer(g, {"NestedTxUnsupported"}, "none", "after") /\ UNCHANGED log
      BY <3>1, <3>2, NoSavepointStored DEF dataVars
    <3>3. CASE /\ backend[Root] = "open" /\ Answer(g, {}, "open", "publish")
               /\ log' = Append(log, Savepoint(op[g].scope))
      BY <3>1, <3>3, SavepointStored
    <3> QED BY <2>2, <3>2, <3>3 DEF GormBeginNested
  <2> QED BY <1>3, <2>1, <2>2, CommitsStored, RollbacksStored DEF GormCall
<1>4. ASSUME UNCHANGED dataVars, PlainEnvironment PROVE GormInv'
  <2>1. UNCHANGED <<rootStatus, stack, scope, op, backend>>
    BY <1>4 DEF PlainEnvironment, Query, Cancel, SetRollbackOnly, state
  <2> QED BY <1>1, <1>4, <2>1, SameStill
<1>5. ASSUME UNCHANGED dataVars, NEW g \in Goroutines, Plain(g) PROVE GormInv'
  BY <1>5, CallersStill, PublishStill DEF Plain
<1>6. ASSUME UNCHANGED gormVars PROVE GormInv'
  BY <1>1, <1>6, SameStill DEF gormVars, managerVars, vars, state
<1>7. ASSUME GormNext PROVE GormInv'
  BY <1>3, <1>4, <1>5, <1>7, AbortStored, WriteStored, ExecutorStill DEF GormNext
<1> QED BY <1>2, <1>6, <1>7 DEF Stored

\* In every reachable state all of it holds.
LEMMA StoredInvariance == GormSpec => []Stored
<1>1. GormInit => Stored
  <2> SUFFICES ASSUME GormInit PROVE Stored
    OBVIOUS
  <2>1. Managed
    BY InitManaged DEF GormInit
  <2>2. /\ log = <<>> /\ durable = {} /\ raced = {} /\ outside = {} /\ stack = <<>>
        /\ under = [s \in Scopes |-> {}]
        /\ \A g \in Goroutines : op[g].pc = "idle"
    BY DEF GormInit, ManagerInit, Init, Idle
  <2>3. FailedBegins /\ \A s \in Scopes : ~Standing(s)
    BY <2>2 DEF FailedBegins, Standing, Pending, OnStack
  <2>4. LogSound
    BY <2>2 DEF LogSound, IsInjective, Logged, ToSet
  <2>5. GormTypeOK /\ UnderSound /\ KeptSound /\ KeepsExactly /\ WritesAreInside
    BY <2>2 DEF GormTypeOK, UnderSound, KeptSound, KeepsExactly, WritesAreInside
  <2>6. NestedOpen /\ StandingSound
    BY <2>3 DEF NestedOpen, StandingSound
  <2> QED BY <2>1, <2>3, <2>4, <2>5, <2>6 DEF Stored, GormInv
<1> QED BY <1>1, NextStored, PTL DEF GormSpec

\* Executions over this adapter behave as manager.go's executions over any, so
\* that every theorem about ManagerSpec, and about Spec, is one about them.
THEOREM GormWithinContract == GormSpec => WithinContract
<1>1. GormInit => ManagerInit
  BY DEF GormInit
<1> QED BY <1>1, GormNextAllowed, StoredInvariance, PTL DEF GormSpec, ManagerSpec, WithinContract

\* The log and the histories keep their types.
THEOREM GormTypes == GormSpec => []GormTypeOK
<1>1. Stored => GormTypeOK
  BY DEF Stored, GormInv
<1> QED BY <1>1, StoredInvariance, PTL

\* The database keeps a write if and only if it has committed the transaction
\* and every nested scope around the write has committed.
THEOREM CommitKeepsExactly == GormSpec => []KeepsExactly
<1>1. Stored => KeepsExactly
  BY DEF Stored, GormInv
<1> QED BY <1>1, StoredInvariance, PTL

\* A callback's write misses the transaction only after a failing rollback.
THEOREM WritesInside == GormSpec => []WritesAreInside
<1>1. Stored => WritesAreInside
  BY DEF Stored, GormInv
<1> QED BY <1>1, StoredInvariance, PTL

\* While the transaction is open the savepoints of the open scopes are in it,
\* in the order of the stack.
THEOREM SavepointsHold == GormSpec => []SavepointsStand
<1>1. Stored => SavepointsStand
  <2> SUFFICES ASSUME Stored, stack # <<>>, backend[Root] = "open"
               PROVE  LET nested == {i \in 2 .. Len(stack) : ~Soft(stack[i])} IN
                      /\ IsInjective(log)
                      /\ \A i \in nested : Savepoint(stack[i]) \in ToSet(log)
                      /\ \A i, j \in nested :
                           i < j => Place(Savepoint(stack[i])) < Place(Savepoint(stack[j]))
    BY DEF SavepointsStand
  <2> DEFINE nested == {i \in 2 .. Len(stack) : ~Soft(stack[i])}
  <2>1. IInv /\ GormInv
    BY DEF Stored, Managed, Usual
  <2>2. ASSUME NEW i \in nested
        PROVE  stack[i] \in Scopes /\ Standing(stack[i]) /\ Level(stack[i]) = i - 1 /\ i \in Nat
    <3>1. i \in DOMAIN stack /\ i \in Nat /\ i >= 2 /\ stack[i] \in Scopes /\ ~Soft(stack[i])
      BY <2>1 DEF IInv, TypeOK
    <3>2. scope[stack[i]].status = "active" /\ scope[stack[i]].depth = i - 1
      BY <2>1, <3>1 DEF IInv, ScopesNest
    <3>3. OnStack(stack[i]) /\ scope[stack[i]].depth > 0
      BY <3>1, <3>2 DEF OnStack
    <3> QED BY <3>1, <3>2, <3>3 DEF Standing, Level
  <2>3. ASSUME NEW i \in nested
        PROVE  /\ Logged(Savepoint(stack[i]))
               /\ \A j \in nested :
                    i < j => Place(Savepoint(stack[i])) < Place(Savepoint(stack[j]))
    <3>1. stack[i] \in Scopes /\ Standing(stack[i]) /\ Level(stack[i]) = i - 1 /\ i \in Nat
      BY <2>2
    <3>2. \A j \in nested : /\ stack[j] \in Scopes /\ Standing(stack[j])
                            /\ i < j => Level(stack[i]) < Level(stack[j])
      <4> SUFFICES ASSUME NEW j \in nested
                   PROVE  /\ stack[j] \in Scopes /\ Standing(stack[j])
                          /\ i < j => Level(stack[i]) < Level(stack[j])
        OBVIOUS
      <4>1. stack[j] \in Scopes /\ Standing(stack[j]) /\ Level(stack[j]) = j - 1 /\ j \in Nat
        BY <2>2
      <4>2. i < j => i - 1 < j - 1
        BY <3>1, <4>1
      <4> QED BY <3>1, <4>1, <4>2
    <3> QED BY <2>1, <3>1, <3>2 DEF GormInv, StandingSound
  <2> QED BY <2>1, <2>3 DEF GormInv, LogSound, Logged
<1> QED BY <1>1, StoredInvariance, PTL
=============================================================================
