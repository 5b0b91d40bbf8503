-------------------------- MODULE MiddlewareProofs --------------------------
(***************************************************************************)
(* What the client is told against what was committed, for chains of any   *)
(* length, both frameworks, any finalize policy and any RollbackOnStatus.  *)
(***************************************************************************)
EXTENDS Middleware, ManagerProofs

-----------------------------------------------------------------------------
(* The inductive invariant, given that of the executions.                  *)

Own == frames[Request]
Top == Running(Request)
Mine == op[Request]
Untold == [k \in 1 .. Len(layers) |-> "nil"]
Unwritten == [k \in 0 .. Len(layers) |-> Blank]

Typed ==
  /\ framework \in {"http", "fiber"} /\ globalAuto \in BOOLEAN
  /\ layers \in Chains /\ layers \in Seq(LayerConfig)
  /\ at \in 0 .. Len(layers)
  /\ pc \in {"enter", "run", "handler", "returned", "decide", "finalize", "ended", "done"}
  /\ err \in Answers /\ statusErr \in Status \cup {"none"}
  /\ passed \in [1 .. Len(layers) -> Answers]
  /\ response \in [0 .. Len(layers) -> Response]

\* Nobody else does anything, and user code calls nothing by hand.
Single ==
  /\ manual = {}
  /\ \A h \in Goroutines \ {Request} : frames[h] = <<>> /\ op[h].pc = "idle"

\* A layer writes to the nearest buffer around it.
WritersNest == \A k \in 0 .. at :
  /\ Writer(k) \in 0 .. k
  /\ \A j \in 1 .. k : Buffered(j) => Writer(k) >= j

\* The layers whose executions are running, of which the frames are the count.
Opened == {k \in 1 .. at : Starts(k) /\ ~(k = at /\ pc = "ended")}

\* Where the request is, and where its innermost execution is then.
Down == pc \in {"enter", "run", "handler"}
Staged ==
  /\ Cardinality(Opened) = Len(Own)
  /\ Own # <<>> => Own[1].root
  /\ pc \in {"run", "decide", "finalize"} => at > 0 /\ Starts(at)
  /\ pc = "ended" => at > 0
  /\ pc = "done" => at = 0
  /\ pc = "handler" => at = Len(layers)
  /\ pc = "run" => At(Request, "asked") \/ At(Request, "begin")
  /\ pc = "decide" => At(Request, "fn")
  /\ pc = "finalize" => At(Request, "decided") \/ At(Request, "end")
  /\ pc \in {"enter", "handler", "returned", "ended", "done"} => Own = <<>> \/ At(Request, "fn")
  /\ pc \notin {"run", "finalize"} => Mine.pc = "idle"

\* What is being returned: nothing on the way down; over HTTP nothing but
\* what an execution has answered.
Returning ==
  /\ Down => err = "nil" /\ passed = Untold
  /\ pc \in {"enter", "run"} => response = Unwritten
  /\ err = "status" => pc = "ended" /\ statusErr # "none"
  /\ \A k \in DOMAIN passed : passed[k] \notin {"status", "panic"}
  /\ pc = "done" /\ err \notin {"nil", "panic"} => Client.body # "handler"
  /\ framework = "http" =>
       /\ passed = Untold
       /\ pc # "ended" \/ ~Starts(at) => err \in {"nil", "panic"}

\* On the way down nothing ends: what has begun belongs to a running execution
\* or is about to.
IsOwn(s) == \E i \in DOMAIN Own : Own[i].stage \in Held /\ Own[i].scope = s
Beginnings ==
  /\ Down => rootStatus \in {"none", "active"}
  /\ Down /\ ~(pc = "run" /\ Mine.pc = "done" /\ Mine.ret # {}) =>
       \A s \in Scopes :
         scope[s].status = "none" \/ IsOwn(s) \/ (pc = "run" /\ Mine.scope = s)

\* What the executor has decided.
Deciding ==
  pc = "finalize" =>
    /\ Top.outcome = FnOutcome
    /\ Top.plan = "commit" => Top.cause = Top.outcome
    /\ "FnError" \in Top.cause => Top.outcome = {"FnError"}
    /\ Top.root /\ Top.plan = "rollback" /\ Top.outcome = {} => Top.cause = {"RollbackCause"}
    /\ Top.outcome = {"FnPanic"} => Top.plan = "rollback"
    /\ Top.root /\ Top.outcome # {} /\ DefaultPolicy => Top.plan = "rollback"

\* A finalization that was refused has rolled back nothing.
RefusedEndsNothing ==
  pc = "finalize" /\ At(Request, "end") /\ Mine.pc = "done" /\ Refused(Mine) =>
    scope[Top.scope].status # "rolledBack"

\* As long as the handler's success is on its way up, what has begun and does
\* not belong to a running execution has committed.
Clean == err = "nil" /\ (pc \in {"decide", "finalize", "ended"} => passed[at] = "nil")
Success ==
  /\ response[Writer(at)].body = "handler"
  /\ framework = "http" \/ (response[Writer(at)].status = "ok" /\ ~RollsBackSuccess)
SuccessTells ==
  Clean /\ Success =>
    \A s \in Scopes : scope[s].status \in {"none", "committed"} \/ IsOwn(s)

\* What is with the client is past all buffers.
ClientTells ==
  framework = "http" /\ Client.body = "handler" =>
    /\ Writer(at) = 0
    /\ \A s \in Scopes : scope[s].status \in {"none", "committed"}

\* A status is the reason only of a rollback that some layer asked for.
ReasonGiven ==
  statusErr # "none" =>
    /\ \E k \in DOMAIN layers : statusErr \in layers[k].rollbackOn
    /\ rootStatus # "none"
    /\ rootStatus = "active" => MarkedOnly

\* The outermost layer from its look at the status to the client.
Judged(k) == response[k].status \in layers[1].rollbackOn
Preventing ==
  /\ layers # <<>> /\ Starts(1) /\ err # "panic"
  /\ framework = "http" \/ (DefaultPolicy /\ passed[1] = "nil")
  =>
  /\ at = 1 /\ pc = "decide" /\ err = "nil" /\ Judged(Writer(1)) =>
       (rootStatus = "active" => MarkedOnly)
  /\ at = 1 /\ pc = "finalize" /\ Top.plan = "commit" /\ rootStatus # "failed" =>
       err = "nil" /\ ~Judged(Writer(1))
  /\ at = 1 /\ pc = "ended" /\ rootStatus = "committed" => err = "nil" /\ ~Judged(Writer(1))
  /\ at = 0 /\ rootStatus = "committed" => err = "nil" /\ ~Judged(0)

\* A status that asked for the rollback, from the root's layer to the client.
Preserving ==
  framework = "http" /\ statusErr # "none" /\ err # "panic" =>
    /\ pc = "finalize" /\ Top.root /\ rootStatus # "failed" => Top.plan = "rollback"
    /\ rootStatus = "rolledBack" =>
         \/ pc = "finalize"
         \/ pc = "ended" /\ err = "status"
         \/ /\ pc \in {"returned", "ended", "done"} /\ err = "nil"
            /\ response[Writer(at)].status = statusErr

\* A panic, from the handler to the server.
Panicking ==
  ~CallbackPanics =>
    /\ "Panic" \notin Mine.ret
    /\ err = "panic" => rootStatus # "committed"
ClientWaits ==
  layers # <<>> /\ Buffered(1) =>
    /\ at > 0 => Client = Blank
    /\ err = "panic" => ~Client.started

Control == Typed /\ Single /\ WritersNest /\ Staged /\ Returning
Telling ==
  /\ Beginnings /\ Deciding /\ RefusedEndsNothing /\ SuccessTells /\ ClientTells
  /\ ReasonGiven /\ Preventing /\ Preserving /\ Panicking /\ ClientWaits
Served == Managed /\ MarkNeedsRoot /\ Control /\ Telling


-----------------------------------------------------------------------------
(* Writers and layers.                                                     *)

\* A buffered layer writes to its own buffer, another one as the layer above.
LEMMA WriterOwn ==
  ASSUME NEW k \in Nat \ {0}, Buffered(k) PROVE Writer(k) = k
<1> DEFINE S == {0} \cup {j \in 1 .. k : Buffered(j)}
<1>1. k \in S /\ \A j \in S : k >= j /\ j \in Nat
  OBVIOUS
<1> HIDE DEF S
<1>2. \A x \in S : (\A j \in S : x >= j) => x = k
  BY <1>1
<1>3. Max(S) = k
  BY <1>1, <1>2 DEF Max
<1> QED BY <1>3 DEF Writer, S

LEMMA WriterAbove ==
  ASSUME NEW k \in Nat \ {0}, ~Buffered(k) PROVE Writer(k) = Writer(k - 1)
<1>1. {j \in 1 .. k : Buffered(j)} = {j \in 1 .. k - 1 : Buffered(j)}
  OBVIOUS
<1> QED BY <1>1 DEF Writer

LEMMA WriterClient == Writer(0) = 0
<1>1. {0} \cup {j \in 1 .. 0 : Buffered(j)} = {0}
  OBVIOUS
<1>2. Max({0}) = 0
  BY DEF Max
<1> QED BY <1>1, <1>2 DEF Writer

\* The chain stays as it is, and so does what follows from it.
LEMMA ChainStill ==
  ASSUME UNCHANGED chainVars
  PROVE  /\ \A k : Writer(k)' = Writer(k) /\ (Starts(k)' <=> Starts(k))
                   /\ (Buffered(k)' <=> Buffered(k))
         /\ RollsBackSuccess' <=> RollsBackSuccess
         /\ Untold' = Untold
<1>1. framework' = framework /\ layers' = layers /\ globalAuto' = globalAuto
  BY DEF chainVars
<1>2. ASSUME NEW k PROVE Buffered(k)' <=> Buffered(k)
  BY <1>1 DEF Buffered
<1>3. ASSUME NEW k PROVE Writer(k)' = Writer(k)
  <2>1. {j \in 1 .. k : Buffered(j)'} = {j \in 1 .. k : Buffered(j)}
    BY <1>2
  <2> QED BY <2>1 DEF Writer
<1> QED BY <1>1, <1>2, <1>3 DEF Starts, RollsBackSuccess, Untold

\* The writers of the layers that have been entered exist.
LEMMA WriterFacts ==
  ASSUME Control, NEW k \in 0 .. at
  PROVE  /\ Writer(k) \in 0 .. Len(layers) /\ response[Writer(k)] \in Response
         /\ Writer(k) <= k /\ k \in Nat /\ k \in 0 .. Len(layers)
<1>1. Writer(k) \in 0 .. k /\ at \in 0 .. Len(layers) /\ Len(layers) \in Nat
  BY DEF Control, WritersNest, Typed
<1> QED BY <1>1 DEF Control, Typed

\* Over HTTP a layer that starts a transaction has a buffer.
LEMMA StartsBuffered ==
  ASSUME Control, NEW k \in 1 .. Len(layers), Starts(k), framework = "http"
  PROVE  Buffered(k)
BY DEF Starts, Buffered

\* Under a client without any buffer no execution runs.
LEMMA NothingBuffered ==
  ASSUME Control, framework = "http", NEW n \in 0 .. at, Writer(n) = 0, Opened \subseteq 1 .. n
  PROVE  Own = <<>>
<1>1. at \in Nat /\ at <= Len(layers) /\ Len(layers) \in Nat
  BY DEF Control, Typed
<1>2. ASSUME NEW k \in 1 .. n, Starts(k) PROVE FALSE
  <2>1. Buffered(k)
    BY <1>1, <1>2, StartsBuffered
  <2> QED BY <1>1, <2>1 DEF Control, WritersNest
<1>3. Opened = {}
  BY <1>2 DEF Opened
<1>4. Len(Own) = 0
  BY <1>3, FS_EmptySet DEF Control, Staged
<1> QED BY <1>4 DEF Control, Staged

-----------------------------------------------------------------------------
(* The calls of the request.                                               *)

LEMMA ContextStaysDone == ASSUME IInv, [Next]_vars, ctxDone PROVE ctxDone'
<1> TypeOK
  BY DEF IInv
<1>1. CASE Environment
  BY <1>1 DEF Environment, Query, SetRollbackOnly, Cancel, BackendAborts
<1>2. CASE \E g \in Goroutines : CallAny(g) \/ Return(g)
  BY <1>2, OutsideStep DEF StateKept
<1>3. CASE \E g \in Goroutines : Step(g)
  <2> PICK g \in Goroutines : Step(g)
    BY <1>3
  <2>1. CASE Enter(g)
    BY <2>1, EnterStep DEF StateKept
  <2>2. CASE RunBefore(g) \/ Finish(g) \/ Compensate(g) \/ CallbackPanic(g)
    BY <2>2, InnerStep DEF StateKept
  <2>3. CASE Adapter(g)
    BY <2>3, AdapterStep
  <2>4. CASE Publish(g)
    BY <2>4, PublishStep
  <2> QED BY <2>1, <2>2, <2>3, <2>4 DEF Step, Progress
<1>4. CASE UNCHANGED vars
  BY <1>4 DEF vars
<1> QED BY <1>1, <1>2, <1>3, <1>4 DEF Next

\* An active root that is marked, or whose context is done, stays so.
LEMMA MarkStays ==
  ASSUME IInv, MarkNeedsRoot, [Next]_vars,
         rootStatus = "active", rootStatus' = "active", MarkedOnly
  PROVE  MarkedOnly'
<1>1. rollbackOnly => rollbackOnly'
  BY NextKeeps DEF Kept, DoomKept
<1>2. ctxDone => ctxDone'
  BY ContextStaysDone
<1> QED BY <1>1, <1>2 DEF MarkedOnly, Cancelled

\* The request is inside a call only while it begins or finalizes.
LEMMA CallOfRequest ==
  ASSUME Managed, Control, Step(Request)
  PROVE  /\ Request \in Goroutines /\ Own # <<>>
         /\ Mine.pc \in {"lock"} \cup Inside
         /\ \/ /\ pc = "run" /\ At(Request, "begin") /\ Mine.kind \in BeginKind
            \/ /\ pc = "finalize" /\ At(Request, "end") /\ Mine.kind \in FinalizeKind
               /\ Mine.scope = Top.scope /\ Top.scope \in Scopes
<1>1. Request \in Goroutines
  BY RequestAssumption
<1>2. Mine.pc \in {"lock"} \cup Inside
  BY <1>1, StepKind DEF Managed, Mine
<1>3. Mine.pc # "idle" /\ Mine.pc # "done"
  BY <1>2 DEF Inside
<1>4. pc \in {"run", "finalize"}
  BY <1>3 DEF Control, Staged
<1>5. Belongs(Request)
  BY <1>1 DEF Managed, ManagerInv, CallsSound
<1>6. CASE pc = "run"
  <2>1. At(Request, "begin")
    BY <1>3, <1>5, <1>6 DEF Control, Staged, Belongs, Mine
  <2>2. Mine.kind \in BeginKind /\ Own # <<>>
    BY <1>5, <2>1 DEF Belongs, Kind, BeginKind, Mine, At, Own
  <2> QED BY <1>1, <1>2, <1>6, <2>1, <2>2
<1>7. CASE pc = "finalize"
  <2>1. At(Request, "end") /\ Own # <<>>
    BY <1>3, <1>5, <1>7 DEF Control, Staged, Belongs, Mine, At, Own
  <2>2. Mine.kind \in FinalizeKind /\ Mine.scope = Top.scope
    BY <1>3, <1>5, <2>1 DEF Belongs, Mine, Top
  <2>3. FrameSound(Top) /\ Top.stage = "end"
    BY <1>1, <2>1, RunningSound, RunningFacts DEF Top, Own, At, Managed, ManagerInv
  <2>4. Top.scope \in Scopes
    BY <2>3 DEF FrameSound, Held
  <2> QED BY <1>1, <1>2, <1>7, <2>1, <2>2, <2>4
<1> QED BY <1>4, <1>6, <1>7

\* What a step of its call does to the scopes: a begin that publishes its own,
\* or the end of the scope that is being finalized.
LEMMA ScopesMove ==
  ASSUME Managed, Control, Step(Request)
  PROVE  /\ OthersKept(Request)
         /\ \/ UNCHANGED <<rootStatus, stack, scope>>
            \/ /\ Mine.kind \in BeginKind /\ pc = "run" /\ Mine.pc = "publish"
               /\ rootStatus' = "active" /\ rootStatus \in {"none", "active"}
               /\ op'[Request].scope = Mine.scope
               /\ \A s \in Scopes \ {Mine.scope} : scope'[s] = scope[s]
            \/ /\ Mine.kind \in FinalizeKind /\ pc = "finalize" /\ rootStatus = "active"
               /\ Mine.pc = "publish"
               /\ op'[Request].pc = "after"
               /\ Root \in Scopes /\ scope[Root].status = "active"
               /\ \A s \in Scopes \ {Mine.scope, Root} : scope'[s] = scope[s]
               /\ \/ rootStatus' \in {"active", "failed"}
                  \/ /\ Mine.scope = Root /\ scope[Root].depth = 0
                     /\ rootStatus' = IF Mine.kind = "commit" THEN "committed" ELSE "rolledBack"
<1> DEFINE g == Request
<1>1. /\ g \in Goroutines /\ IInv /\ Usual
      /\ \/ pc = "run" /\ Mine.kind \in BeginKind
         \/ pc = "finalize" /\ Mine.kind \in FinalizeKind
  BY CallOfRequest DEF Managed, Usual
<1>2. OthersKept(g)
  BY <1>1, StepKind
<1>3. CASE PublishBeginRoot(g) \/ PublishBeginNested(g)
  <2>1. Publish(g)
    BY <1>3 DEF Publish
  <2>2. rootStatus \in {"none", "active"} /\ op'[g].scope = op[g].scope
    BY <1>1, <1>3, <2>1, PublishStep
       DEF PublishBeginRoot, PublishBeginNested, PublishCommit, PublishRollback
  <2>3. /\ rootStatus' = "active" /\ \A t \in Scopes \ {op[g].scope} : scope'[t] = scope[t]
    BY <1>1, <1>3, PublishedBegin
  <2>4. op[g].pc = "publish" /\ op[g].kind \in BeginKind
    BY <1>3 DEF PublishBeginRoot, PublishBeginNested, BeginKind
  <2> QED BY <1>1, <1>2, <2>2, <2>3, <2>4 DEF Mine, BeginKind, FinalizeKind
<1>4. CASE PublishCommit(g) \/ PublishRollback(g)
  <2>1. Publish(g)
    BY <1>4 DEF Publish
  <2>2. op[g].pc = "publish" /\ op[g].kind \in FinalizeKind
    BY <1>4 DEF PublishCommit, PublishRollback, FinalizeKind
  <2>3. op'[g].pc = "after"
    BY <1>1, <2>1, PublishStep
  <2>4. /\ rootStatus = "active" /\ Root \in Scopes /\ scope[Root].status = "active"
        /\ scope[op[g].scope].depth = 0 <=> op[g].scope = Root
        /\ \A s \in Scopes \ {op[g].scope, Root} : scope'[s] = scope[s]
        /\ \/ rootStatus' \in {"active", "failed"}
           \/ op[g].scope = Root /\ rootStatus' = scope'[op[g].scope].status
    BY <1>1, <1>4, PublishedEnd
  <2>5. \/ op[g].kind = "commit" /\ scope'[op[g].scope].status = "committed"
        \/ op[g].kind = "rollback" /\ op[g].attempt = {} /\ scope'[op[g].scope].status = "rolledBack"
        \/ op[g].kind = "rollback" /\ op[g].attempt # {} /\ rootStatus' = "failed"
    BY <1>1, <1>4, <2>2, PublishedEnd DEF FinalizeKind
  <2> QED BY <1>1, <1>2, <2>2, <2>3, <2>4, <2>5 DEF Mine, BeginKind, FinalizeKind
<1>5. CASE ~Publish(g)
  BY <1>1, <1>2, <1>5, OnlyPublications
<1> QED BY <1>1, <1>3, <1>4, <1>5 DEF Publish

-----------------------------------------------------------------------------
(* The UnitOfWork moves, and the request stays where it is.                *)

LEMMA RequestStill ==
  ASSUME UNCHANGED <<frames, requestVars>>
  PROVE  /\ Own' = Own /\ Top' = Top /\ Opened' = Opened /\ FnOutcome' = FnOutcome
         /\ Down' <=> Down
         /\ Clean' <=> Clean
         /\ Success' <=> Success
         /\ Client' = Client /\ Writer(at)' = Writer(at) /\ Unwritten' = Unwritten
         /\ \A stage : At(Request, stage)' <=> At(Request, stage)
         /\ \A s : IsOwn(s)' <=> IsOwn(s)
         /\ UNCHANGED <<chainVars, at, pc, err, passed, response, statusErr>>
         /\ UNCHANGED <<framework, globalAuto, layers>>
<1>1. UNCHANGED <<chainVars, at, pc, err, passed, response, statusErr>>
  BY DEF requestVars
<1>2. UNCHANGED <<framework, globalAuto, layers>>
  BY <1>1 DEF chainVars
<1>3. /\ \A k : Writer(k)' = Writer(k) /\ (Starts(k)' <=> Starts(k))
      /\ RollsBackSuccess' <=> RollsBackSuccess
  BY <1>1, ChainStill
<1>4. Own' = Own /\ Top' = Top
  BY DEF Own, Top, Running, Asked
<1>5. Opened' = Opened
  BY <1>1, <1>3 DEF Opened
<1>6. Writer(at)' = Writer(at)
  BY <1>1, <1>3
<1>7. Success' <=> Success
  BY <1>1, <1>2, <1>3, <1>6 DEF Success
<1> QED BY <1>1, <1>2, <1>4, <1>5, <1>6, <1>7
        DEF FnOutcome, Down, Clean, Client, Unwritten, Blank, At, IsOwn

LEMMA MoveControls ==
  ASSUME Managed, Control, Environment \/ Step(Request) \/ UNCHANGED vars,
         UNCHANGED <<frames, manual, requestVars>>
  PROVE  Control'
<1>1. UNCHANGED <<frames, requestVars>>
  OBVIOUS
<1>2. /\ UNCHANGED <<chainVars, at, pc, err, passed, response, statusErr>>
      /\ UNCHANGED <<framework, globalAuto, layers>>
      /\ Own' = Own /\ Opened' = Opened /\ Unwritten' = Unwritten /\ Client' = Client
      /\ Down' <=> Down
      /\ \A stage : At(Request, stage)' <=> At(Request, stage)
  BY <1>1, RequestStill
<1>3. /\ \A k : Writer(k)' = Writer(k) /\ (Starts(k)' <=> Starts(k))
                /\ (Buffered(k)' <=> Buffered(k))
      /\ Untold' = Untold
  BY <1>2, ChainStill
<1>4. \/ UNCHANGED op
      \/ pc \in {"run", "finalize"} /\ OthersKept(Request)
  BY CallOfRequest, ScopesMove, EnvironmentStep DEF Managed, Usual, vars, state
<1>5. Typed'
  BY <1>2 DEF Control, Typed
<1>6. Single'
  BY <1>2, <1>4 DEF Control, Single, OthersKept
<1>7. WritersNest'
  BY <1>2, <1>3 DEF Control, WritersNest
<1>8. Staged'
  BY <1>2, <1>3, <1>4 DEF Control, Staged, Mine
<1>9. Returning'
  BY <1>2, <1>3 DEF Control, Returning
<1> QED BY <1>5, <1>6, <1>7, <1>8, <1>9 DEF Control

\* The marks, the context and the database change nothing that the request
\* has learned.
LEMMA EnvironmentTells ==
  ASSUME Served, Environment \/ UNCHANGED vars, UNCHANGED <<frames, manual, requestVars>>
  PROVE  Telling'
<1>1. UNCHANGED <<frames, requestVars>>
  OBVIOUS
<1>2. /\ UNCHANGED <<chainVars, at, pc, err, passed, response, statusErr>>
      /\ UNCHANGED <<framework, globalAuto, layers>>
      /\ Own' = Own /\ Top' = Top /\ FnOutcome' = FnOutcome /\ Client' = Client
      /\ Down' <=> Down
      /\ Clean' <=> Clean
      /\ Success' <=> Success
      /\ Writer(at)' = Writer(at)
      /\ \A stage : At(Request, stage)' <=> At(Request, stage)
      /\ \A s : IsOwn(s)' <=> IsOwn(s)
  BY <1>1, RequestStill
<1>3. \A k : Writer(k)' = Writer(k) /\ (Starts(k)' <=> Starts(k))
             /\ (Buffered(k)' <=> Buffered(k))
  BY <1>2, ChainStill
<1>4. UNCHANGED <<rootStatus, scope, op>>
  BY EnvironmentStep DEF Served, Managed, Usual, vars, state
<1>5. rootStatus = "active" /\ MarkedOnly => MarkedOnly'
  BY <1>4, MarkStays DEF Served, Managed, Usual, Next
<1>6. Mine' = Mine
  BY <1>4 DEF Mine
<1>7. Beginnings' /\ Deciding'
  BY <1>2, <1>4, <1>6 DEF Served, Telling, Beginnings, Deciding
<1>8. RefusedEndsNothing'
  BY <1>2, <1>4, <1>6 DEF Served, Telling, RefusedEndsNothing, Refused
<1>9. SuccessTells' /\ ClientTells'
  BY <1>2, <1>4 DEF Served, Telling, SuccessTells, ClientTells
<1>10. ReasonGiven'
  BY <1>2, <1>4, <1>5 DEF Served, Telling, ReasonGiven
<1>11. \A k : Judged(k)' <=> Judged(k)
  BY <1>2 DEF Judged
<1>12. Judged(Writer(1))' <=> Judged(Writer(1))
  BY <1>2, <1>3 DEF Judged
<1>13. Preventing'
  BY <1>2, <1>3, <1>4, <1>5, <1>11, <1>12 DEF Served, Telling, Preventing
<1>14. Preserving'
  BY <1>2, <1>4, <1>6 DEF Served, Telling, Preserving
<1>15. Panicking' /\ ClientWaits'
  BY <1>2, <1>3, <1>4, <1>6 DEF Served, Telling, Panicking, ClientWaits
<1> QED BY <1>7, <1>8, <1>9, <1>10, <1>13, <1>14, <1>15 DEF Telling

-----------------------------------------------------------------------------
(* A call of the request moves on.                                         *)

\* Where no callback panics, no call answers a panic.
LEMMA NoPanic ==
  ASSUME Usual, ~CallbackPanics, NEW g \in Goroutines, Step(g), "Panic" \notin op[g].ret
  PROVE  "Panic" \notin op'[g].ret
<1>1. /\ op \in [Goroutines -> Operation] /\ op[g].before \cup op[g].attempt \cup op[g].commitErr \subseteq Given
      /\ "Panic" \notin Given /\ "Panic" \notin Refusals
  BY DEF Usual, IInv, TypeOK, OutcomeInv, Known, Aware, ErrorsGiven, Given, Refusals
<1>2. CASE Enter(g)
  <2>1. CASE op'[g].pc = "done"
    BY <1>1, <1>2, <2>1, EnterStep DEF Usual
  <2>2. CASE op'[g].pc # "done"
    <3>1. \A e : ~Refuse(g, e)
      BY <1>1, <2>2 DEF Refuse, Operation
    <3>2. \E s, mode : Admit(g, s, mode)
      BY <1>2, <3>1 DEF Enter, beginRoot, beginNestedScope, commitScope, rollbackScope
    <3> QED BY <1>1, <3>2 DEF Admit
  <2> QED BY <2>1, <2>2
<1>3. CASE RunBefore(g)
  BY <1>1, <1>3 DEF RunBefore
<1>4. CASE Adapter(g)
  <2>1. \E e, status, next : Answer(g, e, status, next)
    BY <1>4 DEF Adapter, AdapterBegin, AdapterBeginNested, AdapterCommit, AdapterRollback
  <2> QED BY <1>1, <2>1 DEF Answer
<1>5. CASE Publish(g)
  <2>1. op' = [op EXCEPT ![g].pc = "after"]
    BY <1>5 DEF Publish, PublishBeginRoot, PublishBeginNested, PublishCommit, PublishRollback
  <2> QED BY <1>1, <2>1
<1>6. CASE Finish(g)
  <2>1. op'[g].ret = Result(op[g])
    BY <1>1, <1>6 DEF Finish
  <2>2. "Panic" \notin BeginResult(op[g])
    BY <1>1 DEF BeginResult
  <2>3. "Panic" \notin RollbackResult(op[g])
    BY <1>1 DEF RollbackResult
  <2>4. "Panic" \notin commitFailureError(op[g])
    BY <1>1 DEF commitFailureError
  <2> QED BY <2>1, <2>2, <2>3, <2>4 DEF Result
<1>7. CASE Compensate(g)
  BY <1>1, <1>7 DEF Compensate
<1>8. CASE CallbackPanic(g)
  BY <1>8 DEF CallbackPanic
<1> QED BY <1>2, <1>3, <1>4, <1>5, <1>6, <1>7, <1>8 DEF Step, Progress

\* A begin keeps the scope that it was admitted with, or answers an error.
LEMMA BeginKeepsScope ==
  ASSUME Usual, Usual', NEW g \in Goroutines, Step(g), op[g].kind \in BeginKind,
         op[g].scope \in Scopes
  PROVE  op'[g].scope = op[g].scope \/ (op'[g].pc = "done" /\ op'[g].ret # {})
<1>1. op[g].scope # NoScope
  BY NullAssumption
<1>2. CASE Enter(g)
  <2>1. op[g].pc = "lock" /\ CallSound(g)
    BY <1>2, EnterStep DEF Usual, CallInv
  <2> QED BY <1>1, <2>1 DEF CallSound
<1>3. CASE Adapter(g) \/ Publish(g)
  BY <1>3, AdapterStep, PublishStep DEF Usual
<1>4. CASE RunBefore(g) \/ Finish(g) \/ Compensate(g) \/ CallbackPanic(g)
  <2>1. op[g].kind # "commit"
    BY DEF BeginKind
  <2>2. \/ op'[g].scope = op[g].scope
        \/ op'[g].pc = "done" /\ op'[g].kind = op[g].kind /\ op'[g].scope = NoScope
    BY <1>4, <2>1, InnerStep DEF Usual, CommitFailed
  <2>3. CallSound(g)'
    BY DEF Usual, CallInv
  <2> QED BY <2>2, <2>3 DEF CallSound
<1> QED BY <1>2, <1>3, <1>4 DEF Step, Progress

\* A finalization that answers that it was refused has found its scope open,
\* or its root failed.
LEMMA RefusalEndsNothing ==
  ASSUME Managed, NEW g \in Goroutines, Step(g), At(g, "end"), op[g].kind \in FinalizeKind,
         op'[g].pc = "done", Refused(op[g])'
  PROVE  scope'[Running(g).scope].status # "rolledBack"
<1>1. CASE Enter(g)
  <2>1. op[g].pc = "lock" /\ scope' = scope
    BY <1>1, EnterStep DEF Managed, Usual, StateKept
  <2>2. Untouched(Running(g).scope)
    BY <2>1 DEF Managed, ManagerInv, CallsSound, Finalizing
  <2> QED BY <2>1, <2>2 DEF Untouched
<1>2. CASE Adapter(g) \/ Publish(g)
  BY <1>2, AdapterStep, PublishStep DEF Managed, Usual
<1>3. CASE RunBefore(g) \/ Finish(g) \/ Compensate(g) \/ CallbackPanic(g)
  <2>1. CASE op'[g].ret = {"Panic"}
    BY <2>1 DEF Refused
  <2>2. CASE op'[g].ret # {"Panic"}
    <3>1. op'[g].ret = Result(op[g])
      BY <1>3, <2>2, InnerStep DEF Managed, Usual
    <3>2. op'[g].ret \in {{}, RollbackResult(op[g]), commitFailureError(op[g])}
      BY <3>1 DEF Result, BeginKind, FinalizeKind
    <3>3. op[g].before \cup op[g].attempt \cup op[g].commitErr \subseteq Given
      BY DEF Managed, Usual, OutcomeInv, Known, Aware, ErrorsGiven
    <3>4. op'[g].ret \subseteq
            Given \cup {"RollbackFailed", "FinalizationFailed", "CommitAborted"}
      BY <3>2, <3>3 DEF RollbackResult, commitFailureError
    <3> QED BY <3>4 DEF Refused, Given
  <2> QED BY <2>1, <2>2
<1> QED BY <1>1, <1>2, <1>3 DEF Step, Progress

\* Every step of a call of the request keeps what has been told.
LEMMA StepTells ==
  ASSUME Served, Step(Request), UNCHANGED <<frames, manual, requestVars>>
  PROVE  Telling'
<1>1. UNCHANGED <<frames, requestVars>>
  OBVIOUS
<1>2. /\ UNCHANGED <<chainVars, at, pc, err, passed, response, statusErr>>
      /\ UNCHANGED <<framework, globalAuto, layers>>
      /\ Own' = Own /\ Top' = Top /\ FnOutcome' = FnOutcome /\ Client' = Client
      /\ Down' <=> Down
      /\ Clean' <=> Clean
      /\ Success' <=> Success
      /\ Writer(at)' = Writer(at)
      /\ \A stage : At(Request, stage)' <=> At(Request, stage)
      /\ \A s : IsOwn(s)' <=> IsOwn(s)
  BY <1>1, RequestStill
<1>3. \A k : Writer(k)' = Writer(k) /\ (Starts(k)' <=> Starts(k))
             /\ (Buffered(k)' <=> Buffered(k))
  BY <1>2, ChainStill
<1>4. Managed /\ Control /\ Telling /\ Usual /\ IInv /\ MarkNeedsRoot
  BY DEF Served, Managed, Usual
<1>5. /\ Request \in Goroutines /\ Own # <<>> /\ Mine.pc \in {"lock"} \cup Inside
      /\ \/ pc = "run" /\ At(Request, "begin") /\ Mine.kind \in BeginKind
         \/ /\ pc = "finalize" /\ At(Request, "end") /\ Mine.kind \in FinalizeKind
            /\ Mine.scope = Top.scope /\ Top.scope \in Scopes
  BY <1>4, CallOfRequest
<1>6. /\ OthersKept(Request)
      /\ \/ UNCHANGED <<rootStatus, stack, scope>>
         \/ /\ Mine.kind \in BeginKind /\ pc = "run" /\ Mine.pc = "publish"
            /\ rootStatus' = "active" /\ rootStatus \in {"none", "active"}
            /\ op'[Request].scope = Mine.scope
            /\ \A s \in Scopes \ {Mine.scope} : scope'[s] = scope[s]
         \/ /\ Mine.kind \in FinalizeKind /\ pc = "finalize" /\ rootStatus = "active"
            /\ Mine.pc = "publish"
            /\ op'[Request].pc = "after"
            /\ Root \in Scopes /\ scope[Root].status = "active"
            /\ \A s \in Scopes \ {Mine.scope, Root} : scope'[s] = scope[s]
            /\ \/ rootStatus' \in {"active", "failed"}
               \/ /\ Mine.scope = Root /\ scope[Root].depth = 0
                  /\ rootStatus' = IF Mine.kind = "commit" THEN "committed" ELSE "rolledBack"
  BY <1>4, ScopesMove
<1>7. Usual'
  <2>1. [ManagerNext]_managerVars
    BY <1>5 DEF ManagerNext
  <2> QED BY <1>4, <2>1, NextManaged DEF Managed
<1>8. rootStatus = "active" /\ rootStatus' = "active" /\ MarkedOnly => MarkedOnly'
  BY <1>4, <1>5, MarkStays DEF Next
<1>9. Mine.pc # "done" /\ Mine' = op'[Request]
  BY <1>5 DEF Inside, Mine
<1>10. Beginnings'
  <2>1. Down' => rootStatus' \in {"none", "active"}
    BY <1>2, <1>4, <1>5, <1>6 DEF Down, Telling, Beginnings
  <2>2. ASSUME Down, ~(op'[Request].pc = "done" /\ op'[Request].ret # {}),
               NEW s \in Scopes, scope'[s].status # "none", ~IsOwn(s)
        PROVE  op'[Request].scope = s
    <3>1. pc = "run" /\ Mine.kind \in BeginKind
      BY <1>5, <2>2 DEF Down
    <3>2. scope[s].status = "none" \/ Mine.scope = s
      BY <1>4, <1>9, <2>2 DEF Telling, Beginnings
    <3>3. scope[s].status = "none" => Mine.scope = s /\ op'[Request].scope = s
      BY <1>6, <2>2, <3>1 DEF BeginKind, FinalizeKind
    <3> QED BY <1>4, <1>5, <1>7, <2>2, <3>1, <3>2, <3>3, BeginKeepsScope DEF Mine
  <2>3. Down => pc = "run"
    BY <1>5 DEF Down
  <2> QED BY <1>2, <1>9, <2>1, <2>2, <2>3 DEF Beginnings
<1>11. Deciding'
  BY <1>2, <1>4 DEF Telling, Deciding
<1>12. RefusedEndsNothing'
  BY <1>2, <1>4, <1>5, <1>9, RefusalEndsNothing DEF RefusedEndsNothing, Top, Mine, Refused
<1>13. Own \in Seq(Frame) /\ Len(Own) \in DOMAIN Own /\ Top = Own[Len(Own)]
  BY <1>4, <1>5, RunningFacts DEF Managed, ManagerInv, ManagerTypeOK, Own, Top
<1>14. SuccessTells'
  <2>1. CASE pc = "run"
    <3>1. at \in 0 .. at
      BY <1>4 DEF Control, Typed
    <3>2. response = Unwritten /\ Writer(at) \in 0 .. Len(layers)
      BY <1>4, <2>1, <3>1, WriterFacts DEF Control, Returning
    <3>3. ~Success
      BY <3>2 DEF Unwritten, Blank, Success
    <3> QED BY <1>2, <3>3 DEF SuccessTells
  <2>2. ASSUME pc = "finalize", Clean, Success, NEW s \in Scopes
        PROVE  scope'[s].status \in {"none", "committed"} \/ IsOwn(s)
    <3>1. scope[s].status \in {"none", "committed"} \/ IsOwn(s)
      BY <1>4, <2>2 DEF Telling, SuccessTells
    <3>2. IsOwn(Top.scope)
      BY <1>4, <1>5, <1>13, <2>2, RunningFacts
         DEF IsOwn, Held, At, Own, Top, BeginKind, FinalizeKind, Managed, ManagerInv
    <3>3. s # Top.scope /\ ~IsOwn(s) => scope'[s] = scope[s]
      BY <1>5, <1>6, <2>2, <3>1 DEF BeginKind, FinalizeKind
    <3> QED BY <3>1, <3>2, <3>3
  <2> QED BY <1>2, <1>5, <2>1, <2>2 DEF SuccessTells
<1>15. ClientTells'
  <2>1. at \in 0 .. at /\ Opened \subseteq 1 .. at
    BY <1>4 DEF Control, Typed, Opened
  <2> QED BY <1>2, <1>4, <1>5, <2>1, NothingBuffered DEF Telling, ClientTells
<1>16. ReasonGiven'
  BY <1>2, <1>4, <1>6, <1>8 DEF Telling, ReasonGiven
<1>17. Preventing'
  <2>1. at > 0 /\ pc \in {"run", "finalize"}
    BY <1>4, <1>5 DEF Control, Staged
  <2>2. rootStatus = "failed" => rootStatus' = "failed"
    BY <1>6
  <2>3. Judged(Writer(1))' <=> Judged(Writer(1))
    BY <1>2, <1>3 DEF Judged
  <2>4. ~(at = 0) /\ pc # "decide" /\ pc # "ended"
    BY <1>4, <2>1 DEF Control, Typed
  <2> QED BY <1>2, <1>3, <1>4, <2>2, <2>3, <2>4 DEF Telling, Preventing
<1>18. Preserving'
  <2>1. rootStatus = "failed" => rootStatus' = "failed"
    BY <1>6
  <2>2. pc = "run" => rootStatus' # "rolledBack"
    BY <1>4, <1>5, <1>6 DEF Telling, Beginnings, Down
  <2> QED BY <1>2, <1>4, <1>5, <2>1, <2>2 DEF Telling, Preserving
<1>19. Panicking'
  <2> SUFFICES ASSUME ~CallbackPanics
               PROVE  "Panic" \notin op'[Request].ret /\ (err = "panic" => rootStatus' # "committed")
    BY <1>2, <1>9 DEF Panicking
  <2>1. "Panic" \notin op[Request].ret /\ (err = "panic" => rootStatus # "committed")
    BY <1>4 DEF Telling, Panicking, Mine
  <2>2. "Panic" \notin op'[Request].ret
    BY <1>4, <1>5, <2>1, NoPanic
  <2>3. ASSUME err = "panic", rootStatus' = "committed" PROVE FALSE
    <3>1. pc = "finalize" /\ Mine.kind = "commit"
      BY <1>6, <2>1, <2>3
    <3>2. Top.plan = "commit"
      BY <1>4, <1>5, <3>1 DEF Managed, ManagerInv, CallsSound, Finalizing, Mine, Top
    <3>3. Top.outcome = {"FnPanic"}
      BY <1>4, <2>3, <3>1 DEF Telling, Deciding, FnOutcome
    <3> QED BY <1>4, <3>1, <3>2, <3>3 DEF Telling, Deciding
  <2> QED BY <2>2, <2>3
<1>20. ClientWaits'
  BY <1>2, <1>3, <1>4 DEF Telling, ClientWaits
<1> QED BY <1>10, <1>11, <1>12, <1>14, <1>15, <1>16, <1>17, <1>18, <1>19, <1>20 DEF Telling

-----------------------------------------------------------------------------
(* The request goes from layer to layer.                                   *)

\* The writer of the next layer.
LEMMA NextWriter ==
  ASSUME Control, at < Len(layers)
  PROVE  /\ Writer(at + 1) \in 0 .. at + 1
         /\ \A j \in 1 .. at + 1 : Buffered(j) => Writer(at + 1) >= j
<1>1. at \in Nat /\ at + 1 \in Nat \ {0} /\ (at + 1) - 1 = at /\ at \in 0 .. at
  BY DEF Control, Typed
<1>2. Writer(at) \in 0 .. at /\ \A j \in 1 .. at : Buffered(j) => Writer(at) >= j
  BY <1>1 DEF Control, WritersNest
<1>3. CASE Buffered(at + 1)
  <2>1. Writer(at + 1) = at + 1
    BY <1>1, <1>3, WriterOwn
  <2> QED BY <1>1, <2>1
<1>4. CASE ~Buffered(at + 1)
  <2>1. Writer(at + 1) = Writer(at)
    BY <1>1, <1>4, WriterAbove
  <2> QED BY <1>1, <1>2, <1>4, <2>1
<1> QED BY <1>3, <1>4

\* The writer of the layer above.
LEMMA WriterBelow ==
  ASSUME Control, at > 0
  PROVE  /\ at - 1 \in 0 .. at /\ Writer(at - 1) \in 0 .. at - 1
         /\ IF Buffered(at) THEN Writer(at) = at ELSE Writer(at) = Writer(at - 1)
         /\ Writer(at) = 0 => Writer(at - 1) = 0
<1>1. at \in Nat \ {0} /\ at - 1 \in 0 .. at
  BY DEF Control, Typed
<1>2. IF Buffered(at) THEN Writer(at) = at ELSE Writer(at) = Writer(at - 1)
  BY <1>1, WriterOwn, WriterAbove
<1>3. Writer(at - 1) \in 0 .. at - 1
  BY <1>1 DEF Control, WritersNest
<1> QED BY <1>1, <1>2, <1>3

LEMMA OpenedFinite == ASSUME Control PROVE IsFiniteSet(Opened) /\ Opened \subseteq 1 .. at
<1>1. at \in Int /\ 1 \in Int
  BY DEF Control, Typed
<1>2. IsFiniteSet(1 .. at)
  BY <1>1, FS_Interval
<1>3. Opened \subseteq 1 .. at
  BY DEF Opened
<1> QED BY <1>2, <1>3, FS_Subset

\* Inside a layer that has started a transaction its execution runs.
LEMMA StartsRuns ==
  ASSUME Control, at > 0, Starts(at), pc # "ended"
  PROVE  Own # <<>> /\ at \in Opened
<1>1. at \in Opened
  BY DEF Opened, Control, Typed
<1>2. Cardinality(Opened) # 0
  BY <1>1, OpenedFinite, FS_EmptySet
<1> QED BY <1>1, <1>2 DEF Control, Staged

\* While the outermost callback runs nobody has ended the root.
LEMMA RootRuns ==
  ASSUME Managed, Control, Own # <<>>, Own[1].stage \in {"fn", "decided"}
  PROVE  rootStatus \in {"active", "failed"}
<1>1. Request \in Goroutines /\ 1 \in DOMAIN Own
  BY RequestAssumption, LastFacts DEF Own, Managed, ManagerInv, ManagerTypeOK
<1>2. FrameSound(Own[1]) /\ Own[1].root
  BY <1>1 DEF Managed, ManagerInv, FramesSound, Own, Control, Staged
<1>3. /\ Own[1].scope \in Scopes /\ scope[Own[1].scope].status \in {"active", "failed"}
      /\ scope[Own[1].scope].depth = 0
  BY <1>2 DEF FrameSound, Held, Untouched
<1>4. scope[Own[1].scope].status = rootStatus
  BY <1>3 DEF Managed, Usual, OutcomeInv, RootAgrees
<1> QED BY <1>3, <1>4

\* An execution that has others around it, or that still runs its callback.
LEMMA RootOutlives ==
  ASSUME Managed, Control, Own # <<>>, Len(Own) > 1 \/ Top.stage \in {"fn", "decided"}
  PROVE  rootStatus \in {"active", "failed"}
<1>1. Request \in Goroutines /\ Own \in Seq(Frame) /\ Len(Own) \in Nat \ {0} /\ 1 \in DOMAIN Own
  BY RequestAssumption, LastFacts DEF Own, Managed, ManagerInv, ManagerTypeOK
<1>2. Len(Own) > 1 => Own[1].stage = "fn"
  BY <1>1 DEF Managed, ManagerInv, FramesSound, Own
<1>3. Len(Own) = 1 => Own[1] = Top
  BY <1>1, RunningFacts DEF Own, Top, Managed, ManagerInv
<1>4. Own[1].stage \in {"fn", "decided"}
  <2>1. \A n \in Nat \ {0} : n > 1 \/ n = 1
    OBVIOUS
  <2> QED BY <1>1, <1>2, <1>3, <2>1
<1> QED BY <1>4, RootRuns

\* The layer of the only execution is the root's.
LEMMA OutermostIsRoot ==
  ASSUME Managed, Control, Own # <<>>, Len(Own) = 1
  PROVE  Top = Own[1] /\ Top.root
<1>1. Request \in Goroutines
  BY RequestAssumption
<1> QED BY <1>1, RunningFacts DEF Own, Top, Managed, ManagerInv, Control, Staged

LEMMA FirstOnly ==
  ASSUME Control, at = 1, Starts(1), pc # "ended" PROVE Own # <<>> /\ Len(Own) = 1
<1>1. Opened = {1}
  BY DEF Opened
<1>2. Cardinality({1}) = 1
  BY FS_Singleton
<1> QED BY <1>1, <1>2, StartsRuns DEF Control, Staged

\* A step of the request alone, outside of all calls.
LEMMA WalkControls ==
  ASSUME Managed, Control, UNCHANGED <<frames, manual, op, chainVars>>,
         Typed', Returning', WritersNest', Opened' = Opened,
         pc \in {"enter", "handler", "returned", "ended", "done"},
         pc' \in {"enter", "handler", "returned", "decide", "ended", "done"},
         pc' = "decide" => at' > 0 /\ Starts(at'),
         pc' = "ended" => at' > 0,
         pc' = "done" => at' = 0,
         pc' = "handler" => at' = Len(layers)
  PROVE  Control'
<1>1. /\ Own' = Own /\ \A stage : At(Request, stage)' <=> At(Request, stage)
      /\ framework' = framework /\ layers' = layers /\ globalAuto' = globalAuto
  BY DEF Own, At, chainVars
<1>2. \A k : Starts(k)' <=> Starts(k)
  BY ChainStill
<1>3. pc' = "decide" => Own # <<>>
  <2> SUFFICES ASSUME pc' = "decide" PROVE Own # <<>>
    OBVIOUS
  <2>1. at' \in 1 .. at'
    BY DEF Typed
  <2> PICK n : n = at'
    OBVIOUS
  <2>2. n \in Opened'
    BY <1>2, <2>1 DEF Opened
  <2>3. Cardinality(Opened) # 0
    BY <2>2, OpenedFinite, FS_EmptySet
  <2> QED BY <2>3 DEF Control, Staged
<1>4. Staged'
  BY <1>1, <1>2, <1>3 DEF Control, Staged, Mine
<1>5. Single'
  BY DEF Control, Single
<1> QED BY <1>4, <1>5 DEF Control

\* What stays when only the request moves, wherever it goes.
LEMMA WalkFacts ==
  ASSUME UNCHANGED <<frames, op, chainVars>>
  PROVE  /\ Own' = Own /\ Top' = Top /\ Mine' = Mine /\ Unwritten' = Unwritten
         /\ framework' = framework /\ layers' = layers /\ globalAuto' = globalAuto
         /\ \A s : IsOwn(s)' <=> IsOwn(s)
         /\ \A stage : At(Request, stage)' <=> At(Request, stage)
<1>1. framework' = framework /\ layers' = layers /\ globalAuto' = globalAuto
  BY DEF chainVars
<1>2. Own' = Own /\ Top' = Top /\ Mine' = Mine
  BY DEF Own, Top, Mine, Running, Asked
<1> QED BY <1>1, <1>2 DEF Unwritten, Blank, IsOwn, At

\* On the way down nothing has been written and nothing has ended.
LEMMA DownTells ==
  ASSUME Served, Control', Down, pc' \in {"enter", "run"},
         UNCHANGED <<chainVars, statusErr, rootStatus, scope>>, Beginnings',
         rootStatus = "active" /\ MarkedOnly => MarkedOnly',
         "Panic" \notin Mine.ret => "Panic" \notin Mine'.ret
  PROVE  Telling'
<1>1. framework' = framework /\ layers' = layers /\ globalAuto' = globalAuto
  BY DEF chainVars
<1>2. /\ \A k : Writer(k)' = Writer(k) /\ (Starts(k)' <=> Starts(k))
                /\ (Buffered(k)' <=> Buffered(k))
      /\ RollsBackSuccess' <=> RollsBackSuccess
  BY ChainStill
<1>3. /\ err' = "nil" /\ at' \in 0 .. Len(layers) /\ Writer(at)' \in 0 .. at'
      /\ response' = Unwritten'
      /\ Down'
  <2>1. Typed' /\ WritersNest' /\ Returning'
    BY DEF Control
  <2>2. at' \in 0 .. at'
    BY <2>1 DEF Typed
  <2> QED BY <1>1, <2>1, <2>2 DEF Typed, WritersNest, Returning, Down
<1>4. \A k \in 0 .. Len(layers) : response'[k] = Blank
  BY <1>1, <1>3 DEF Unwritten, Blank
<1>5. response'[0] = Blank /\ response'[Writer(at)'] = Blank /\ Client' = Blank
  <2>1. 0 \in 0 .. Len(layers) /\ Writer(at)' \in 0 .. Len(layers)
    BY <1>3
  <2> QED BY <1>4, <2>1 DEF Client
<1>6. Telling /\ rootStatus \in {"none", "active"}
  BY DEF Served, Telling, Beginnings
<1>7. Deciding' /\ RefusedEndsNothing'
  BY DEF Deciding, RefusedEndsNothing
<1>8. SuccessTells'
  <2>1. ~Success'
    BY <1>5 DEF Success, Blank
  <2> QED BY <2>1 DEF SuccessTells
<1>9. ClientTells'
  BY <1>5 DEF ClientTells, Blank
<1>10. ReasonGiven'
  BY <1>1, <1>6 DEF Telling, ReasonGiven
<1>11. Preventing'
  BY <1>3, <1>6 DEF Preventing
<1>12. Preserving'
  BY <1>6 DEF Preserving
<1>13. Panicking'
  BY <1>3, <1>6 DEF Telling, Panicking
<1>14. ClientWaits'
  BY <1>3, <1>5 DEF ClientWaits
<1> QED BY <1>7, <1>8, <1>9, <1>10, <1>11, <1>12, <1>13, <1>14 DEF Telling

\* Where the way down ends nothing has ended yet.
LEMMA TurnTells ==
  ASSUME Served, Control', Down, pc' \in {"returned", "ended"},
         UNCHANGED <<chainVars, statusErr, rootStatus, scope>>,
         rootStatus = "active" /\ MarkedOnly => MarkedOnly',
         "Panic" \notin Mine.ret => "Panic" \notin Mine'.ret,
         SuccessTells', ClientTells', ClientWaits'
  PROVE  Telling'
<1>1. framework' = framework /\ layers' = layers /\ globalAuto' = globalAuto
  BY DEF chainVars
<1>2. Telling /\ rootStatus \in {"none", "active"}
  BY DEF Served, Telling, Beginnings
<1>3. Beginnings' /\ Deciding' /\ RefusedEndsNothing'
  BY DEF Beginnings, Down, Deciding, RefusedEndsNothing
<1>4. ReasonGiven'
  BY <1>1, <1>2 DEF Telling, ReasonGiven
<1>5. Preventing' /\ Preserving'
  BY <1>2 DEF Preventing, Preserving
<1>6. Panicking'
  BY <1>2 DEF Telling, Panicking
<1> QED BY <1>3, <1>4, <1>5, <1>6 DEF Telling

-----------------------------------------------------------------------------
(* Down to the handler.                                                    *)

\* A layer that starts nothing.
LEMMA PassKeeps ==
  ASSUME Served, EnterLayer, ~Starts(at + 1), UNCHANGED managerVars
  PROVE  Control' /\ Telling'
<1>1. /\ pc = "enter" /\ pc' = "enter" /\ at < Len(layers) /\ at' = at + 1
      /\ UNCHANGED <<chainVars, err, passed, response, statusErr>>
      /\ UNCHANGED <<frames, manual, op, rootStatus, scope, rollbackOnly, ctxDone>>
  BY DEF EnterLayer, Entering, managerVars, vars, state
<1>2. Managed /\ Control /\ at \in Nat /\ Len(layers) \in Nat
  BY DEF Served, Control, Typed
<1>3. /\ framework' = framework /\ layers' = layers /\ globalAuto' = globalAuto
      /\ Own' = Own /\ Mine' = Mine /\ Unwritten' = Unwritten
      /\ \A s : IsOwn(s)' <=> IsOwn(s)
  BY <1>1, WalkFacts
<1>4. /\ \A k : Writer(k)' = Writer(k) /\ (Starts(k)' <=> Starts(k))
                /\ (Buffered(k)' <=> Buffered(k))
      /\ Untold' = Untold
  BY <1>1, ChainStill
<1>5. Typed'
  BY <1>1, <1>2, <1>3 DEF Control, Typed
<1>6. Returning'
  BY <1>1, <1>2, <1>3, <1>4 DEF Control, Returning, Down
<1>7. WritersNest'
  BY <1>1, <1>2, <1>4, NextWriter DEF Control, WritersNest
<1>8. Opened' = Opened
  BY <1>1, <1>2, <1>4 DEF Opened
<1>9. Control'
  BY <1>1, <1>2, <1>5, <1>6, <1>7, <1>8, WalkControls
<1>10. Down
  BY <1>1 DEF Down
<1>11. Beginnings'
  BY <1>1, <1>3, <1>10 DEF Served, Telling, Beginnings, Down
<1>12. MarkedOnly' <=> MarkedOnly
  BY <1>1 DEF MarkedOnly, Cancelled
<1> QED BY <1>1, <1>3, <1>9, <1>10, <1>11, <1>12, DownTells

\* The client's response is touched only where no buffer is in between.
LEMMA PutClient ==
  ASSUME Control, NEW k \in 0 .. at, NEW reply \in Response, Put(k, reply)
  PROVE  /\ response' \in [0 .. Len(layers) -> Response]
         /\ response'[Writer(k)] = reply
         /\ \A j \in 0 .. Len(layers) : j # Writer(k) => response'[j] = response[j]
         /\ response'[0] = IF Writer(k) = 0 THEN reply ELSE response[0]
         /\ k > 0 /\ Buffered(1) => Writer(k) # 0 /\ response'[0] = response[0]
<1>1. /\ response \in [0 .. Len(layers) -> Response] /\ at \in 0 .. Len(layers)
      /\ Len(layers) \in Nat
  BY DEF Control, Typed
<1>2. Writer(k) \in 0 .. Len(layers)
  BY WriterFacts
<1>3. response' = [response EXCEPT ![Writer(k)] = reply]
  BY DEF Put
<1>4. k > 0 /\ Buffered(1) => Writer(k) # 0
  <2> SUFFICES ASSUME k > 0, Buffered(1) PROVE Writer(k) # 0
    OBVIOUS
  <2>1. Writer(k) >= 1
    BY <1>1 DEF Control, WritersNest
  <2> QED BY <1>2, <2>1
<1>5. 0 \in 0 .. Len(layers)
  BY <1>1
<1> QED BY <1>1, <1>2, <1>3, <1>4, <1>5

\* What a step that stays in its layer leaves as it is.
LEMMA StayFacts ==
  ASSUME Served, UNCHANGED <<frames, op, chainVars, at>>
  PROVE  /\ Managed /\ Control /\ Telling /\ at \in Nat /\ at \in 0 .. at
         /\ framework' = framework /\ layers' = layers /\ globalAuto' = globalAuto
         /\ Own' = Own /\ Top' = Top /\ Mine' = Mine /\ Unwritten' = Unwritten
         /\ Untold' = Untold
         /\ \A s : IsOwn(s)' <=> IsOwn(s)
         /\ \A k : Writer(k)' = Writer(k) /\ (Starts(k)' <=> Starts(k))
                   /\ (Buffered(k)' <=> Buffered(k))
         /\ RollsBackSuccess' <=> RollsBackSuccess
         /\ Writer(at)' = Writer(at) /\ Writer(at) \in 0 .. Len(layers)
         /\ response \in [0 .. Len(layers) -> Response]
         /\ WritersNest'
         /\ (pc # "ended" /\ pc' # "ended") \/ ~Starts(at) => Opened' = Opened
<1>1. Managed /\ Control /\ Telling /\ at \in Nat /\ at \in 0 .. at
  BY DEF Served, Control, Typed
<1>2. /\ framework' = framework /\ layers' = layers /\ globalAuto' = globalAuto
      /\ Own' = Own /\ Top' = Top /\ Mine' = Mine /\ Unwritten' = Unwritten
      /\ \A s : IsOwn(s)' <=> IsOwn(s)
  BY WalkFacts
<1>3. /\ \A k : Writer(k)' = Writer(k) /\ (Starts(k)' <=> Starts(k))
                /\ (Buffered(k)' <=> Buffered(k))
      /\ RollsBackSuccess' <=> RollsBackSuccess
      /\ Untold' = Untold
  BY ChainStill
<1>4. Writer(at)' = Writer(at)
  BY <1>3
<1>5. Writer(at) \in 0 .. Len(layers) /\ response \in [0 .. Len(layers) -> Response]
  BY <1>1, WriterFacts DEF Control, Typed
<1>6. WritersNest'
  BY <1>1, <1>3 DEF Control, WritersNest
<1>7. (pc # "ended" /\ pc' # "ended") \/ ~Starts(at) => Opened' = Opened
  BY <1>3 DEF Opened
<1> QED BY <1>1, <1>2, <1>3, <1>4, <1>5, <1>6, <1>7

\* A layer that is refused ends the way down with an error of its own.
LEMMA RefuseKeeps == ASSUME Served, RefuseLayer PROVE Control' /\ Telling'
<1>1. /\ pc = "enter" /\ pc' = "returned" /\ (HttpRefuses \/ FiberRefuses)
      /\ UNCHANGED <<chainVars, at, passed, statusErr>>
      /\ UNCHANGED <<frames, manual, op, rootStatus, scope, rollbackOnly, ctxDone>>
  BY DEF RefuseLayer, Entering, managerVars, vars, state
<1>2. /\ Managed /\ Control /\ Telling /\ at \in Nat /\ at \in 0 .. at
      /\ framework' = framework /\ layers' = layers /\ globalAuto' = globalAuto
      /\ Own' = Own /\ Mine' = Mine /\ Untold' = Untold
      /\ \A k : Writer(k)' = Writer(k) /\ (Starts(k)' <=> Starts(k))
                /\ (Buffered(k)' <=> Buffered(k))
      /\ Writer(at)' = Writer(at) /\ Writer(at) \in 0 .. Len(layers)
      /\ response \in [0 .. Len(layers) -> Response]
      /\ WritersNest' /\ Opened' = Opened
  BY <1>1, StayFacts
<1>3. ErrorReply \in Response /\ ErrorReply.body = "error"
  BY DEF ErrorReply, Response, Status
<1>4. Down /\ response = Unwritten /\ Client = Blank /\ err = "nil" /\ passed = Untold
  <2>1. Down /\ response = Unwritten /\ err = "nil" /\ passed = Untold
    BY <1>1, <1>2 DEF Down, Control, Returning
  <2>2. 0 \in 0 .. Len(layers)
    BY <1>2
  <2> QED BY <2>1, <2>2 DEF Unwritten, Client
<1>5. framework = "http" =>
        /\ err' = "nil" /\ response' \in [0 .. Len(layers) -> Response]
        /\ response'[Writer(at)] = ErrorReply
        /\ response'[0] \in {Blank, ErrorReply}
        /\ at > 0 /\ Buffered(1) => response'[0] = Blank
  <2> SUFFICES ASSUME framework = "http"
               PROVE  /\ err' = "nil" /\ response' \in [0 .. Len(layers) -> Response]
                      /\ response'[Writer(at)] = ErrorReply
                      /\ response'[0] \in {Blank, ErrorReply}
                      /\ at > 0 /\ Buffered(1) => response'[0] = Blank
    OBVIOUS
  <2>1. Put(at, ErrorReply) /\ err' = err
    BY <1>1 DEF HttpRefuses, FiberRefuses
  <2> QED BY <1>2, <1>3, <1>4, <2>1, PutClient DEF Client
<1>6. framework = "fiber" => err' = "error" /\ response' = response
  BY <1>1 DEF HttpRefuses, FiberRefuses
<1>7. framework \in {"http", "fiber"}
  BY <1>2 DEF Control, Typed
<1>8. Typed'
  BY <1>1, <1>2, <1>5, <1>6, <1>7 DEF Control, Typed, Answers
<1>9. Returning'
  BY <1>1, <1>2, <1>4, <1>5, <1>6, <1>7 DEF Control, Returning, Down
<1>10. Control'
  BY <1>1, <1>2, <1>8, <1>9, WalkControls
<1>11. SuccessTells'
  <2>1. framework = "http" => ~Success'
    BY <1>2, <1>3, <1>5 DEF Success
  <2>2. framework = "fiber" => ~Clean'
    BY <1>6 DEF Clean
  <2> QED BY <1>7, <2>1, <2>2 DEF SuccessTells
<1>12. ClientTells'
  BY <1>2, <1>3, <1>5 DEF ClientTells, Client, Blank
<1>13. ClientWaits'
  <2>1. framework = "fiber" => ~Buffered(1)
    BY DEF Buffered
  <2> QED BY <1>1, <1>2, <1>4, <1>5, <1>6, <1>7, <2>1 DEF ClientWaits, Client, Blank
<1>14. MarkedOnly' <=> MarkedOnly
  BY <1>1 DEF MarkedOnly, Cancelled
<1> QED BY <1>1, <1>2, <1>4, <1>10, <1>11, <1>12, <1>13, <1>14, TurnTells

\* The handler writes into the nearest buffer; where there is none, no layer
\* above it runs a transaction over HTTP.
LEMMA WriteKeeps == ASSUME Served, HandlerWrites PROVE Control' /\ Telling'
<1>1. /\ pc = "enter" /\ pc' = "handler" /\ at = Len(layers)
      /\ UNCHANGED <<chainVars, at, err, passed, statusErr>>
      /\ UNCHANGED <<frames, manual, op, rootStatus, scope, rollbackOnly, ctxDone>>
  BY DEF HandlerWrites, managerVars, vars, state
<1>2. /\ Managed /\ Control /\ Telling /\ at \in Nat /\ at \in 0 .. at
      /\ framework' = framework /\ layers' = layers /\ globalAuto' = globalAuto
      /\ Own' = Own /\ Mine' = Mine /\ Untold' = Untold
      /\ \A s : IsOwn(s)' <=> IsOwn(s)
      /\ \A k : Writer(k)' = Writer(k) /\ (Starts(k)' <=> Starts(k))
                /\ (Buffered(k)' <=> Buffered(k))
      /\ Writer(at)' = Writer(at) /\ Writer(at) \in 0 .. Len(layers)
      /\ response \in [0 .. Len(layers) -> Response]
      /\ WritersNest' /\ Opened' = Opened
  BY <1>1, StayFacts
<1>3. PICK reply \in Response : Put(at, reply)
  <2>1. PICK s \in Status : Put(at, [started |-> TRUE, status |-> s, body |-> "handler"])
    BY DEF HandlerWrites
  <2>2. [started |-> TRUE, status |-> s, body |-> "handler"] \in Response
    BY DEF Response
  <2> QED BY <2>1, <2>2
<1>4. Down /\ response = Unwritten /\ Client = Blank /\ err = "nil" /\ passed = Untold
  <2>1. Down /\ response = Unwritten /\ err = "nil" /\ passed = Untold
    BY <1>1, <1>2 DEF Down, Control, Returning
  <2>2. 0 \in 0 .. Len(layers)
    BY <1>2
  <2> QED BY <2>1, <2>2 DEF Unwritten, Client
<1>5. /\ response' \in [0 .. Len(layers) -> Response]
      /\ Writer(at) # 0 => response'[0] = Blank
      /\ at > 0 /\ Buffered(1) => response'[0] = Blank
  BY <1>2, <1>3, <1>4, PutClient DEF Client
<1>6. /\ rootStatus \in {"none", "active"}
      /\ \A s \in Scopes : scope[s].status = "none" \/ IsOwn(s)
  BY <1>1, <1>2, <1>4 DEF Telling, Beginnings
<1>7. Typed'
  BY <1>1, <1>2, <1>5 DEF Control, Typed
<1>8. Returning'
  BY <1>1, <1>2, <1>4 DEF Control, Returning, Down
<1>9. Control'
  BY <1>1, <1>2, <1>7, <1>8, WalkControls
<1>10. Beginnings'
  BY <1>1, <1>2, <1>6 DEF Beginnings
<1>11. Deciding' /\ RefusedEndsNothing'
  BY <1>1 DEF Deciding, RefusedEndsNothing
<1>12. SuccessTells'
  BY <1>1, <1>2, <1>6 DEF SuccessTells
<1>13. ClientTells'
  <2> SUFFICES ASSUME framework = "http", response'[0].body = "handler"
               PROVE  Writer(at) = 0 /\ \A s \in Scopes : scope[s].status \in {"none", "committed"}
    BY <1>1, <1>2 DEF ClientTells, Client
  <2>1. Writer(at) = 0
    BY <1>5 DEF Blank
  <2>2. Opened \subseteq 1 .. at
    BY <1>2, OpenedFinite
  <2>3. Own = <<>>
    BY <1>2, <2>1, <2>2, NothingBuffered
  <2>4. \A s \in Scopes : ~IsOwn(s)
    BY <2>3 DEF IsOwn
  <2> QED BY <1>6, <2>1, <2>4
<1>14. ReasonGiven'
  <2>1. MarkedOnly' <=> MarkedOnly
    BY <1>1 DEF MarkedOnly, Cancelled
  <2> QED BY <1>1, <1>2, <2>1 DEF Telling, ReasonGiven
<1>15. Preventing' /\ Preserving' /\ Panicking'
  BY <1>1, <1>2, <1>6 DEF Telling, Preventing, Preserving, Panicking
<1>16. ClientWaits'
  BY <1>1, <1>2, <1>4, <1>5 DEF ClientWaits, Client
<1> QED BY <1>9, <1>10, <1>11, <1>12, <1>13, <1>14, <1>15, <1>16 DEF Telling

LEMMA ReturnKeeps == ASSUME Served, HandlerReturns PROVE Control' /\ Telling'
<1>1. /\ pc \in {"enter", "handler"} /\ at = Len(layers) /\ pc' = "returned"
      /\ err' \in IF framework = "http" THEN {"nil", "panic"} ELSE Answers \ {"status"}
      /\ UNCHANGED <<chainVars, at, passed, response, statusErr>>
      /\ UNCHANGED <<frames, manual, op, rootStatus, scope, rollbackOnly, ctxDone>>
  BY DEF HandlerReturns, managerVars, vars, state, Served, Control, Staged
<1>2. /\ Managed /\ Control /\ Telling /\ at \in Nat /\ at \in 0 .. at
      /\ framework' = framework /\ layers' = layers /\ globalAuto' = globalAuto
      /\ Own' = Own /\ Mine' = Mine /\ Untold' = Untold
      /\ \A s : IsOwn(s)' <=> IsOwn(s)
      /\ \A k : Writer(k)' = Writer(k) /\ (Starts(k)' <=> Starts(k))
                /\ (Buffered(k)' <=> Buffered(k))
      /\ RollsBackSuccess' <=> RollsBackSuccess
      /\ Writer(at)' = Writer(at) /\ Writer(at) \in 0 .. Len(layers)
      /\ response \in [0 .. Len(layers) -> Response]
      /\ WritersNest' /\ Opened' = Opened
  BY <1>1, StayFacts
<1>3. Down /\ err = "nil" /\ passed = Untold
  BY <1>1, <1>2 DEF Down, Control, Returning
<1>4. err' \in Answers /\ err' # "status" /\ (framework = "http" => err' \in {"nil", "panic"})
  BY <1>1 DEF Answers
<1>5. Typed'
  BY <1>1, <1>2, <1>4 DEF Control, Typed
<1>6. Returning'
  BY <1>1, <1>2, <1>3, <1>4 DEF Control, Returning, Down
<1>7. Control'
  BY <1>1, <1>2, <1>5, <1>6, WalkControls
<1>8. SuccessTells'
  <2>1. Success' <=> Success
    BY <1>1, <1>2 DEF Success
  <2>2. Clean
    BY <1>1, <1>3 DEF Clean
  <2> QED BY <1>1, <1>2, <2>1, <2>2 DEF Telling, SuccessTells
<1>9. ClientTells'
  BY <1>1, <1>2 DEF Telling, ClientTells, Client
<1>10. ClientWaits'
  <2>1. layers # <<>> => at > 0
    BY <1>1, <1>2 DEF Control, Typed
  <2> QED BY <1>1, <1>2, <2>1 DEF Telling, ClientWaits, Client, Blank
<1>11. MarkedOnly' <=> MarkedOnly
  BY <1>1 DEF MarkedOnly, Cancelled
<1> QED BY <1>1, <1>2, <1>3, <1>7, <1>8, <1>9, <1>10, <1>11, TurnTells

-----------------------------------------------------------------------------
(* A callback of a layer returns.                                          *)

\* The mark that a status sets.
LEMMA MarkFacts ==
  ASSUME Served, Returned,
         \/ Matches /\ MarkRollbackOnly
         \/ UNCHANGED <<managerVars, statusErr>>
  PROVE  /\ UNCHANGED <<frames, manual, op, rootStatus, scope>>
         /\ rootStatus = "active" /\ MarkedOnly => MarkedOnly'
         /\ MarkRollbackOnly => (rootStatus = "active" => MarkedOnly')
         /\ statusErr' \in Status \cup {"none"}
         /\ statusErr' # statusErr =>
              /\ rootStatus = "active" /\ MarkedOnly'
              /\ \E k \in DOMAIN layers : statusErr' \in layers[k].rollbackOn
<1>1. /\ at \in DOMAIN layers /\ Seen \in Status /\ statusErr \in Status \cup {"none"}
  <2>1. /\ at \in 1 .. Len(layers) /\ layers \in Seq(LayerConfig) /\ Control
        /\ at \in 0 .. at /\ statusErr \in Status \cup {"none"}
    BY DEF Returned, Served, Control, Typed
  <2>2. response[Writer(at)] \in Response
    BY <2>1, WriterFacts
  <2> QED BY <2>1, <2>2 DEF Seen, Response
<1>2. CASE UNCHANGED <<managerVars, statusErr>>
  <2>1. UNCHANGED <<frames, manual, op, rootStatus, scope, rollbackOnly, ctxDone, statusErr>>
    BY <1>2 DEF managerVars, vars, state
  <2>2. MarkedOnly' <=> MarkedOnly
    BY <2>1 DEF MarkedOnly, Cancelled
  <2>3. MarkRollbackOnly => (rootStatus = "active" => MarkedOnly')
    BY <2>1 DEF MarkRollbackOnly, SetRollbackOnly, MarkedOnly
  <2> QED BY <1>1, <2>1, <2>2, <2>3
<1>3. CASE Matches /\ SetRollbackOnly("user") /\ UNCHANGED <<frames, manual>>
           /\ statusErr' = (IF MarkedReason = "none" THEN Seen ELSE statusErr)
  <2>1. rootStatus = "active" /\ rollbackOnly' /\ UNCHANGED <<op, rootStatus, scope>>
    BY <1>3 DEF SetRollbackOnly
  <2> QED BY <1>1, <1>3, <2>1 DEF MarkedOnly, Matches
<1> QED BY <1>2, <1>3 DEF MarkRollbackOnly

\* What the callback's end means to its layer.
LEMMA FnFacts ==
  ASSUME Served, HttpFnReturns \/ FiberFnReturns
  PROVE  /\ pc = "returned" /\ at > 0 /\ err # "panic" /\ pc' = AfterFn /\ Returned
         /\ UNCHANGED <<chainVars, at, response>>
         /\ (Matches /\ MarkRollbackOnly) \/ UNCHANGED <<managerVars, statusErr>>
         /\ err' \in {err, "nil"}
         /\ \/ passed' = passed /\ err' = err
            \/ /\ framework = "fiber" /\ err # "nil"
               /\ passed' = [passed EXCEPT ![at] = err]
         /\ passed' = passed /\ err = "nil" /\ Matches => MarkRollbackOnly
<1>1. passed \in [1 .. Len(layers) -> Answers] /\ (passed = Untold \/ framework = "fiber")
  BY DEF Served, Control, Typed, Returning
<1>2. CASE HttpFnReturns
  BY <1>2 DEF HttpFnReturns, Returned
<1>3. CASE FiberFnReturns
  BY <1>3 DEF FiberFnReturns, Returned
<1> QED BY <1>2, <1>3

LEMMA FnKeeps == ASSUME Served, HttpFnReturns \/ FiberFnReturns PROVE Control' /\ Telling'
<1>1. /\ pc = "returned" /\ at > 0 /\ err # "panic" /\ pc' = AfterFn /\ Returned
      /\ UNCHANGED <<chainVars, at, response>>
      /\ (Matches /\ MarkRollbackOnly) \/ UNCHANGED <<managerVars, statusErr>>
      /\ err' \in {err, "nil"}
      /\ \/ passed' = passed /\ err' = err
         \/ /\ framework = "fiber" /\ err # "nil"
            /\ passed' = [passed EXCEPT ![at] = err]
      /\ passed' = passed /\ err = "nil" /\ Matches => MarkRollbackOnly
  BY FnFacts
<1>2. /\ UNCHANGED <<frames, manual, op, rootStatus, scope>>
      /\ rootStatus = "active" /\ MarkedOnly => MarkedOnly'
      /\ MarkRollbackOnly => (rootStatus = "active" => MarkedOnly')
      /\ statusErr' \in Status \cup {"none"}
      /\ statusErr' # statusErr =>
           /\ rootStatus = "active" /\ MarkedOnly'
           /\ \E k \in DOMAIN layers : statusErr' \in layers[k].rollbackOn
  BY <1>1, MarkFacts
<1>3. /\ Managed /\ Control /\ Telling /\ at \in Nat /\ at \in 0 .. at
      /\ framework' = framework /\ layers' = layers /\ globalAuto' = globalAuto
      /\ Own' = Own /\ Top' = Top /\ Mine' = Mine /\ Untold' = Untold
      /\ \A s : IsOwn(s)' <=> IsOwn(s)
      /\ \A k : Writer(k)' = Writer(k) /\ (Starts(k)' <=> Starts(k))
                /\ (Buffered(k)' <=> Buffered(k))
      /\ RollsBackSuccess' <=> RollsBackSuccess
      /\ Writer(at)' = Writer(at) /\ Writer(at) \in 0 .. Len(layers)
      /\ WritersNest'
      /\ (pc # "ended" /\ pc' # "ended") \/ ~Starts(at) => Opened' = Opened
  BY <1>1, <1>2, StayFacts
<1>4. IF Starts(at) THEN pc' = "decide" ELSE pc' = "ended"
  BY <1>1 DEF AfterFn
<1>5. /\ at \in DOMAIN passed /\ passed \in [1 .. Len(layers) -> Answers]
      /\ err \in Answers /\ err # "status" /\ err' \in Answers /\ err' # "status"
  BY <1>1, <1>3 DEF Control, Typed, Returning, Answers
<1>6. /\ passed' \in [1 .. Len(layers) -> Answers]
      /\ DOMAIN passed' = DOMAIN passed
      /\ \A k \in DOMAIN passed : passed'[k] \in {passed[k], err}
      /\ passed' # passed => passed'[at] = err
      /\ framework = "fiber" /\ err # "nil" /\ err' # err => passed'[at] = err
      /\ \A k \in DOMAIN passed : k # at => passed'[k] = passed[k]
  BY <1>1, <1>5
<1>7. Typed'
  BY <1>1, <1>2, <1>3, <1>4, <1>5, <1>6 DEF Control, Typed
<1>8. Returning'
  <2>1. framework = "http" => passed' = Untold /\ err \in {"nil", "panic"} /\ err' = err
    BY <1>1, <1>3, <1>5 DEF Control, Returning
  <2> QED BY <1>1, <1>3, <1>4, <1>5, <1>6, <2>1 DEF Control, Returning, Down
<1>9. Opened' = Opened
  BY <1>1, <1>3, <1>4
<1>10. Control'
  BY <1>1, <1>2, <1>3, <1>4, <1>7, <1>8, <1>9, WalkControls
<1>11. Beginnings' /\ Deciding' /\ RefusedEndsNothing'
  BY <1>4 DEF Beginnings, Down, Deciding, RefusedEndsNothing
<1>12. SuccessTells'
  <2>1. Clean' => Clean
    BY <1>1, <1>4, <1>5, <1>6 DEF Clean
  <2>2. Success' <=> Success
    BY <1>1, <1>3 DEF Success
  <2> QED BY <1>2, <1>3, <2>1, <2>2 DEF Telling, SuccessTells
<1>13. ClientTells'
  BY <1>1, <1>2, <1>3 DEF Telling, ClientTells, Client
<1>14. ReasonGiven'
  BY <1>2, <1>3 DEF Telling, ReasonGiven
<1>15. Preventing'
  <2> SUFFICES ASSUME layers # <<>>, Starts(1),
                      framework = "http" \/ (DefaultPolicy /\ passed'[1] = "nil"),
                      at = 1, pc' = "decide", err' = "nil", Judged(Writer(1)),
                      rootStatus = "active"
               PROVE  MarkedOnly'
    <3>1. Judged(Writer(1))' <=> Judged(Writer(1))
      BY <1>1, <1>3 DEF Judged
    <3> QED BY <1>1, <1>2, <1>3, <1>4, <3>1 DEF Preventing
  <2>1. passed' = passed /\ err = "nil"
    BY <1>1, <1>5, <1>6
  <2>2. Matches
    BY DEF Matches, Seen, Judged
  <2> QED BY <1>1, <1>2, <2>1, <2>2
<1>16. Preserving'
  <2> SUFFICES ASSUME framework = "http", statusErr' # "none", rootStatus = "rolledBack"
               PROVE  pc' = "ended" /\ err' = "nil" /\ response[Writer(at)].status = statusErr'
    BY <1>1, <1>2, <1>3, <1>4 DEF Preserving
  <2>1. statusErr' = statusErr
    BY <1>2
  <2>2. err = "nil" /\ response[Writer(at)].status = statusErr
    BY <1>1, <1>3, <2>1 DEF Telling, Preserving
  <2>3. Starts(at) => rootStatus \in {"active", "failed"}
    <3> SUFFICES ASSUME Starts(at) PROVE rootStatus \in {"active", "failed"}
      OBVIOUS
    <3>1. Own # <<>>
      BY <1>1, <1>3, StartsRuns
    <3>2. At(Request, "fn")
      BY <1>1, <1>3, <3>1 DEF Control, Staged
    <3>3. Top.stage = "fn"
      BY <1>3, <3>2, RequestAssumption, RunningFacts DEF At, Top, Managed, ManagerInv
    <3> QED BY <1>3, <3>1, <3>3, RootOutlives
  <2> QED BY <1>1, <1>4, <2>1, <2>2, <2>3
<1>17. Panicking' /\ ClientWaits'
  BY <1>1, <1>2, <1>3 DEF Telling, Panicking, ClientWaits, Client, Blank
<1> QED BY <1>10, <1>11, <1>12, <1>13, <1>14, <1>15, <1>16, <1>17 DEF Telling

-----------------------------------------------------------------------------
(* Up to the client.                                                       *)

\* What a step to the layer above leaves as it is.
LEMMA AscendFacts ==
  ASSUME Served, at > 0, at' = at - 1, pc' = "returned",
         pc = "ended" \/ (pc = "returned" /\ ~Starts(at)),
         UNCHANGED <<managerVars, chainVars, passed, statusErr>>
  PROVE  /\ Managed /\ Control /\ Telling /\ at \in Nat \ {0} /\ at \in 0 .. at /\ at' \in 0 .. at
         /\ framework' = framework /\ layers' = layers /\ globalAuto' = globalAuto
         /\ Own' = Own /\ Mine' = Mine /\ Untold' = Untold
         /\ UNCHANGED <<rootStatus, scope>>
         /\ \A s : IsOwn(s)' <=> IsOwn(s)
         /\ \A k : Writer(k)' = Writer(k) /\ (Starts(k)' <=> Starts(k))
                   /\ (Buffered(k)' <=> Buffered(k))
         /\ RollsBackSuccess' <=> RollsBackSuccess
         /\ Writer(at)' = Writer(at - 1) /\ Writer(at - 1) \in 0 .. at - 1
         /\ Writer(at - 1) \in 0 .. Len(layers) /\ Writer(at) \in 0 .. Len(layers)
         /\ IF Buffered(at) THEN Writer(at) = at ELSE Writer(at) = Writer(at - 1)
         /\ Writer(at) = 0 => Writer(at - 1) = 0
         /\ response \in [0 .. Len(layers) -> Response]
         /\ Opened \subseteq 1 .. at - 1
         /\ MarkedOnly' <=> MarkedOnly
         /\ Typed' /\ Returning' => Control'
<1>1. /\ Managed /\ Control /\ Telling /\ at \in Nat \ {0} /\ at \in 0 .. at /\ at' \in 0 .. at
      /\ UNCHANGED <<frames, manual, op, rootStatus, scope, rollbackOnly, ctxDone>>
      /\ Len(layers) \in Nat /\ at <= Len(layers)
  BY DEF Served, Control, Typed, managerVars, vars, state
<1>2. /\ framework' = framework /\ layers' = layers /\ globalAuto' = globalAuto
      /\ Own' = Own /\ Mine' = Mine
      /\ \A s : IsOwn(s)' <=> IsOwn(s)
  BY <1>1, WalkFacts
<1>3. /\ \A k : Writer(k)' = Writer(k) /\ (Starts(k)' <=> Starts(k))
                /\ (Buffered(k)' <=> Buffered(k))
      /\ RollsBackSuccess' <=> RollsBackSuccess
      /\ Untold' = Untold
  BY ChainStill
<1>4. /\ at - 1 \in 0 .. at /\ Writer(at - 1) \in 0 .. at - 1
      /\ IF Buffered(at) THEN Writer(at) = at ELSE Writer(at) = Writer(at - 1)
      /\ Writer(at) = 0 => Writer(at - 1) = 0
  BY <1>1, WriterBelow
<1>5. /\ Writer(at - 1) \in 0 .. Len(layers) /\ Writer(at) \in 0 .. Len(layers)
      /\ response \in [0 .. Len(layers) -> Response]
  BY <1>1, <1>4, WriterFacts DEF Control, Typed
<1>6. Writer(at)' = Writer(at - 1)
  BY <1>3
<1>7. Opened \subseteq 1 .. at - 1 /\ Opened' = Opened
  BY <1>1, <1>3 DEF Opened
<1>8. MarkedOnly' <=> MarkedOnly
  BY <1>1 DEF MarkedOnly, Cancelled
<1>9. WritersNest'
  BY <1>1, <1>3 DEF Control, WritersNest
<1>10. Typed' /\ Returning' => Control'
  BY <1>1, <1>7, <1>9, WalkControls
<1> QED BY <1>1, <1>2, <1>3, <1>4, <1>5, <1>6, <1>7, <1>8, <1>10

\* A panic keeps what has been told, and what it has left unsaid.
LEMMA UnwindKeeps == ASSUME Served, Unwind PROVE Control' /\ Telling'
<1>1. /\ err = "panic" /\ at > 0 /\ err' = "panic" /\ pc \in {"returned", "ended"}
      /\ UNCHANGED <<managerVars, chainVars, err, passed, response, statusErr>>
      /\ UNCHANGED <<frames, manual, op, rootStatus, scope, rollbackOnly, ctxDone>>
  BY DEF Unwind, managerVars, vars, state
<1>2. Managed /\ Control /\ Telling
  BY DEF Served
<1>3. MarkedOnly' <=> MarkedOnly
  BY <1>1 DEF MarkedOnly, Cancelled
<1>4. /\ framework' = framework /\ layers' = layers /\ globalAuto' = globalAuto
      /\ Mine' = Mine
  BY <1>1, WalkFacts
<1>5. /\ \A k : Writer(k)' = Writer(k) /\ (Starts(k)' <=> Starts(k))
                /\ (Buffered(k)' <=> Buffered(k))
      /\ Untold' = Untold
  BY <1>1, ChainStill
<1>6. /\ Control' /\ pc' \in {"returned", "decide"}
      /\ at' > 0 => at > 0
      /\ Writer(at) = 0 => Writer(at)' = 0
  <2>1. CASE pc = "returned" /\ Starts(at) /\ pc' = "decide" /\ UNCHANGED at
    <3>1. WritersNest' /\ Opened' = Opened /\ Writer(at)' = Writer(at)
      BY <1>1, <2>1, StayFacts
    <3>2. Typed'
      BY <1>1, <1>2, <1>4, <2>1 DEF Control, Typed
    <3>3. Returning'
      BY <1>1, <1>2, <1>4, <1>5, <2>1 DEF Control, Returning, Down
    <3> QED BY <1>1, <1>2, <1>5, <2>1, <3>1, <3>2, <3>3, WalkControls
  <2>2. CASE /\ (pc = "returned" /\ ~Starts(at)) \/ pc = "ended"
             /\ pc' = "returned" /\ at' = at - 1
    <3>1. /\ Typed' /\ Returning' => Control'
          /\ Writer(at)' = Writer(at - 1) /\ (Writer(at) = 0 => Writer(at - 1) = 0)
          /\ at' \in 0 .. at /\ at \in Nat \ {0}
      BY <1>1, <2>2, AscendFacts
    <3>2. Typed'
      BY <1>1, <1>2, <1>4, <2>2, <3>1 DEF Control, Typed
    <3>3. Returning'
      BY <1>1, <1>2, <1>4, <1>5, <2>2 DEF Control, Returning, Down
    <3> QED BY <1>1, <2>2, <3>1, <3>2, <3>3
  <2> QED BY <2>1, <2>2 DEF Unwind
<1>7. Beginnings' /\ Deciding' /\ RefusedEndsNothing' /\ SuccessTells'
  BY <1>1, <1>6 DEF Beginnings, Down, Deciding, RefusedEndsNothing, SuccessTells, Clean
<1>8. ClientTells'
  BY <1>1, <1>2, <1>4, <1>6 DEF Telling, ClientTells, Client
<1>9. ReasonGiven'
  BY <1>1, <1>2, <1>3, <1>4 DEF Telling, ReasonGiven
<1>10. Preventing' /\ Preserving'
  BY <1>1 DEF Preventing, Preserving
<1>11. Panicking' /\ ClientWaits'
  BY <1>1, <1>2, <1>4, <1>5, <1>6 DEF Telling, Panicking, ClientWaits, Client, Blank
<1> QED BY <1>6, <1>7, <1>8, <1>9, <1>10, <1>11 DEF Telling

\* The server ends the exchange.
LEMMA ReplyKeeps == ASSUME Served, Reply PROVE Control' /\ Telling'
<1>1. /\ pc = "returned" /\ at = 0 /\ pc' = "done"
      /\ UNCHANGED <<managerVars, chainVars, at, err, passed, statusErr>>
      /\ UNCHANGED <<frames, manual, op, rootStatus, scope, rollbackOnly, ctxDone>>
  BY DEF Reply, managerVars, vars, state
<1>2. /\ Managed /\ Control /\ Telling /\ at \in Nat /\ at \in 0 .. at
      /\ framework' = framework /\ layers' = layers /\ globalAuto' = globalAuto
      /\ Own' = Own /\ Mine' = Mine /\ Untold' = Untold
      /\ \A s : IsOwn(s)' <=> IsOwn(s)
      /\ \A k : Writer(k)' = Writer(k) /\ (Starts(k)' <=> Starts(k))
                /\ (Buffered(k)' <=> Buffered(k))
      /\ RollsBackSuccess' <=> RollsBackSuccess
      /\ Writer(at)' = Writer(at) /\ response \in [0 .. Len(layers) -> Response]
      /\ WritersNest' /\ Opened' = Opened
  BY <1>1, StayFacts
<1>3. MarkedOnly' <=> MarkedOnly
  BY <1>1 DEF MarkedOnly, Cancelled
<1>4. Writer(0) = 0 /\ 0 \in 0 .. Len(layers) /\ Client \in Response
  BY <1>1, <1>2, WriterClient DEF Client
<1>5. /\ err = "panic" => response' = response
      /\ err = "nil" =>
           /\ response' = [response EXCEPT ![0].started = TRUE]
           /\ response'[0].status = Client.status /\ response'[0].body = Client.body
      /\ err \notin {"nil", "panic"} => response'[0].body # "handler"
      /\ response' \in [0 .. Len(layers) -> Response]
  <2>1. CASE err = "panic"
    BY <1>2, <2>1 DEF Reply
  <2>2. CASE err = "nil"
    <3>1. response' = [response EXCEPT ![0].started = TRUE]
      BY <2>2 DEF Reply
    <3> PICK c \in Response : c = response[0]
      BY <1>4 DEF Client
    <3> PICK reply : reply = [c EXCEPT !.started = TRUE]
      OBVIOUS
    <3>2. reply \in Response /\ reply.status = c.status /\ reply.body = c.body
      BY DEF Response
    <3>3. response' = [response EXCEPT ![0] = reply]
      BY <3>1
    <3> QED BY <1>2, <1>4, <2>2, <3>1, <3>2, <3>3 DEF Client
  <2>3. CASE err \notin {"nil", "panic"}
    <3>1. Put(0, [ErrorReply EXCEPT !.status = IF err \in Status THEN err ELSE @])
      BY <2>3 DEF Reply
    <3> PICK reply : reply = [ErrorReply EXCEPT !.status = IF err \in Status THEN err ELSE @]
      OBVIOUS
    <3>2. reply \in Response /\ reply.body = "error"
      BY DEF ErrorReply, Response, Status
    <3>3. Put(0, reply)
      BY <3>1
    <3> QED BY <1>1, <1>2, <1>4, <2>3, <3>2, <3>3, PutClient
  <2> QED BY <2>1, <2>2, <2>3
<1>6. Typed'
  BY <1>1, <1>2, <1>5 DEF Control, Typed
<1>7. Returning'
  BY <1>1, <1>2, <1>5 DEF Control, Returning, Down, Client
<1>8. Control'
  BY <1>1, <1>2, <1>6, <1>7, WalkControls
<1>9. Beginnings' /\ Deciding' /\ RefusedEndsNothing'
  BY <1>1 DEF Beginnings, Down, Deciding, RefusedEndsNothing
<1>10. SuccessTells'
  <2>1. Clean' => Clean /\ err = "nil"
    BY <1>1 DEF Clean
  <2>2. err = "nil" => (Success' => Success)
    BY <1>1, <1>2, <1>4, <1>5 DEF Success, Client
  <2> QED BY <1>1, <1>2, <2>1, <2>2 DEF Telling, SuccessTells
<1>11. ClientTells'
  <2>1. framework = "http" => err \in {"nil", "panic"}
    BY <1>1, <1>2 DEF Control, Returning
  <2> QED BY <1>1, <1>2, <1>5, <2>1 DEF Telling, ClientTells, Client
<1>12. ReasonGiven'
  BY <1>1, <1>2, <1>3 DEF Telling, ReasonGiven
<1>13. Preventing'
  <2>1. err = "nil" => (Judged(0)' <=> Judged(0))
    BY <1>2, <1>5 DEF Judged, Client
  <2> QED BY <1>1, <1>2, <2>1 DEF Telling, Preventing
<1>14. Preserving'
  BY <1>1, <1>2, <1>4, <1>5 DEF Telling, Preserving, Client
<1>15. Panicking' /\ ClientWaits'
  BY <1>1, <1>2, <1>5 DEF Telling, Panicking, ClientWaits, Client
<1> QED BY <1>8, <1>9, <1>10, <1>11, <1>12, <1>13, <1>14, <1>15 DEF Telling

\* What a layer hands to the writer above it over HTTP.
LEMMA HttpHands ==
  ASSUME Served, HttpLayerEnds
  PROVE  LET w == Writer(at - 1) IN
         /\ response' \in [0 .. Len(layers) -> Response]
         /\ err # "nil" => /\ response'[w].body # "handler"
                           /\ err = "status" => response'[w].status = statusErr
         /\ err = "nil" => /\ response'[w].status = response[Writer(at)].status
                           /\ response'[w].body = response[Writer(at)].body
         /\ w # 0 => response'[0] = response[0]
<1> DEFINE w == Writer(at - 1)
<1>1. /\ framework = "http" /\ pc = "ended" /\ err # "panic" /\ at > 0 /\ Control
      /\ at \in Nat \ {0} /\ at - 1 \in 0 .. at /\ w \in 0 .. at - 1
      /\ IF Buffered(at) THEN Writer(at) = at ELSE Writer(at) = w
      /\ at \in 0 .. Len(layers) /\ w \in 0 .. Len(layers) /\ 0 \in 0 .. Len(layers)
      /\ response \in [0 .. Len(layers) -> Response]
      /\ err = "status" => statusErr \in Status
  <2>1. /\ framework = "http" /\ pc = "ended" /\ err # "panic" /\ at > 0 /\ Control
    BY DEF HttpLayerEnds, Ended, Served, Control, Staged
  <2> QED BY <2>1, WriterBelow DEF Control, Typed, Returning
<1> HIDE DEF w
<1>2. ASSUME NEW reply \in Response, response' = [response EXCEPT ![w] = reply]
      PROVE  /\ response' \in [0 .. Len(layers) -> Response] /\ response'[w] = reply
             /\ w # 0 => response'[0] = response[0]
  BY <1>1, <1>2
<1>3. CASE err # "nil"
  <2>1. HttpErrorReply \in Response /\ HttpErrorReply.body # "handler"
    BY <1>1 DEF HttpErrorReply, ErrorReply, Response, Status
  <2>2. err = "status" => HttpErrorReply.status = statusErr
    BY DEF HttpErrorReply
  <2>3. response' = [response EXCEPT ![w] = HttpErrorReply]
    BY <1>3 DEF HttpLayerEnds, Put, w
  <2> QED BY <1>2, <1>3, <2>1, <2>2, <2>3 DEF w
<1>4. CASE err = "nil" /\ Buffered(at)
  <2> PICK c \in Response : c = response[at]
    BY <1>1
  <2> PICK reply : reply = [c EXCEPT !.started = TRUE]
    OBVIOUS
  <2>1. reply \in Response /\ reply.status = c.status /\ reply.body = c.body
    BY DEF Response
  <2>2. response' = [response EXCEPT ![w] = reply]
    BY <1>4 DEF HttpLayerEnds, Put, Flushed, w
  <2> QED BY <1>1, <1>2, <1>4, <2>1, <2>2 DEF w
<1>5. CASE err = "nil" /\ ~Buffered(at)
  <2>1. response' = response
    BY <1>5 DEF HttpLayerEnds
  <2> QED BY <1>1, <1>5, <2>1 DEF w
<1> QED BY <1>3, <1>4, <1>5

LEMMA HttpKeeps == ASSUME Served, HttpLayerEnds PROVE Control' /\ Telling'
<1> DEFINE w == Writer(at - 1)
<1>1. /\ framework = "http" /\ pc = "ended" /\ err # "panic" /\ at > 0
      /\ err' = "nil" /\ pc' = "returned" /\ at' = at - 1
      /\ UNCHANGED <<managerVars, chainVars, passed, statusErr>>
  BY DEF HttpLayerEnds, Ended, Ascend, Served, Control, Staged
<1>2. /\ Managed /\ Control /\ Telling /\ at \in Nat \ {0} /\ at' \in 0 .. at
      /\ framework' = framework /\ layers' = layers /\ globalAuto' = globalAuto
      /\ Own' = Own /\ Mine' = Mine /\ Untold' = Untold
      /\ UNCHANGED <<rootStatus, scope>>
      /\ \A s : IsOwn(s)' <=> IsOwn(s)
      /\ \A k : Writer(k)' = Writer(k) /\ (Starts(k)' <=> Starts(k))
                /\ (Buffered(k)' <=> Buffered(k))
      /\ Writer(at)' = w /\ w \in 0 .. at - 1
      /\ Opened \subseteq 1 .. at - 1
      /\ Writer(at) = 0 => w = 0
      /\ MarkedOnly' <=> MarkedOnly
      /\ Typed' /\ Returning' => Control'
  BY <1>1, AscendFacts
<1>3. /\ response' \in [0 .. Len(layers) -> Response]
      /\ err # "nil" => /\ response'[w].body # "handler"
                        /\ err = "status" => response'[w].status = statusErr
      /\ err = "nil" => /\ response'[w].status = response[Writer(at)].status
                        /\ response'[w].body = response[Writer(at)].body
      /\ w # 0 => response'[0] = response[0]
  BY HttpHands
<1> HIDE DEF w
<1>4. passed = Untold /\ passed[at] = "nil"
  BY <1>1, <1>2 DEF Control, Returning, Untold, Typed
<1>5. Typed'
  BY <1>1, <1>2, <1>3 DEF Control, Typed, Answers
<1>6. Returning'
  BY <1>1, <1>2, <1>4 DEF Control, Returning, Down
<1>7. Control'
  BY <1>2, <1>5, <1>6
<1>8. Beginnings' /\ Deciding' /\ RefusedEndsNothing'
  BY <1>1 DEF Beginnings, Down, Deciding, RefusedEndsNothing
<1>9. response'[w].body = "handler" =>
        \A s \in Scopes : scope[s].status \in {"none", "committed"} \/ IsOwn(s)
  <2> SUFFICES ASSUME response'[w].body = "handler"
               PROVE  Clean /\ Success
    BY <1>2 DEF Telling, SuccessTells
  <2> QED BY <1>1, <1>3, <1>4 DEF Clean, Success
<1>10. SuccessTells'
  BY <1>1, <1>2, <1>9 DEF SuccessTells, Success
<1>11. ClientTells'
  <2> SUFFICES ASSUME response'[0].body = "handler"
               PROVE  w = 0 /\ \A s \in Scopes : scope[s].status \in {"none", "committed"}
    BY <1>1, <1>2 DEF ClientTells, Client
  <2>1. CASE w # 0
    BY <1>1, <1>2, <1>3, <2>1 DEF Telling, ClientTells, Client
  <2>2. CASE w = 0
    <3>1. at - 1 \in 0 .. at
      BY <1>2
    <3>2. Own = <<>>
      BY <1>1, <1>2, <2>2, <3>1, NothingBuffered DEF w
    <3>3. \A s : ~IsOwn(s)
      BY <3>2 DEF IsOwn
    <3> QED BY <1>9, <2>2, <3>3
  <2> QED BY <2>1, <2>2
<1>12. ReasonGiven'
  BY <1>1, <1>2 DEF Telling, ReasonGiven
<1>13. Preventing'
  <2> SUFFICES ASSUME layers # <<>>, Starts(1), at = 1, rootStatus = "committed"
               PROVE  ~(response'[0].status \in layers[1].rollbackOn)
    BY <1>1, <1>2 DEF Preventing, Judged
  <2>1. err = "nil" /\ ~Judged(Writer(1))
    BY <1>1, <1>2 DEF Telling, Preventing
  <2>2. w = 0
    BY <1>2
  <2> QED BY <1>3, <2>1, <2>2 DEF Judged
<1>14. Preserving'
  <2> SUFFICES ASSUME statusErr # "none", rootStatus = "rolledBack"
               PROVE  response'[w].status = statusErr
    BY <1>1, <1>2 DEF Preserving
  <2>1. err = "status" \/ (err = "nil" /\ response[Writer(at)].status = statusErr)
    BY <1>1, <1>2 DEF Telling, Preserving
  <2> QED BY <1>3, <2>1
<1>15. Panicking'
  BY <1>1, <1>2 DEF Telling, Panicking
<1>16. ClientWaits'
  <2> SUFFICES ASSUME layers # <<>>, Buffered(1), at' > 0
               PROVE  response'[0] = Blank
    BY <1>1, <1>2 DEF ClientWaits, Client, Blank
  <2>1. w >= 1
    BY <1>1, <1>2 DEF Control, WritersNest, w
  <2> QED BY <1>1, <1>2, <1>3, <2>1 DEF Telling, ClientWaits, Client
<1> QED BY <1>7, <1>8, <1>10, <1>11, <1>12, <1>13, <1>14, <1>15, <1>16 DEF Telling


\* What a layer makes of the error in Fiber.
LEMMA FiberHands ==
  ASSUME Served, FiberLayerEnds
  PROVE  /\ framework = "fiber" /\ pc = "ended" /\ err # "panic" /\ at > 0
         /\ pc' = "returned" /\ at' = at - 1
         /\ UNCHANGED <<managerVars, chainVars, passed, statusErr>>
         /\ response' \in [0 .. Len(layers) -> Response]
         /\ err' \in Answers \ {"status", "panic"}
         /\ \/ /\ response' = response
               /\ err' = "nil" => err = "nil" /\ passed[at] = "nil"
               /\ err = "nil" => err' = passed[at]
            \/ /\ err = "status" /\ statusErr \in Status
               /\ response'[0].status = statusErr
<1>1. /\ framework = "fiber" /\ pc = "ended" /\ err # "panic"
      /\ pc' = "returned" /\ at' = at - 1
      /\ UNCHANGED <<managerVars, chainVars, passed, statusErr>>
  BY DEF FiberLayerEnds, Ended, Ascend
<1>2. /\ at > 0 /\ at \in DOMAIN passed /\ passed[at] \in Answers \ {"status", "panic"}
      /\ response \in [0 .. Len(layers) -> Response] /\ 0 \in 0 .. Len(layers)
      /\ err \in Answers /\ (err = "status" => statusErr \in Status)
  BY <1>1 DEF Served, Control, Typed, Staged, Returning
<1>3. CASE FiberResult = "status" /\ err' = "nil"
           /\ response' = [response EXCEPT ![0].status = statusErr]
  <2>1. err = "status" /\ statusErr \in Status
    BY <1>2, <1>3 DEF FiberResult
  <2> PICK c \in Response : c = response[0]
    BY <1>2
  <2> PICK reply : reply = [c EXCEPT !.status = statusErr]
    OBVIOUS
  <2>2. reply \in Response /\ reply.status = statusErr
    BY <2>1 DEF Response
  <2>3. response' = [response EXCEPT ![0] = reply]
    BY <1>3
  <2>4. response' \in [0 .. Len(layers) -> Response] /\ response'[0] = reply
    BY <1>2, <2>2, <2>3
  <2> QED BY <1>1, <1>2, <1>3, <2>1, <2>2, <2>4 DEF Answers
<1>4. CASE FiberResult # "status" /\ err' = FiberResult /\ UNCHANGED response
  BY <1>1, <1>2, <1>4 DEF FiberResult
<1> QED BY <1>3, <1>4 DEF FiberLayerEnds

LEMMA FiberKeeps == ASSUME Served, FiberLayerEnds PROVE Control' /\ Telling'
<1>1. /\ framework = "fiber" /\ pc = "ended" /\ err # "panic" /\ at > 0
      /\ pc' = "returned" /\ at' = at - 1
      /\ UNCHANGED <<managerVars, chainVars, passed, statusErr>>
      /\ response' \in [0 .. Len(layers) -> Response]
      /\ err' \in Answers \ {"status", "panic"}
      /\ \/ /\ response' = response
            /\ err' = "nil" => err = "nil" /\ passed[at] = "nil"
            /\ err = "nil" => err' = passed[at]
         \/ /\ err = "status" /\ statusErr \in Status
            /\ response'[0].status = statusErr
  BY FiberHands
<1>2. /\ Managed /\ Control /\ Telling /\ at \in Nat \ {0} /\ at' \in 0 .. at
      /\ framework' = framework /\ layers' = layers /\ globalAuto' = globalAuto
      /\ Own' = Own /\ Mine' = Mine /\ Untold' = Untold
      /\ UNCHANGED <<rootStatus, scope>>
      /\ \A s : IsOwn(s)' <=> IsOwn(s)
      /\ \A k : Writer(k)' = Writer(k) /\ (Starts(k)' <=> Starts(k))
                /\ (Buffered(k)' <=> Buffered(k))
      /\ RollsBackSuccess' <=> RollsBackSuccess
      /\ Writer(at)' = Writer(at - 1)
      /\ IF Buffered(at) THEN Writer(at) = at ELSE Writer(at) = Writer(at - 1)
      /\ Writer(at - 1) \in 0 .. at - 1
      /\ MarkedOnly' <=> MarkedOnly
      /\ Typed' /\ Returning' => Control'
  BY <1>1, AscendFacts
<1>3. Writer(at)' = 0 /\ Writer(at) = 0 /\ \A k : ~Buffered(k)
  <2>1. \A k : ~Buffered(k)
    BY <1>1 DEF Buffered
  <2>2. \A k : {j \in 1 .. k : Buffered(j)} = {}
    BY <2>1
  <2>3. \A k : Writer(k) = Max({0} \cup {})
    BY <2>2 DEF Writer
  <2>4. {j \in 1 .. 0 : Buffered(j)} = {}
    BY <2>1
  <2>5. Writer(0) = Max({0} \cup {})
    BY <2>4 DEF Writer
  <2> QED BY <1>2, <2>1, <2>3, <2>5, WriterClient
<1>4. Typed'
  BY <1>1, <1>2 DEF Control, Typed
<1>5. Returning'
  BY <1>1, <1>2 DEF Control, Returning, Down
<1>6. Control'
  BY <1>2, <1>4, <1>5
<1>7. Beginnings' /\ Deciding' /\ RefusedEndsNothing'
  BY <1>1 DEF Beginnings, Down, Deciding, RefusedEndsNothing
<1>8. SuccessTells'
  <2> SUFFICES ASSUME err' = "nil", response'[0].body = "handler",
                      response'[0].status = "ok", ~RollsBackSuccess
               PROVE  \A s \in Scopes : scope[s].status \in {"none", "committed"} \/ IsOwn(s)
    BY <1>1, <1>2, <1>3 DEF SuccessTells, Clean, Success
  <2>1. ~(err = "status" /\ response'[0].status = statusErr)
    BY <1>1, <1>2 DEF Telling, ReasonGiven, RollsBackSuccess, Control, Returning
  <2>2. Clean /\ Success
    BY <1>1, <1>3, <2>1 DEF Clean, Success
  <2> QED BY <1>2, <2>2 DEF Telling, SuccessTells
<1>9. ClientTells' /\ Preserving'
  BY <1>1, <1>2 DEF ClientTells, Preserving
<1>10. ReasonGiven'
  BY <1>1, <1>2 DEF Telling, ReasonGiven
<1>11. Preventing'
  <2> SUFFICES ASSUME layers # <<>>, Starts(1), DefaultPolicy, passed[1] = "nil",
                      at = 1, rootStatus = "committed"
               PROVE  err' = "nil" /\ ~(response'[0].status \in layers[1].rollbackOn)
    BY <1>1, <1>2 DEF Preventing, Judged
  <2>1. err = "nil" /\ ~Judged(Writer(1))
    BY <1>1, <1>2 DEF Telling, Preventing
  <2> QED BY <1>1, <1>3, <2>1 DEF Judged
<1>12. Panicking' /\ ClientWaits'
  BY <1>1, <1>2, <1>3 DEF Telling, Panicking, ClientWaits
<1> QED BY <1>6, <1>7, <1>8, <1>9, <1>10, <1>11, <1>12 DEF Telling


-----------------------------------------------------------------------------
(* The execution of a layer.                                               *)

\* The innermost execution goes on, in the same layer.
LEMMA SetControls ==
  ASSUME Managed, Control, NEW f \in Frame, Own # <<>>, SetFrame(Request, f),
         f.root = Top.root,
         Top.stage \in Held => f.stage \in Held /\ f.scope = Top.scope,
         UNCHANGED <<manual, chainVars, at>>,
         \A h \in Goroutines \ {Request} : op'[h] = op[h],
         Typed', Returning',
         pc \in {"run", "decide", "finalize"},
         \/ pc' = "run" /\ f.stage = "begin"
         \/ pc' = "enter" /\ f.stage = "fn" /\ op'[Request].pc = "idle"
         \/ pc' = "finalize" /\ f.stage \in {"decided", "end"}
  PROVE  /\ Control' /\ Own' # <<>> /\ Len(Own') = Len(Own) /\ Top' = f
         /\ \A stage : At(Request, stage)' <=> f.stage = stage
         /\ \A s : IsOwn(s) => IsOwn(s)'
         /\ f.stage \in Held => IsOwn(f.scope)'
<1>1. /\ Request \in Goroutines /\ ManagerTypeOK /\ Own \in Seq(Frame)
      /\ Len(Own) \in DOMAIN Own /\ Top = Own[Len(Own)] /\ 1 \in DOMAIN Own
  BY RequestAssumption, RunningFacts, LastFacts DEF Managed, ManagerInv, ManagerTypeOK, Own, Top
<1>2. /\ Own' # <<>> /\ Last(Own') = f
      /\ Len(Own') = Len(Own) /\ Own'[Len(Own)] = f /\ DOMAIN Own' = DOMAIN Own
      /\ \A i \in DOMAIN Own : i # Len(Own) => Own'[i] = Own[i]
      /\ \A h \in Goroutines \ {Request} : frames'[h] = frames[h]
  BY <1>1, SetFacts DEF Own
<1>3. Top' = f /\ \A stage : At(Request, stage)' <=> f.stage = stage
  BY <1>2 DEF Top, Running, At, Own
<1>4. /\ \A s : IsOwn(s) => IsOwn(s)'
      /\ f.stage \in Held => IsOwn(f.scope)'
  BY <1>1, <1>2 DEF IsOwn
<1>5. Own'[1].root
  BY <1>1, <1>2 DEF Control, Staged
<1>6. /\ framework' = framework /\ layers' = layers /\ globalAuto' = globalAuto
      /\ \A k : Writer(k)' = Writer(k) /\ (Starts(k)' <=> Starts(k))
                /\ (Buffered(k)' <=> Buffered(k))
  BY ChainStill DEF chainVars
<1>7. Opened' = Opened
  BY <1>6 DEF Opened
<1>8. Staged'
  BY <1>2, <1>3, <1>5, <1>6, <1>7 DEF Control, Staged, Mine
<1>9. Single' /\ WritersNest'
  BY <1>2, <1>6 DEF Control, Single, WritersNest
<1> QED BY <1>2, <1>3, <1>4, <1>8, <1>9 DEF Control

\* A step of an executor never takes a mark away.
LEMMA ExecuteMarks ==
  ASSUME Served, Execute(Request), rootStatus = "active", rootStatus' = "active", MarkedOnly
  PROVE  MarkedOnly'
<1>1. [Next]_vars
  BY RequestAssumption, ManagerNextAllowed DEF Served, ManagerNext
<1> QED BY <1>1, MarkStays DEF Served, Managed, Usual

\* A layer that starts a transaction asks whether one is active.  The outermost
\* of them finds none, since none has begun.
LEMMA AskEnterKeeps ==
  ASSUME Served, EnterLayer, Starts(at + 1), Ask(Request), pc' = "run"
  PROVE  Control' /\ Telling'
<1>1. /\ pc = "enter" /\ at < Len(layers) /\ at' = at + 1
      /\ UNCHANGED <<chainVars, err, passed, response, statusErr>>
  BY DEF EnterLayer, Entering
<1>2. /\ Request \in Goroutines /\ ManagerTypeOK /\ Own \in Seq(Frame) /\ Len(Own) \in Nat
      /\ Managed /\ Control /\ Telling /\ at \in Nat /\ Len(layers) \in Nat
  BY RequestAssumption DEF Served, Managed, ManagerInv, ManagerTypeOK, Own, Control, Typed
<1>3. /\ framework' = framework /\ layers' = layers /\ globalAuto' = globalAuto
      /\ Unwritten' = Unwritten /\ Untold' = Untold
      /\ \A k : Writer(k)' = Writer(k) /\ (Starts(k)' <=> Starts(k))
                /\ (Buffered(k)' <=> Buffered(k))
  BY <1>1, ChainStill DEF chainVars, Unwritten, Blank
<1> PICK f : f = Asked(rootStatus # "active")
  OBVIOUS
<1>4. /\ f \in Frame /\ f.stage = "asked" /\ f.root = (rootStatus # "active")
      /\ frames' = [frames EXCEPT ![Request] = Append(@, f)]
      /\ Mine.pc = "idle" /\ UNCHANGED <<rootStatus, stack, scope, op, manual>>
  BY DEF Ask, Asked, Frame, Stage, InUserCode, Mine
<1>5. /\ Own' # <<>> /\ Last(Own') = f
      /\ Len(Own') = Len(Own) + 1 /\ Own'[Len(Own) + 1] = f
      /\ \A i \in DOMAIN Own : i \in DOMAIN Own' /\ Own'[i] = Own[i]
      /\ \A h \in Goroutines \ {Request} : frames'[h] = frames[h]
  BY <1>2, <1>4, PushFacts DEF Own
<1>6. \A stage : At(Request, stage)' <=> stage = "asked"
  BY <1>4, <1>5 DEF At, Own
<1>7. \A s : IsOwn(s) => IsOwn(s)'
  BY <1>5 DEF IsOwn
<1>8. \A s \in Scopes : scope[s].status = "none" \/ IsOwn(s)
  BY <1>1, <1>2 DEF Telling, Beginnings, Down
<1>9. Own = <<>> => rootStatus # "active"
  <2> SUFFICES ASSUME Own = <<>>, rootStatus = "active" PROVE FALSE
    OBVIOUS
  <2>1. \A s \in Scopes : scope[s].status = "none"
    BY <1>8 DEF IsOwn
  <2>2. stack # <<>> /\ stack \in Seq(Scopes)
    BY <1>2 DEF Managed, Usual, IInv, ScopesNest, TypeOK
  <2>3. 1 \in DOMAIN stack /\ stack[1] \in Scopes
    BY <2>2, LastFacts
  <2>4. scope[stack[1]].status = "active"
    BY <1>2, <2>3 DEF Managed, Usual, IInv, ScopesNest
  <2> QED BY <2>1, <2>3, <2>4
<1>10. Own'[1].root
  <2>1. CASE Own = <<>>
    <3>1. Len(Own) + 1 = 1
      BY <2>1
    <3>2. Own'[1] = f
      BY <1>5, <3>1
    <3> QED BY <1>4, <1>9, <2>1, <3>2
  <2>2. CASE Own # <<>>
    <3>1. 1 \in DOMAIN Own
      BY <1>2, <2>2, LastFacts
    <3> QED BY <1>2, <1>5, <2>2, <3>1 DEF Control, Staged
  <2> QED BY <2>1, <2>2
<1>11. Opened' = Opened \cup {at + 1} /\ at + 1 \notin Opened
  BY <1>1, <1>2, <1>3 DEF Opened
<1>12. Cardinality(Opened') = Len(Own')
  <2>1. Cardinality(Opened \cup {at + 1}) = Cardinality(Opened) + 1
    BY <1>2, <1>11, OpenedFinite, FS_AddElement
  <2>2. Cardinality(Opened) = Len(Own)
    BY <1>2 DEF Control, Staged
  <2> QED BY <1>5, <1>11, <2>1, <2>2
<1>13. Typed'
  BY <1>1, <1>2, <1>3 DEF Control, Typed
<1>14. Returning'
  BY <1>1, <1>2, <1>3 DEF Control, Returning, Down
<1>15. WritersNest'
  BY <1>1, <1>2, <1>3, NextWriter DEF Control, WritersNest
<1>16. Single'
  BY <1>2, <1>4, <1>5 DEF Control, Single
<1>17. Staged'
  BY <1>1, <1>2, <1>3, <1>4, <1>5, <1>6, <1>10, <1>12 DEF Staged, Mine
<1>18. Control'
  BY <1>13, <1>14, <1>15, <1>16, <1>17 DEF Control
<1>19. Beginnings'
  BY <1>1, <1>2, <1>4, <1>7, <1>8 DEF Telling, Beginnings, Down
<1>20. rootStatus = "active" /\ MarkedOnly => MarkedOnly'
  BY <1>4, ExecuteMarks DEF Execute
<1> QED BY <1>1, <1>4, <1>18, <1>19, <1>20, DownTells DEF Down, Mine


\* The begin of a layer's execution is called: as nothing else goes on, no
\* scope is meant yet.
LEMMA BeginLayerKeeps == ASSUME Served, BeginLayer PROVE Control' /\ Telling'
<1>1. /\ pc = "run" /\ BeginExecution(Request)
      /\ UNCHANGED <<chainVars, at, pc, err, passed, response, statusErr>>
      /\ Managed /\ Control /\ Telling /\ Request \in Goroutines
  BY RequestAssumption DEF BeginLayer, requestVars, Served
<1>2. /\ Own # <<>> /\ Top \in Frame /\ Top.stage = "asked" /\ Mine.pc = "idle"
  BY <1>1, RunningFacts DEF BeginExecution, At, Managed, ManagerInv, Own, Top, Mine
<1> PICK f : f = [Top EXCEPT !.stage = "begin"]
  OBVIOUS
<1>3. f \in Frame /\ f.stage = "begin" /\ f.root = Top.root /\ SetFrame(Request, f)
  BY <1>1, <1>2 DEF Frame, Stage, BeginExecution, Top
<1>4. /\ op'[Request].pc = "lock" /\ op'[Request].scope = NoScope /\ op'[Request].ret = {}
      /\ \A h \in Goroutines \ {Request} : op'[h] = op[h]
      /\ UNCHANGED <<rootStatus, stack, scope, rollbackOnly, ctxDone, manual>>
  <2>1. Kind(Request) \in BeginKind /\ Call(Request, Kind(Request), NoScope)
    BY <1>1 DEF BeginExecution, Kind, BeginKind, CallBegin
  <2> QED BY <1>1, <2>1 DEF BeginExecution, Call, Idle, Managed, Usual, IInv, TypeOK, state
<1>5. framework' = framework /\ layers' = layers /\ globalAuto' = globalAuto /\ Untold' = Untold
      /\ Unwritten' = Unwritten /\ \A k : Starts(k)' <=> Starts(k)
  BY <1>1, ChainStill DEF chainVars, Unwritten, Blank
<1>6. Typed'
  BY <1>1, <1>5 DEF Control, Typed
<1>7. Returning'
  BY <1>1, <1>5 DEF Control, Returning, Down
<1>8. Top.stage \notin Held
  BY <1>2 DEF Held
<1>9. Control' /\ \A s : IsOwn(s) => IsOwn(s)'
  BY <1>1, <1>2, <1>3, <1>4, <1>6, <1>7, <1>8, SetControls
<1>10. Mine.scope = NoScope /\ NoScope \notin Scopes
  BY <1>1, <1>2, NullAssumption DEF Managed, Usual, CallInv, CallSound, Mine, Idle
<1>11. Beginnings'
  BY <1>1, <1>2, <1>4, <1>9, <1>10 DEF Telling, Beginnings, Down, Mine
<1>12. MarkedOnly' <=> MarkedOnly
  BY <1>4 DEF MarkedOnly, Cancelled
<1>13. "Panic" \notin Mine'.ret
  BY <1>4 DEF Mine
<1> QED BY <1>1, <1>4, <1>9, <1>11, <1>12, <1>13, DownTells DEF Down

\* The begin has succeeded: the scope is the layer's own, and the request goes
\* further down.
LEMMA BeganLayerKeeps ==
  ASSUME Served, BeganLayer, op[Request].ret = {} PROVE Control' /\ Telling'
<1>1. /\ pc = "run" /\ Began(Request) /\ pc' = "enter"
      /\ UNCHANGED <<chainVars, at, err, passed, response, statusErr>>
      /\ Managed /\ Control /\ Telling /\ Request \in Goroutines
  BY RequestAssumption DEF BeganLayer, Served
<1>2. /\ Own # <<>> /\ Top \in Frame /\ Top.stage = "begin" /\ Mine.pc = "done"
      /\ Return(Request) /\ op[Request].kind \in BeginKind
  BY <1>1, RunningFacts
     DEF Began, Return, At, Managed, ManagerInv, CallsSound, Belongs, Kind, BeginKind, Own, Top, Mine
<1>3. op[Request].scope \in Scopes
  BY <1>1, <1>2 DEF Managed, Usual, CallInv, CallSound, IInv, TypeOK, Operation, Mine
<1> PICK s : s = op[Request].scope
  OBVIOUS
<1> PICK f : f = [Top EXCEPT !.stage = "fn", !.scope = s]
  OBVIOUS
<1>4. /\ f \in Frame /\ f.stage = "fn" /\ f.root = Top.root /\ f.scope = Mine.scope
      /\ SetFrame(Request, f)
  BY <1>1, <1>2, <1>3 DEF Frame, Stage, Began, Top, Mine
<1>5. /\ op'[Request] = Idle
      /\ \A h \in Goroutines \ {Request} : op'[h] = op[h]
      /\ UNCHANGED <<rootStatus, stack, scope, rollbackOnly, ctxDone, manual>>
  BY <1>1, <1>2 DEF Began, Return, Managed, Usual, IInv, TypeOK, state
<1>6. framework' = framework /\ layers' = layers /\ globalAuto' = globalAuto /\ Untold' = Untold
      /\ Unwritten' = Unwritten /\ \A k : Starts(k)' <=> Starts(k)
  BY <1>1, ChainStill DEF chainVars, Unwritten, Blank
<1>7. Typed'
  BY <1>1, <1>6 DEF Control, Typed
<1>8. Returning'
  BY <1>1, <1>6 DEF Control, Returning, Down
<1>9. Top.stage \notin Held /\ f.stage \in Held /\ op'[Request].pc = "idle"
  BY <1>2, <1>4, <1>5 DEF Held, Idle
<1>10. Control' /\ (\A t : IsOwn(t) => IsOwn(t)') /\ IsOwn(f.scope)'
  BY <1>1, <1>2, <1>4, <1>5, <1>7, <1>8, <1>9, SetControls
<1>11. IsOwn(s)'
  BY <1>4, <1>10 DEF Mine, IsOwn
<1>12. ASSUME NEW t \in Scopes PROVE scope[t].status = "none" \/ IsOwn(t)'
  <2>1. scope[t].status = "none" \/ IsOwn(t) \/ Mine.scope = t
    BY <1>1 DEF Telling, Beginnings, Down, Mine
  <2> QED BY <1>10, <1>11, <2>1 DEF Mine
<1>13. Beginnings'
  BY <1>1, <1>5, <1>12 DEF Telling, Beginnings, Down
<1>14. MarkedOnly' <=> MarkedOnly
  BY <1>5 DEF MarkedOnly, Cancelled
<1>15. "Panic" \notin Mine'.ret
  BY <1>5 DEF Mine, Idle
<1> QED BY <1>1, <1>5, <1>10, <1>13, <1>14, <1>15, DownTells DEF Down


\* The innermost execution leaves, and its layer with it.
LEMMA LeaveControls ==
  ASSUME Managed, Control, Own # <<>>, Leave(Request), Return(Request),
         UNCHANGED <<manual, chainVars, at>>,
         Typed', Returning', pc \in {"run", "finalize"}, pc' = "ended"
  PROVE  /\ Control'
         /\ op'[Request] = Idle
         /\ UNCHANGED <<rootStatus, stack, scope, rollbackOnly, ctxDone>>
         /\ \A s : IsOwn(s) => IsOwn(s)' \/ (Top.stage \in Held /\ Top.scope = s)
<1>1. /\ Request \in Goroutines /\ ManagerTypeOK /\ Own \in Seq(Frame)
      /\ Len(Own) \in DOMAIN Own /\ Top = Own[Len(Own)] /\ Len(Own) \in Nat \ {0}
  BY RequestAssumption, RunningFacts, LastFacts DEF Managed, ManagerInv, ManagerTypeOK, Own, Top
<1>2. /\ Own' \in Seq(Frame) /\ Len(Own') = Len(Own) - 1
      /\ DOMAIN Own' = DOMAIN Own \ {Len(Own)}
      /\ \A i \in DOMAIN Own' : Own'[i] = Own[i]
      /\ \A h \in Goroutines \ {Request} : frames'[h] = frames[h]
  BY <1>1, LeaveFacts DEF Own
<1>3. Own' = <<>> \/ At(Request, "fn")'
  BY <1>1, LeaveTop DEF Own
<1>4. /\ op'[Request] = Idle /\ UNCHANGED <<rootStatus, stack, scope, rollbackOnly, ctxDone>>
      /\ \A h \in Goroutines \ {Request} : op'[h] = op[h]
  BY <1>1 DEF Return, Managed, Usual, IInv, TypeOK, state
<1>5. \A s : IsOwn(s) => IsOwn(s)' \/ (Top.stage \in Held /\ Top.scope = s)
  BY <1>1, <1>2 DEF IsOwn
<1>6. /\ framework' = framework /\ layers' = layers /\ globalAuto' = globalAuto
      /\ \A k : Writer(k)' = Writer(k) /\ (Starts(k)' <=> Starts(k))
                /\ (Buffered(k)' <=> Buffered(k))
  BY ChainStill DEF chainVars
<1>7. at > 0 /\ Starts(at) /\ at \in 1 .. at
  BY DEF Control, Staged, Typed
<1>8. Opened' = Opened \ {at} /\ at \in Opened
  BY <1>6, <1>7 DEF Opened
<1>9. Cardinality(Opened') = Len(Own')
  <2>1. Cardinality(Opened \ {at}) = Cardinality(Opened) - 1
    BY <1>8, OpenedFinite, FS_RemoveElement
  <2>2. Cardinality(Opened) = Len(Own)
    BY DEF Control, Staged
  <2> QED BY <1>2, <1>8, <2>1, <2>2
<1>10. Own' # <<>> => Own'[1].root
  <2> SUFFICES ASSUME Own' # <<>> PROVE Own'[1].root
    OBVIOUS
  <2>1. 1 \in DOMAIN Own'
    BY <1>2, LastFacts
  <2> QED BY <1>2, <2>1 DEF Control, Staged
<1>11. Staged'
  BY <1>3, <1>4, <1>6, <1>7, <1>9, <1>10 DEF Staged, Mine, Idle
<1>12. Single' /\ WritersNest'
  BY <1>2, <1>4, <1>6 DEF Control, Single, WritersNest
<1> QED BY <1>4, <1>5, <1>11, <1>12 DEF Control

\* The begin has failed: what is below the layer does not run.
LEMMA BeginFailsKeeps ==
  ASSUME Served, BeganLayer, op[Request].ret # {} PROVE Control' /\ Telling'
<1>1. /\ pc = "run" /\ Began(Request) /\ pc' = "ended" /\ err' \in {"panic", "error"}
      /\ UNCHANGED <<chainVars, at, passed, response, statusErr>>
      /\ Managed /\ Control /\ Telling /\ Request \in Goroutines
  BY RequestAssumption DEF BeganLayer, Served
<1>2. Own # <<>> /\ Return(Request) /\ Leave(Request) /\ UNCHANGED manual
  BY <1>1 DEF Began, At, Own
<1>3. framework' = framework /\ layers' = layers /\ globalAuto' = globalAuto /\ Untold' = Untold
      /\ Unwritten' = Unwritten
      /\ \A k : Writer(k)' = Writer(k) /\ (Starts(k)' <=> Starts(k))
                /\ (Buffered(k)' <=> Buffered(k))
  BY <1>1, ChainStill DEF chainVars, Unwritten, Blank
<1>4. Typed'
  BY <1>1, <1>3 DEF Control, Typed, Answers
<1>5. Returning'
  BY <1>1, <1>3 DEF Control, Returning, Down, Staged
<1>6. /\ Control' /\ op'[Request] = Idle
      /\ UNCHANGED <<rootStatus, stack, scope, rollbackOnly, ctxDone>>
  BY <1>1, <1>2, <1>4, <1>5, LeaveControls
<1>7. response = Unwritten /\ Client = Blank
  <2>1. response = Unwritten /\ 0 \in 0 .. Len(layers)
    BY <1>1 DEF Control, Returning, Typed
  <2> QED BY <2>1 DEF Client, Unwritten
<1>8. SuccessTells'
  BY <1>1 DEF SuccessTells, Clean
<1>9. ClientTells' /\ ClientWaits'
  BY <1>1, <1>7 DEF ClientTells, ClientWaits, Client, Blank
<1>10. MarkedOnly' <=> MarkedOnly
  BY <1>6 DEF MarkedOnly, Cancelled
<1>11. "Panic" \notin Mine'.ret
  BY <1>6 DEF Mine, Idle
<1> QED BY <1>1, <1>6, <1>8, <1>9, <1>10, <1>11, TurnTells DEF Down

-----------------------------------------------------------------------------
(* The executor of a layer decides and finalizes.                          *)

\* What it decides, given how the callback has ended.
LEMMA DecideFacts ==
  ASSUME Managed, Own # <<>>, DecideLayer
  PROVE  \E f \in Frame :
           /\ SetFrame(Request, f) /\ f.stage = "decided"
           /\ f.root = Top.root /\ f.scope = Top.scope /\ f.outcome = FnOutcome
           /\ f.plan = "commit" => f.cause = f.outcome
           /\ "FnError" \in f.cause => f.outcome = {"FnError"}
           /\ f.root /\ f.plan = "rollback" /\ f.outcome = {} => f.cause = {"RollbackCause"}
           /\ f.outcome = {"FnPanic"} => f.plan = "rollback"
           /\ f.root /\ f.outcome # {} /\ DefaultPolicy => f.plan = "rollback"
           /\ f.root /\ IsRollbackOnly => f.plan = "rollback"
<1>1. Request \in Goroutines /\ ManagerTypeOK /\ Top \in Frame
  BY RequestAssumption, RunningFacts DEF Managed, ManagerInv, Own, Top
<1>2. ASSUME NEW outcome \in Outcome, NEW plan \in FinalizeKind, NEW cause \in SUBSET Cause,
             Decided(Request, outcome, plan, cause)
      PROVE  \E f \in Frame :
               /\ SetFrame(Request, f) /\ f.stage = "decided"
               /\ f.root = Top.root /\ f.scope = Top.scope /\ f.outcome = FnOutcome
               /\ f.outcome = outcome /\ f.plan = plan /\ f.cause = cause
  <2> PICK f : f = [Top EXCEPT !.stage = "decided", !.outcome = outcome,
                               !.plan = plan, !.cause = cause]
    OBVIOUS
  <2>1. /\ f \in Frame /\ SetFrame(Request, f) /\ f.stage = "decided"
        /\ f.root = Top.root /\ f.scope = Top.scope
        /\ f.outcome = outcome /\ f.plan = plan /\ f.cause = cause
    BY <1>1, <1>2 DEF Frame, Stage, Outcome, Decided, Top
  <2>2. Last(frames'[Request]) = f
    BY <1>1, <2>1, SetFacts DEF Own
  <2>3. f.outcome = FnOutcome
    BY <2>2 DEF DecideLayer
  <2> QED BY <2>1, <2>3
<1>3. CASE DecideRoot(Request)
  <2>0. PICK outcome \in Outcome : \E wants \in PolicyAnswers(outcome) :
          IF RollbackWanted(outcome, wants)
          THEN Decided(Request, outcome, "rollback",
                       IF outcome = {} THEN {"RollbackCause"} ELSE outcome)
          ELSE Decided(Request, outcome, "commit", outcome)
    BY <1>3 DEF DecideRoot
  <2>1. PICK wants \in PolicyAnswers(outcome) :
          IF RollbackWanted(outcome, wants)
          THEN Decided(Request, outcome, "rollback",
                       IF outcome = {} THEN {"RollbackCause"} ELSE outcome)
          ELSE Decided(Request, outcome, "commit", outcome)
    BY <2>0
  <2>2. outcome \in SUBSET Cause /\ {"RollbackCause"} \in SUBSET Cause
        /\ {"commit", "rollback"} \subseteq FinalizeKind
    BY DEF Outcome, Cause, FinalizeKind
  <2>3. CASE RollbackWanted(outcome, wants)
    <3> PICK cause \in SUBSET Cause : cause = IF outcome = {} THEN {"RollbackCause"} ELSE outcome
      BY <2>2
    <3>1. Decided(Request, outcome, "rollback", cause)
      BY <2>1, <2>3
    <3>2. PICK f \in Frame :
            /\ SetFrame(Request, f) /\ f.stage = "decided"
            /\ f.root = Top.root /\ f.scope = Top.scope /\ f.outcome = FnOutcome
            /\ f.outcome = outcome /\ f.plan = "rollback" /\ f.cause = cause
      BY <1>2, <2>2, <3>1
    <3> QED BY <3>2 DEF Outcome
  <2>4. CASE ~RollbackWanted(outcome, wants)
    <3>1. PICK f \in Frame :
            /\ SetFrame(Request, f) /\ f.stage = "decided"
            /\ f.root = Top.root /\ f.scope = Top.scope /\ f.outcome = FnOutcome
            /\ f.outcome = outcome /\ f.plan = "commit" /\ f.cause = outcome
      BY <1>2, <2>1, <2>2, <2>4
    <3>2. ~IsRollbackOnly /\ outcome # {"FnPanic"} /\ ~wants
      BY <2>4 DEF RollbackWanted, Overridden
    <3>3. DefaultPolicy => outcome = {}
      BY <3>2 DEF PolicyAnswers
    <3> QED BY <3>1, <3>2, <3>3 DEF Outcome
  <2> QED BY <2>3, <2>4
<1>4. CASE DecideNested(Request)
  <2>1. PICK outcome \in Outcome, plan \in FinalizeKind, cause \in SUBSET Cause :
          /\ Decided(Request, outcome, plan, cause)
          /\ plan = "commit" => outcome = {} /\ cause = {}
          /\ "FnError" \in cause => outcome = {"FnError"}
    <3>1. {} \in Outcome /\ {"commit", "rollback"} \subseteq FinalizeKind
      BY DEF Outcome, FinalizeKind
    <3>2. {} \in SUBSET Cause /\ {"ContextCancelled"} \in SUBSET Cause
      BY DEF Cause
    <3>3. CASE Decided(Request, {}, "rollback", {"ContextCancelled"})
      BY <3>1, <3>2, <3>3
    <3>4. CASE Decided(Request, {}, "commit", {})
      BY <3>1, <3>2, <3>4
    <3>5. ASSUME NEW outcome \in Outcome, Decided(Request, outcome, "rollback", outcome)
          PROVE  \E plan \in FinalizeKind, cause \in SUBSET Cause :
                   /\ Decided(Request, outcome, plan, cause)
                   /\ plan = "commit" => outcome = {} /\ cause = {}
                   /\ "FnError" \in cause => outcome = {"FnError"}
      <4>1. outcome \in SUBSET Cause /\ ("FnError" \in outcome => outcome = {"FnError"})
        BY DEF Outcome, Cause
      <4> QED BY <3>1, <3>5, <4>1
    <3> QED BY <1>4, <3>3, <3>4, <3>5 DEF DecideNested
  <2>2. PICK f \in Frame :
          /\ SetFrame(Request, f) /\ f.stage = "decided"
          /\ f.root = Top.root /\ f.scope = Top.scope /\ f.outcome = FnOutcome
          /\ f.outcome = outcome /\ f.plan = plan /\ f.cause = cause
    BY <1>2, <2>1
  <2>3. ~f.root
    BY <1>4, <2>2 DEF DecideNested, Top
  <2> QED BY <2>1, <2>2, <2>3 DEF FinalizeKind
<1> QED BY <1>3, <1>4 DEF DecideLayer


\* The mark that a layer has left is seen by the decision about the root, and
\* so is the error of the outermost layer.
LEMMA DecideLayerKeeps == ASSUME Served, DecideLayer PROVE Control' /\ Telling'
<1>1. /\ pc = "decide" /\ pc' = "finalize" /\ (DecideRoot(Request) \/ DecideNested(Request))
      /\ UNCHANGED <<chainVars, at, err, passed, response, statusErr>>
      /\ Managed /\ Control /\ Telling /\ Request \in Goroutines
  BY RequestAssumption DEF DecideLayer, Served
<1>2. /\ Own # <<>> /\ Top.stage = "fn" /\ Mine.pc = "idle"
      /\ UNCHANGED <<rootStatus, stack, scope, ctxDone, op, manual>>
  BY <1>1, RunningFacts
     DEF DecideRoot, DecideNested, At, Managed, ManagerInv, Own, Top, Mine, vars, state
<1>3. PICK f \in Frame :
        /\ SetFrame(Request, f) /\ f.stage = "decided"
        /\ f.root = Top.root /\ f.scope = Top.scope /\ f.outcome = FnOutcome
        /\ f.plan = "commit" => f.cause = f.outcome
        /\ "FnError" \in f.cause => f.outcome = {"FnError"}
        /\ f.root /\ f.plan = "rollback" /\ f.outcome = {} => f.cause = {"RollbackCause"}
        /\ f.outcome = {"FnPanic"} => f.plan = "rollback"
        /\ f.root /\ f.outcome # {} /\ DefaultPolicy => f.plan = "rollback"
        /\ f.root /\ IsRollbackOnly => f.plan = "rollback"
  BY <1>1, <1>2, DecideFacts
<1>4. /\ framework' = framework /\ layers' = layers /\ globalAuto' = globalAuto
      /\ Untold' = Untold /\ (RollsBackSuccess' <=> RollsBackSuccess)
      /\ \A k : Writer(k)' = Writer(k) /\ (Starts(k)' <=> Starts(k))
                /\ (Buffered(k)' <=> Buffered(k))
  BY <1>1, ChainStill DEF chainVars
<1>5. Typed'
  BY <1>1, <1>4 DEF Control, Typed
<1>6. Returning'
  BY <1>1, <1>4 DEF Control, Returning, Down
<1>7. f.stage \in Held
  BY <1>3 DEF Held
<1>8. /\ Control' /\ Top' = f /\ \A s : IsOwn(s) => IsOwn(s)'
      /\ \A stage : At(Request, stage)' <=> f.stage = stage
  BY <1>1, <1>2, <1>3, <1>5, <1>6, <1>7, SetControls
<1>9. rootStatus = "active" /\ MarkedOnly => MarkedOnly'
  BY <1>1, <1>2, ExecuteMarks DEF Execute
<1>10. rootStatus \in {"active", "failed"}
  BY <1>1, <1>2, RootOutlives
<1>11. Beginnings' /\ RefusedEndsNothing'
  BY <1>1, <1>3, <1>8 DEF Beginnings, Down, RefusedEndsNothing
<1>12. Deciding'
  <2>1. FnOutcome' = FnOutcome
    BY <1>1 DEF FnOutcome
  <2> QED BY <1>3, <1>8, <2>1 DEF Deciding
<1>13. SuccessTells'
  <2>1. Clean' <=> Clean
    BY <1>1 DEF Clean
  <2>2. Success' <=> Success
    BY <1>1, <1>4 DEF Success
  <2> QED BY <1>1, <1>2, <1>8, <2>1, <2>2 DEF Telling, SuccessTells
<1>14. ClientTells'
  BY <1>1, <1>2, <1>4 DEF Telling, ClientTells, Client
<1>15. ReasonGiven'
  BY <1>1, <1>2, <1>4, <1>9 DEF Telling, ReasonGiven
<1>16. Preventing'
  <2> SUFFICES ASSUME layers # <<>>, Starts(1), err # "panic",
                      framework = "http" \/ (DefaultPolicy /\ passed[1] = "nil"),
                      at = 1, f.plan = "commit", rootStatus # "failed"
               PROVE  err = "nil" /\ ~Judged(Writer(1))
    <3>1. Judged(Writer(1))' <=> Judged(Writer(1))
      BY <1>1, <1>4 DEF Judged
    <3>2. at # 0
      BY <1>1 DEF Control, Staged
    <3> QED BY <1>1, <1>2, <1>4, <1>8, <3>1, <3>2 DEF Preventing
  <2>1. f.root
    BY <1>1, <1>2, <1>3, FirstOnly, OutermostIsRoot
  <2>2. ~MarkedOnly
    BY <1>3, <1>10, <2>1 DEF IsRollbackOnly, FinalizeKind
  <2>3. err = "nil"
    <3>1. CASE framework = "http"
      BY <1>1, <3>1 DEF Control, Returning
    <3>2. CASE DefaultPolicy
      BY <1>3, <2>1, <3>2 DEF FnOutcome
    <3> QED BY <3>1, <3>2
  <2> QED BY <1>1, <1>10, <2>2, <2>3 DEF Telling, Preventing
<1>17. Preserving'
  <2> SUFFICES ASSUME statusErr # "none", f.root, rootStatus # "failed"
               PROVE  f.plan = "rollback"
    BY <1>1, <1>2, <1>8 DEF Preserving
  <2>1. MarkedOnly
    BY <1>1, <1>10 DEF Telling, ReasonGiven
  <2> QED BY <1>3, <1>10, <2>1 DEF IsRollbackOnly
<1>18. Panicking' /\ ClientWaits'
  BY <1>1, <1>2, <1>4 DEF Telling, Panicking, ClientWaits, Client, Blank, Mine
<1> QED BY <1>8, <1>11, <1>12, <1>13, <1>14, <1>15, <1>16, <1>17, <1>18 DEF Telling

\* Finalizing is called for the scope that the layer has had all along.
LEMMA FinalizeLayerKeeps == ASSUME Served, FinalizeLayer PROVE Control' /\ Telling'
<1>1. /\ pc = "finalize" /\ FinalizeExecution(Request)
      /\ UNCHANGED <<chainVars, at, pc, err, passed, response, statusErr>>
      /\ Managed /\ Control /\ Telling /\ Request \in Goroutines
  BY RequestAssumption DEF FinalizeLayer, requestVars, Served
<1>2. /\ Mine.pc = "idle" /\ FrameSound(Top) /\ Top.stage = "decided" /\ Top \in Frame
      /\ Own # <<>>
      /\ Call(Request, Top.plan, Top.scope) \/ CallNoRoot(Request, Top.plan)
  BY <1>1, FinalizeAllowed DEF Top, Mine, Own
<1> PICK f : f = [Top EXCEPT !.stage = "end"]
  OBVIOUS
<1>3. /\ f \in Frame /\ f.stage = "end" /\ f.root = Top.root /\ f.scope = Top.scope
      /\ f.plan = Top.plan /\ f.outcome = Top.outcome /\ f.cause = Top.cause
      /\ SetFrame(Request, f)
  BY <1>1, <1>2 DEF Frame, Stage, FinalizeExecution, Top
<1>4. /\ \A h \in Goroutines \ {Request} : op'[h] = op[h]
      /\ "Panic" \notin op'[Request].ret
      /\ UNCHANGED <<rootStatus, stack, scope, rollbackOnly, ctxDone, manual>>
  <2>1. "Panic" \notin ScopeRefusal(NoScope)
    BY DEF ScopeRefusal
  <2> QED BY <1>1, <1>2, <2>1
          DEF FinalizeExecution, Call, CallNoRoot, Idle, Managed, Usual, IInv, TypeOK, state
<1>5. /\ framework' = framework /\ layers' = layers /\ globalAuto' = globalAuto
      /\ Untold' = Untold /\ (RollsBackSuccess' <=> RollsBackSuccess) /\ Unwritten' = Unwritten
      /\ \A k : Writer(k)' = Writer(k) /\ (Starts(k)' <=> Starts(k))
                /\ (Buffered(k)' <=> Buffered(k))
  BY <1>1, ChainStill DEF chainVars, Unwritten, Blank
<1>6. Typed'
  BY <1>1, <1>5 DEF Control, Typed
<1>7. Returning'
  BY <1>1, <1>5 DEF Control, Returning, Down
<1>8. f.stage \in Held
  BY <1>3 DEF Held
<1>9. Control' /\ Top' = f /\ \A s : IsOwn(s) => IsOwn(s)'
  BY <1>1, <1>2, <1>3, <1>4, <1>6, <1>7, <1>8, SetControls
<1>10. MarkedOnly' <=> MarkedOnly
  BY <1>4 DEF MarkedOnly, Cancelled
<1>11. Beginnings'
  BY <1>1 DEF Beginnings, Down
<1>12. RefusedEndsNothing'
  <2>1. Untouched(Top.scope)
    BY <1>2 DEF FrameSound
  <2> QED BY <1>3, <1>4, <1>9, <2>1 DEF RefusedEndsNothing, Untouched
<1>13. Deciding'
  <2>1. FnOutcome' = FnOutcome
    BY <1>1 DEF FnOutcome
  <2> QED BY <1>1, <1>3, <1>9, <2>1 DEF Telling, Deciding
<1>14. SuccessTells'
  <2>1. Clean' <=> Clean
    BY <1>1 DEF Clean
  <2>2. Success' <=> Success
    BY <1>1, <1>5 DEF Success
  <2> QED BY <1>1, <1>4, <1>9, <2>1, <2>2 DEF Telling, SuccessTells
<1>15. ClientTells'
  BY <1>1, <1>4, <1>5 DEF Telling, ClientTells, Client
<1>16. ReasonGiven'
  BY <1>1, <1>4, <1>5, <1>10 DEF Telling, ReasonGiven
<1>17. Preventing'
  <2>1. \A k : Judged(k)' <=> Judged(k)
    BY <1>1, <1>5 DEF Judged
  <2>2. Judged(Writer(1))' <=> Judged(Writer(1))
    BY <1>1, <1>5 DEF Judged
  <2> QED BY <1>1, <1>3, <1>4, <1>5, <1>9, <2>1, <2>2 DEF Telling, Preventing, Control, Staged
<1>18. Preserving'
  BY <1>1, <1>3, <1>4, <1>5, <1>9 DEF Telling, Preserving
<1>19. Panicking' /\ ClientWaits'
  BY <1>1, <1>4, <1>5 DEF Telling, Panicking, ClientWaits, Client, Blank, Mine
<1> QED BY <1>9, <1>11, <1>12, <1>13, <1>14, <1>15, <1>16, <1>17, <1>18, <1>19 DEF Telling


\* What Run answers, given what the executor has decided and what its
\* finalization has answered.
LEMMA RunFacts ==
  ASSUME Served, RunReturns
  PROVE  /\ pc = "finalize" /\ pc' = "ended" /\ Answering(Request)
         /\ Own # <<>> /\ Return(Request) /\ Leave(Request) /\ UNCHANGED manual
         /\ UNCHANGED <<chainVars, at, passed, response, statusErr>>
         /\ Mine.ret \subseteq Sentinel /\ Top.cause \subseteq Cause
         /\ err' = RunAnswer(AnswerOf(Request)) /\ err' \in Answers
         /\ err' = "status" => statusErr # "none"
         /\ err' = "nil" => AnswerOf(Request) = {} /\ Top.cause = {} /\ err = "nil"
         /\ err' # "panic" => err # "panic" /\ "Panic" \notin Mine.ret
         /\ err' = "panic" => err = "panic" \/ "Panic" \in Mine.ret
<1>1. /\ pc = "finalize" /\ pc' = "ended" /\ Answering(Request)
      /\ Own # <<>> /\ Return(Request) /\ Leave(Request) /\ UNCHANGED manual
      /\ UNCHANGED <<chainVars, at, passed, response, statusErr>>
      /\ err' = RunAnswer(AnswerOf(Request)) /\ err \in Answers
      /\ Managed /\ Telling /\ Request \in Goroutines
  BY RequestAssumption
     DEF RunReturns, EndExecution, Return, Answering, At, Own, Served, Control, Typed
<1>2. /\ FrameSound(Top) /\ Top \in Frame /\ Top.stage = "end" /\ Mine.ret \subseteq Sentinel
  BY <1>1, AnsweringFacts
     DEF Top, Mine, Managed, Usual, IInv, TypeOK, Operation, Error
<1>3. Top.cause \subseteq Cause
  BY <1>2 DEF Frame
<1> PICK answer : answer = AnswerOf(Request)
  OBVIOUS
<1>4. /\ "Panic" \in Mine.ret => answer = Mine.ret
      /\ "Panic" \in answer => "Panic" \in Mine.ret
      /\ "FnError" \in answer => "FnError" \in Top.cause
      /\ answer = {} => Top.cause = {}
  BY <1>2, <1>3 DEF AnswerOf, Answered, Refused, Sentinel, Cause, Mine, Top
<1>5. "FnError" \in answer => err \notin {"nil", "panic"}
  BY <1>1, <1>4 DEF Telling, Deciding, FnOutcome
<1>6. answer = {} => err = "nil"
  <2> SUFFICES ASSUME answer = {} PROVE err = "nil"
    OBVIOUS
  <2>1. Top.plan = "commit"
    BY <1>2, <1>4 DEF FrameSound, FinalizeKind
  <2>2. FnOutcome = {}
    BY <1>1, <1>4, <2>1 DEF Telling, Deciding
  <2> QED BY <2>2 DEF FnOutcome
<1>7. err = "status" => statusErr # "none"
  BY DEF Served, Control, Returning
<1>8. err' = RunAnswer(answer)
  BY <1>1
<1> QED BY <1>1, <1>2, <1>3, <1>4, <1>5, <1>6, <1>7, <1>8 DEF RunAnswer, Answers

\* The answer of the layer's execution goes on to the client: it is nil only
\* if the layer's scope was committed, and a rollback that the status asked for
\* is answered as that status.
LEMMA RunKeeps == ASSUME Served, RunReturns PROVE Control' /\ Telling'
<1>1. /\ pc = "finalize" /\ pc' = "ended" /\ Answering(Request)
      /\ Own # <<>> /\ Return(Request) /\ Leave(Request) /\ UNCHANGED manual
      /\ UNCHANGED <<chainVars, at, passed, response, statusErr>>
      /\ Mine.ret \subseteq Sentinel /\ Top.cause \subseteq Cause
      /\ err' = RunAnswer(AnswerOf(Request)) /\ err' \in Answers
      /\ err' = "status" => statusErr # "none"
      /\ err' = "nil" => AnswerOf(Request) = {} /\ Top.cause = {} /\ err = "nil"
      /\ err' # "panic" => err # "panic" /\ "Panic" \notin Mine.ret
      /\ err' = "panic" => err = "panic" \/ "Panic" \in Mine.ret
  BY RunFacts
<1>2. /\ Managed /\ Control /\ Telling /\ Request \in Goroutines /\ at > 0 /\ Starts(at)
  BY <1>1, RequestAssumption DEF Served, Control, Staged
<1>3. /\ framework' = framework /\ layers' = layers /\ globalAuto' = globalAuto
      /\ Untold' = Untold /\ (RollsBackSuccess' <=> RollsBackSuccess)
      /\ \A k : Writer(k)' = Writer(k) /\ (Starts(k)' <=> Starts(k))
                /\ (Buffered(k)' <=> Buffered(k))
  BY <1>1, ChainStill DEF chainVars
<1>4. Typed'
  BY <1>1, <1>2, <1>3 DEF Control, Typed
<1>5. Returning'
  BY <1>1, <1>2, <1>3 DEF Control, Returning, Down
<1>6. /\ Control' /\ op'[Request] = Idle
      /\ UNCHANGED <<rootStatus, stack, scope, rollbackOnly, ctxDone>>
      /\ \A s : IsOwn(s) => IsOwn(s)' \/ (Top.stage \in Held /\ Top.scope = s)
  BY <1>1, <1>2, <1>4, <1>5, LeaveControls
<1>7. /\ FrameSound(Top) /\ Top.stage = "end" /\ Top.scope \in Scopes
      /\ Top.root <=> scope[Top.scope].depth = 0
      /\ scope[Top.scope].status # "none" /\ Finalizing(Request) /\ Mine.pc = "done"
      /\ Top.plan \in FinalizeKind
  BY <1>1, <1>2, AnsweringFacts DEF Top, Mine
<1>8. Top.root => scope[Top.scope].status = rootStatus
  BY <1>2, <1>7 DEF Managed, Usual, OutcomeInv, RootAgrees
<1>9. MarkedOnly' <=> MarkedOnly
  BY <1>6 DEF MarkedOnly, Cancelled
<1>10. Beginnings' /\ Deciding' /\ RefusedEndsNothing'
  BY <1>1 DEF Beginnings, Down, Deciding, RefusedEndsNothing
<1>11. SuccessTells'
  <2>1. Success' <=> Success
    BY <1>1, <1>3 DEF Success
  <2> SUFFICES ASSUME err' = "nil", passed[at] = "nil", Success, NEW s \in Scopes
               PROVE  scope[s].status \in {"none", "committed"} \/ IsOwn(s)'
    BY <1>1, <1>6, <2>1 DEF SuccessTells, Clean
  <2>2. scope[Top.scope].status = "committed"
    BY <1>1, <1>2, NilCommits DEF Top
  <2>3. Clean
    BY <1>1 DEF Clean
  <2>4. scope[s].status \in {"none", "committed"} \/ IsOwn(s)
    BY <1>2, <2>3 DEF Telling, SuccessTells
  <2> QED BY <1>6, <2>2, <2>4
<1>12. ClientTells'
  BY <1>1, <1>2, <1>3, <1>6 DEF Telling, ClientTells, Client
<1>13. ReasonGiven'
  BY <1>1, <1>2, <1>3, <1>6, <1>9 DEF Telling, ReasonGiven
<1>14. Preventing'
  <2> SUFFICES ASSUME layers # <<>>, Starts(1), err' # "panic",
                      framework = "http" \/ (DefaultPolicy /\ passed[1] = "nil"),
                      at = 1, rootStatus = "committed"
               PROVE  err' = "nil" /\ ~Judged(Writer(1))
    <3>1. Judged(Writer(1))' <=> Judged(Writer(1))
      BY <1>1, <1>3 DEF Judged
    <3>2. at # 0
      BY <1>2
    <3> QED BY <1>1, <1>3, <1>6, <3>1, <3>2 DEF Preventing
  <2>1. Top.root /\ scope[Top.scope].status = "committed"
    BY <1>1, <1>2, <1>8, FirstOnly, OutermostIsRoot
  <2>2. Mine.kind = "commit" /\ Mine.ret = {}
    BY <1>1, <1>7, <2>1 DEF Finalizing, Answering, Mine, Top
  <2>3. Top.plan = "commit"
    BY <1>1, <1>7, <2>2 DEF Finalizing, Answering, Mine, Top
  <2>4. err = "nil" /\ ~Judged(Writer(1))
    BY <1>1, <1>2, <2>3 DEF Telling, Preventing
  <2>5. Top.cause = {}
    BY <1>1, <1>2, <2>3, <2>4 DEF Telling, Deciding, FnOutcome
  <2>6. AnswerOf(Request) = {}
    BY <2>2, <2>3, <2>5 DEF AnswerOf, Answered, Mine, Top
  <2>7. err' = "nil"
    BY <1>1, <2>4, <2>6 DEF RunAnswer
  <2> QED BY <2>4, <2>7
<1>15. Preserving'
  <2> SUFFICES ASSUME framework = "http", statusErr # "none", err' # "panic",
                      rootStatus = "rolledBack"
               PROVE  err' = "status"
    BY <1>1, <1>3, <1>6 DEF Preserving
  <2>1. Len(Own) = 1
    <3>1. ~(Len(Own) > 1)
      BY <1>1, <1>2, RootOutlives
    <3>2. Len(Own) \in Nat \ {0}
      BY <1>1, <1>2, LastFacts DEF Managed, ManagerInv, ManagerTypeOK, Own
    <3>3. \A n \in Nat \ {0} : n > 1 \/ n = 1
      OBVIOUS
    <3> QED BY <3>1, <3>2, <3>3
  <2>2. Top.root /\ scope[Top.scope].status = "rolledBack"
    BY <1>1, <1>2, <1>8, <2>1, OutermostIsRoot
  <2>3. Top.plan = "rollback"
    BY <1>1, <1>2, <2>2 DEF Telling, Preserving
  <2>4. err = "nil"
    BY <1>1, <1>2 DEF Control, Returning
  <2>5. Top.outcome = {} /\ Top.cause = {"RollbackCause"}
    BY <1>1, <1>2, <2>2, <2>3, <2>4 DEF Telling, Deciding, FnOutcome
  <2>6. ~Refused(Mine)
    BY <1>1, <1>2, <1>7, <2>2 DEF Telling, RefusedEndsNothing, Answering
  <2>7. AnswerOf(Request) = {"RollbackCause"} \cup Mine.ret
    BY <1>1, <2>5, <2>6 DEF AnswerOf, Answered, Mine, Top
  <2>8. "Panic" \notin AnswerOf(Request)
    BY <1>1, <2>7
  <2> QED BY <1>1, <2>4, <2>7, <2>8 DEF RunAnswer
<1>16. Panicking'
  BY <1>1, <1>2, <1>6 DEF Telling, Panicking, Mine, Idle
<1>17. ClientWaits'
  BY <1>1, <1>2, <1>3 DEF Telling, ClientWaits, Client, Blank
<1> QED BY <1>6, <1>10, <1>11, <1>12, <1>13, <1>14, <1>15, <1>16, <1>17 DEF Telling


-----------------------------------------------------------------------------
(* The theorems.                                                           *)

LEMMA InitServed == ASSUME MiddlewareInit PROVE Served
<1>1. /\ ManagerInit /\ framework \in {"http", "fiber"} /\ globalAuto \in BOOLEAN
      /\ layers \in Chains /\ layers \in Seq(LayerConfig) /\ Len(layers) \in Nat
      /\ at = 0 /\ pc = "enter" /\ err = "nil" /\ statusErr = "none"
      /\ passed = Untold /\ response = Unwritten
  BY ChainAssumption DEF MiddlewareInit, Untold, Unwritten
<1>2. /\ rootStatus = "none" /\ rollbackOnly = FALSE
      /\ \A s \in Scopes : scope[s].status = "none"
      /\ Own = <<>> /\ Mine = Idle /\ manual = {}
      /\ \A h \in Goroutines \ {Request} : frames[h] = <<>> /\ op[h] = Idle
  BY <1>1, RequestAssumption DEF ManagerInit, Init, Unused, Own, Mine
<1>3. Blank \in Response /\ Client = Blank /\ response[Writer(at)] = Blank
  <2>1. 0 \in 0 .. Len(layers) /\ Blank \in Response
    BY <1>1 DEF Blank, Response, Status
  <2> QED BY <1>1, <2>1, WriterClient DEF Unwritten, Client
<1>4. Typed
  BY <1>1, <1>3 DEF Typed, Untold, Unwritten, Answers
<1>5. WritersNest
  BY <1>1, WriterClient DEF WritersNest
<1>6. Staged
  <2>1. Opened = {}
    BY <1>1 DEF Opened
  <2> QED BY <1>1, <1>2, <2>1, FS_EmptySet DEF Staged, Idle
<1>7. Single /\ Returning
  BY <1>1, <1>2 DEF Single, Returning, Idle, Untold
<1>8. Beginnings /\ Deciding /\ RefusedEndsNothing
  BY <1>1, <1>2 DEF Beginnings, Deciding, RefusedEndsNothing
<1>9. SuccessTells /\ ClientTells /\ ReasonGiven
  BY <1>1, <1>2, <1>3 DEF SuccessTells, Success, ClientTells, ReasonGiven, Blank
<1>10. Preventing /\ Preserving
  BY <1>1, <1>2 DEF Preventing, Preserving
<1>11. Panicking /\ ClientWaits
  BY <1>1, <1>2, <1>3 DEF Panicking, ClientWaits, Idle, Blank
<1>12. Managed /\ MarkNeedsRoot
  BY <1>1, <1>2, InitManaged DEF MarkNeedsRoot
<1> QED BY <1>4, <1>5, <1>6, <1>7, <1>8, <1>9, <1>10, <1>11, <1>12
        DEF Served, Control, Telling

\* Every step of the chain is one that managed executions may take.
LEMMA MiddlewareNextAllowed == [MiddlewareNext]_allVars => [ManagerNext]_managerVars
<1> SUFFICES ASSUME MiddlewareNext PROVE [ManagerNext]_managerVars
  BY DEF allVars
<1>0. Request \in Goroutines
  BY RequestAssumption
<1>1. CASE (Environment \/ Step(Request)) /\ UNCHANGED <<frames, manual, requestVars>>
  BY <1>0, <1>1 DEF ManagerNext
<1>2. CASE EnterLayer
  BY <1>0, <1>2 DEF EnterLayer, ManagerNext, Execute
<1>3. CASE BeginLayer \/ BeganLayer \/ DecideLayer \/ FinalizeLayer \/ RunReturns
  BY <1>0, <1>3
     DEF BeginLayer, BeganLayer, DecideLayer, FinalizeLayer, RunReturns, ManagerNext, Execute
<1>4. CASE HttpFnReturns \/ FiberFnReturns
  BY <1>4 DEF HttpFnReturns, FiberFnReturns, MarkRollbackOnly, ManagerNext, Environment
<1>5. CASE RefuseLayer \/ HandlerWrites \/ HandlerReturns \/ Unwind
           \/ HttpLayerEnds \/ FiberLayerEnds \/ Reply
  BY <1>5
     DEF RefuseLayer, HandlerWrites, HandlerReturns, Unwind, HttpLayerEnds, FiberLayerEnds, Reply
<1> QED BY <1>1, <1>2, <1>3, <1>4, <1>5 DEF MiddlewareNext, Serve

LEMMA NextServed == Served /\ [MiddlewareNext]_allVars => Served'
<1> SUFFICES ASSUME Served, [MiddlewareNext]_allVars PROVE Served'
  OBVIOUS
<1>1. [ManagerNext]_managerVars
  BY MiddlewareNextAllowed
<1>2. Managed'
  BY <1>1, NextManaged DEF Served
<1>3. MarkNeedsRoot'
  <2>1. [Next]_vars /\ IInv /\ MarkNeedsRoot
    BY <1>1, ManagerNextAllowed DEF Served, Managed, Usual
  <2> QED BY <2>1, NextKeeps DEF Kept
<1>4. Control' /\ Telling'
  <2>1. CASE (Environment \/ Step(Request)) /\ UNCHANGED <<frames, manual, requestVars>>
    BY <2>1, MoveControls, EnvironmentTells, StepTells DEF Served
  <2>2. CASE UNCHANGED allVars
    <3>1. UNCHANGED vars /\ UNCHANGED <<frames, manual, requestVars>>
      BY <2>2 DEF allVars, managerVars
    <3> QED BY <3>1, MoveControls, EnvironmentTells DEF Served
  <2>3. CASE EnterLayer
    BY <2>3, AskEnterKeeps, PassKeeps DEF EnterLayer
  <2>4. CASE BeginLayer \/ BeganLayer
    BY <2>4, BeginLayerKeeps, BeganLayerKeeps, BeginFailsKeeps
  <2>5. CASE DecideLayer \/ FinalizeLayer \/ RunReturns
    BY <2>5, DecideLayerKeeps, FinalizeLayerKeeps, RunKeeps
  <2>6. CASE HandlerWrites \/ HandlerReturns \/ RefuseLayer
    BY <2>6, WriteKeeps, ReturnKeeps, RefuseKeeps
  <2>7. CASE HttpFnReturns \/ FiberFnReturns \/ Unwind
    BY <2>7, FnKeeps, UnwindKeeps
  <2>8. CASE HttpLayerEnds \/ FiberLayerEnds \/ Reply
    BY <2>8, HttpKeeps, FiberKeeps, ReplyKeeps
  <2> QED BY <2>1, <2>2, <2>3, <2>4, <2>5, <2>6, <2>7, <2>8 DEF MiddlewareNext, Serve
<1> QED BY <1>2, <1>3, <1>4 DEF Served

LEMMA ServedInvariance == MiddlewareSpec => []Served
<1> QED BY InitServed, NextServed, PTL DEF MiddlewareSpec

\* The layers of a request run executions of manager.go and nothing else:
\* whatever holds of them, and of UnitOfWork under them, holds here.
THEOREM RequestsAreManaged == MiddlewareSpec => ManagerSpec
<1>1. MiddlewareInit => ManagerInit
  BY DEF MiddlewareInit
<1> QED BY <1>1, MiddlewareNextAllowed, PTL DEF MiddlewareSpec, ManagerSpec

\* Type correctness of the chain, its responses and the executions under it.
THEOREM MiddlewareTypes == MiddlewareSpec => []MiddlewareTypeOK
<1>1. Served => MiddlewareTypeOK
  BY DEF Served, Managed, ManagerInv, Control, Typed, MiddlewareTypeOK
<1> QED BY <1>1, ServedInvariance, PTL

\* A client that gets the handler's own success has been told the truth: what
\* the layers began has committed.  Over HTTP the handler's body is delivered
\* in no other case.
THEOREM RepliesAreTrue == MiddlewareSpec => []ReplyTellsCommit
<1>1. ASSUME Served, Done, Client.body = "handler",
             framework = "http" \/ (Client.status = "ok" /\ ~RollsBackSuccess),
             NEW s \in Scopes
      PROVE  scope[s].status \in {"none", "committed"}
  <2>1. /\ Control /\ Telling /\ pc = "done" /\ at = 0
        /\ framework \in {"http", "fiber"}
    BY <1>1 DEF Done, Served, Control, Staged, Typed
  <2>2. CASE framework = "http"
    BY <1>1, <2>1, <2>2 DEF Telling, ClientTells
  <2>3. CASE framework = "fiber"
    <3>1. err = "nil"
      BY <1>1, <2>1 DEF Control, Returning, Done
    <3>2. Clean /\ Success
      BY <1>1, <2>1, <2>3, <3>1, WriterClient DEF Clean, Success, Client
    <3>3. Opened = {}
      BY <2>1 DEF Opened
    <3>4. Own = <<>>
      BY <2>1, <3>3, FS_EmptySet DEF Control, Staged
    <3> QED BY <2>1, <3>2, <3>4 DEF Telling, SuccessTells, IsOwn
  <2> QED BY <2>1, <2>2, <2>3
<1>2. Served => ReplyTellsCommit
  BY <1>1 DEF ReplyTellsCommit
<1> QED BY <1>2, ServedInvariance, PTL

\* A status that RollbackOnStatus of the outermost layer names never reaches
\* the client with a commit behind it.
THEOREM StatusMeansRollback == MiddlewareSpec => []StatusPreventsCommit
<1>1. Served => StatusPreventsCommit
  BY DEF Served, Control, Staged, Telling, Preventing, Judged, StatusPreventsCommit, Done, Client
<1> QED BY <1>1, ServedInvariance, PTL

\* A rollback that a status asked for and that went well is answered as that
\* status, whichever layer asked.
THEOREM StatusReachesClient == MiddlewareSpec => []StatusPreserved
<1>1. Served => StatusPreserved
  BY WriterClient
     DEF Served, Control, Staged, Telling, Preserving, StatusPreserved, Done, Client
<1> QED BY <1>1, ServedInvariance, PTL

\* A handler's panic commits nothing at any depth, and a buffered response is
\* not sent.
THEOREM PanicsKeepNothing == MiddlewareSpec => []PanicKeepsNothing
<1>1. Served => PanicKeepsNothing
  BY DEF Served, Telling, Panicking, ClientWaits, PanicKeepsNothing
<1> QED BY <1>1, ServedInvariance, PTL

\* Over HTTP nothing of the handler's is on its way to the client while its
\* transaction is open.
THEOREM OpenMeansBuffered == MiddlewareSpec => []BufferedUntilEnd
<1>1. ASSUME Served, framework = "http", Client.body = "handler", rootStatus = "active"
      PROVE  FALSE
  <2>1. \A s \in Scopes : scope[s].status \in {"none", "committed"}
    BY <1>1 DEF Served, Telling, ClientTells
  <2>2. stack # <<>> /\ stack \in Seq(Scopes)
    BY <1>1 DEF Served, Managed, Usual, IInv, ScopesNest, TypeOK
  <2>3. 1 \in DOMAIN stack /\ stack[1] \in Scopes
    BY <2>2, LastFacts
  <2>4. scope[stack[1]].status = "active"
    BY <1>1, <2>3 DEF Served, Managed, Usual, IInv, ScopesNest
  <2> QED BY <2>1, <2>3, <2>4
<1>2. Served => BufferedUntilEnd
  BY <1>1 DEF BufferedUntilEnd
<1> QED BY <1>2, ServedInvariance, PTL
=============================================================================
