----------------------------- MODULE Middleware -----------------------------
(***************************************************************************)
(* One request that passes through a chain of middleware layers to its     *)
(* handler and back: framework/http over net/http, or framework/fiber over *)
(* Fiber.  Each layer runs what is below it as a callback of Manager.Run,  *)
(* so that the first transactional layer begins the root and the others    *)
(* nest.  The executions are those of Manager; what is added is where the  *)
(* response is while they run, and what becomes of errors and panics on    *)
(* the way up.                                                             *)
(*                                                                         *)
(* Writer 0 is the client's; writer k is the buffer of layer k.  In Fiber  *)
(* all layers share writer 0, which is sent when the chain has returned.   *)
(***************************************************************************)
EXTENDS Manager

CONSTANTS
  Request,   \* the goroutine that serves the request
  Chains     \* the chains of layers that an application is built of

Status == {"ok", "refused", "failed"}   \* 2xx, 4xx and 500
Transactional == {"on", "off", "inherit"}

\* What a RollbackOnStatus may match.
RollbackOn5xx == {"failed"}
RollbackOn4xx5xx == {"refused", "failed"}

\* tolerant: RollbackOnError is given and does not want to roll back.
LayerConfig ==
  [mode : Transactional, rollbackOn : SUBSET Status, tolerant : BOOLEAN]

ASSUME RequestAssumption == Request \in Goroutines
ASSUME ChainAssumption == Chains \subseteq Seq(LayerConfig)

\* What next returns or Run answers: an error with a status code of its own
\* (fiber.Error) is its status, a StatusError is "status".
Answers == {"nil", "refused", "failed", "error", "status", "panic"}

VARIABLES
  framework,    \* "http" or "fiber"
  globalAuto,   \* Config.TransactionMode is GlobalAuto
  layers,       \* the chain, outermost first
  at,           \* how many layers have been entered
  pc,           \* where the innermost of them is
  err,          \* what was returned to it, or what it is about to return
  passed,       \* passthroughErr of each layer
  response,     \* what each writer holds
  statusErr     \* the code of the StatusError that is the rollback reason

chainVars == <<framework, globalAuto, layers>>
requestVars == <<chainVars, at, pc, err, passed, response, statusErr>>
allVars == <<managerVars, requestVars>>

Response == [started : BOOLEAN, status : Status, body : {"none", "handler", "error"}]
Blank == [started |-> FALSE, status |-> "ok", body |-> "none"]
ErrorReply == [started |-> TRUE, status |-> "failed", body |-> "error"]

MiddlewareTypeOK ==
  /\ ManagerTypeOK
  /\ framework \in {"http", "fiber"} /\ globalAuto \in BOOLEAN /\ layers \in Chains
  /\ at \in 0 .. Len(layers)
  /\ pc \in {"enter", "run", "handler", "returned", "decide", "finalize", "ended", "done"}
  /\ err \in Answers /\ statusErr \in Status \cup {"none"}
  /\ passed \in [1 .. Len(layers) -> Answers]
  /\ response \in [0 .. Len(layers) -> Response]

MiddlewareInit ==
  /\ ManagerInit
  /\ framework \in {"http", "fiber"} /\ globalAuto \in BOOLEAN /\ layers \in Chains
  \* What no layer reads has one value.
  /\ globalAuto => \E k \in DOMAIN layers : layers[k].mode = "inherit"
  /\ framework = "http" => \A k \in DOMAIN layers : ~layers[k].tolerant
  /\ at = 0 /\ pc = "enter" /\ err = "nil" /\ statusErr = "none"
  /\ passed = [k \in 1 .. Len(layers) |-> "nil"]
  /\ response = [k \in 0 .. Len(layers) |-> Blank]

\* shouldStartTransaction.
Starts(k) == layers[k].mode = "on" \/ (layers[k].mode = "inherit" /\ globalAuto)

\* serve buffers whatever is not switched off; an unbuffered layer has a
\* recorder that writes through to the writer that it was given.
BadBuffered(k) == framework = "http" /\ layers[k].mode = "on"
Buffered(k) == framework = "http" /\ layers[k].mode # "off"
Writer(k) == Max({0} \cup {j \in 1 .. k : Buffered(j)})
Put(k, reply) == response' = [response EXCEPT ![Writer(k)] = reply]

-----------------------------------------------------------------------------
(* On the way down.                                                        *)

Entering == pc = "enter" /\ at < Len(layers)

EnterLayer ==
  /\ Entering
  /\ at' = at + 1
  /\ \/ Starts(at + 1) /\ Ask(Request) /\ pc' = "run"
     \/ ~Starts(at + 1) /\ pc' = pc /\ UNCHANGED managerVars
  /\ UNCHANGED <<chainVars, err, passed, response, statusErr>>

\* A resolver of the configuration fails, or the binding does: nothing runs.
HttpRefuses == framework = "http" /\ Put(at, ErrorReply) /\ UNCHANGED err
FiberRefuses == framework = "fiber" /\ err' = "error" /\ UNCHANGED response

RefuseLayer ==
  /\ Entering
  /\ pc' = "returned"
  /\ HttpRefuses \/ FiberRefuses
  /\ UNCHANGED <<managerVars, chainVars, at, passed, statusErr>>

BeginLayer ==
  /\ pc = "run" /\ BeginExecution(Request)
  /\ UNCHANGED requestVars

BeganLayer ==
  /\ pc = "run" /\ Began(Request)
  /\ \/ op[Request].ret = {} /\ pc' = "enter" /\ UNCHANGED err
     \/ /\ op[Request].ret # {} /\ pc' = "ended"
        /\ err' = IF "Panic" \in op[Request].ret THEN "panic" ELSE "error"
  /\ UNCHANGED <<chainVars, at, passed, response, statusErr>>

HandlerWrites ==
  /\ pc = "enter" /\ at = Len(layers)
  /\ \E s \in Status : Put(at, [started |-> TRUE, status |-> s, body |-> "handler"])
  /\ pc' = "handler"
  /\ UNCHANGED <<managerVars, chainVars, at, err, passed, statusErr>>

\* Only Fiber's handlers return errors.
HandlerReturns ==
  /\ pc = "handler" \/ (pc = "enter" /\ at = Len(layers))
  /\ err' \in IF framework = "http" THEN {"nil", "panic"} ELSE Answers \ {"status"}
  /\ pc' = "returned"
  /\ UNCHANGED <<managerVars, chainVars, at, passed, response, statusErr>>

-----------------------------------------------------------------------------
(* The callback of a layer returns, and its execution is finalized.        *)

Returned == pc = "returned" /\ at > 0 /\ err # "panic"
AfterFn == IF Starts(at) THEN "decide" ELSE "ended"

Seen == response[Writer(at)].status
Matches == Seen \in layers[at].rollbackOn

\* Marks the transaction that is active, whichever layer has begun it.
BadMarkRollbackOnly == UNCHANGED <<managerVars, statusErr>>
MarkRollbackOnly ==
  \/ /\ SetRollbackOnly("user") /\ UNCHANGED <<frames, manual>>
     /\ statusErr' = IF MarkedReason = "none" THEN Seen ELSE statusErr
  \/ rootStatus # "active" /\ UNCHANGED <<managerVars, statusErr>>

HttpFnReturns ==
  /\ framework = "http" /\ Returned
  /\ \/ Matches /\ MarkRollbackOnly
     \/ ~Matches /\ UNCHANGED <<managerVars, statusErr>>
  /\ pc' = AfterFn
  /\ UNCHANGED <<chainVars, at, err, passed, response>>

\* shouldRollbackError, with the status that the error carries or, without
\* one, the status that the response has so far.
StatusOfError == IF err \in Status THEN err ELSE Seen
RollsBackOnError == ~layers[at].tolerant \/ StatusOfError \in layers[at].rollbackOn

FiberFnReturns ==
  /\ framework = "fiber" /\ Returned
  /\ \/ /\ err # "nil" /\ RollsBackOnError
        /\ UNCHANGED <<managerVars, statusErr, err, passed>>
     \/ /\ err # "nil" /\ ~RollsBackOnError
        /\ err' = "nil" /\ passed' = [passed EXCEPT ![at] = err]
        /\ UNCHANGED <<managerVars, statusErr>>
     \/ err = "nil" /\ Matches /\ MarkRollbackOnly /\ UNCHANGED <<err, passed>>
     \/ err = "nil" /\ ~Matches /\ UNCHANGED <<managerVars, statusErr, err, passed>>
  /\ pc' = AfterFn
  /\ UNCHANGED <<chainVars, at, response>>

\* No layer recovers a panic; an execution does, and panics again.
Unwind ==
  /\ err = "panic" /\ at > 0
  /\ \/ pc = "returned" /\ Starts(at) /\ pc' = "decide" /\ UNCHANGED at
     \/ /\ (pc = "returned" /\ ~Starts(at)) \/ pc = "ended"
        /\ pc' = "returned" /\ at' = at - 1
  /\ UNCHANGED <<managerVars, chainVars, err, passed, response, statusErr>>

BadFnOutcome == IF err \in {"nil", "panic"} THEN {} ELSE {"FnError"}
FnOutcome ==
  CASE err = "nil" -> {} [] err = "panic" -> {"FnPanic"} [] OTHER -> {"FnError"}

DecideLayer ==
  /\ pc = "decide" /\ (DecideRoot(Request) \/ DecideNested(Request))
  /\ Last(frames'[Request]).outcome = FnOutcome
  /\ pc' = "finalize"
  /\ UNCHANGED <<chainVars, at, err, passed, response, statusErr>>

FinalizeLayer ==
  /\ pc = "finalize" /\ FinalizeExecution(Request)
  /\ UNCHANGED requestVars

\* The answer of Run.  The rollback reason stays in what is composed with it.
BadRunAnswer(answer) ==
  IF err = "panic" \/ "Panic" \in answer THEN "panic" ELSE "nil"
RunAnswer(answer) ==
  IF err = "panic" \/ "Panic" \in answer THEN "panic"
  ELSE IF answer = {} THEN "nil"
  ELSE IF "RollbackCause" \in answer /\ statusErr # "none" THEN "status"
  ELSE IF "FnError" \in answer THEN err
  ELSE "error"

RunReturns ==
  /\ pc = "finalize" /\ EndExecution(Request)
  /\ err' = RunAnswer(AnswerOf(Request))
  /\ pc' = "ended"
  /\ UNCHANGED <<chainVars, at, passed, response, statusErr>>

-----------------------------------------------------------------------------
(* On the way up.                                                          *)

Ended == pc = "ended" /\ err # "panic"
Ascend == pc' = "returned" /\ at' = at - 1

Flushed(k) == [response[k] EXCEPT !.started = TRUE]

\* The default error handler: nothing of what the handler wrote is kept.
BadHttpErrorReply == ErrorReply
HttpErrorReply ==
  IF err = "status" THEN [started |-> TRUE, status |-> statusErr, body |-> "none"]
                    ELSE ErrorReply

HttpLayerEnds ==
  /\ framework = "http" /\ Ended
  /\ \/ err # "nil" /\ Put(at - 1, HttpErrorReply)
     \/ err = "nil" /\ Buffered(at) /\ Put(at - 1, Flushed(at))
     \/ err = "nil" /\ ~Buffered(at) /\ UNCHANGED response
  /\ err' = "nil" /\ Ascend
  /\ UNCHANGED <<managerVars, chainVars, passed, statusErr>>

\* The error of Run comes before the one that was passed through.
FiberResult == IF err # "nil" THEN err ELSE passed[at]

\* The default error handler keeps the body and restores the status of a
\* StatusError; every other error goes on to the layer above.
FiberLayerEnds ==
  /\ framework = "fiber" /\ Ended
  /\ \/ /\ FiberResult = "status" /\ err' = "nil"
        /\ response' = [response EXCEPT ![0].status = statusErr]
     \/ FiberResult # "status" /\ err' = FiberResult /\ UNCHANGED response
  /\ Ascend
  /\ UNCHANGED <<managerVars, chainVars, passed, statusErr>>

\* The server ends the exchange: a panic aborts it, an error that leaves the
\* chain is answered by Fiber's own error handler.
Reply ==
  /\ pc = "returned" /\ at = 0
  /\ pc' = "done"
  /\ CASE err = "panic" -> UNCHANGED response
       [] err = "nil" -> response' = [response EXCEPT ![0].started = TRUE]
       [] OTHER -> Put(0, [ErrorReply EXCEPT !.status = IF err \in Status THEN err ELSE @])
  /\ UNCHANGED <<managerVars, chainVars, at, err, passed, statusErr>>

-----------------------------------------------------------------------------

Serve ==
  \/ EnterLayer \/ BeginLayer \/ BeganLayer
  \/ HandlerReturns \/ HttpFnReturns \/ FiberFnReturns \/ Unwind
  \/ DecideLayer \/ FinalizeLayer \/ RunReturns
  \/ HttpLayerEnds \/ FiberLayerEnds \/ Reply

MiddlewareNext ==
  \/ (Environment \/ Step(Request)) /\ UNCHANGED <<frames, manual, requestVars>>
  \/ Serve \/ RefuseLayer \/ HandlerWrites

MiddlewareSpec == MiddlewareInit /\ [][MiddlewareNext]_allVars

\* The handler returns, and so do callbacks and the adapter; opMu is free
\* whenever this request asks for it, since no other goroutine calls.
FairMiddlewareSpec ==
  /\ MiddlewareSpec
  /\ WF_allVars(Serve)
  /\ WF_allVars((Enter(Request) \/ Progress(Request))
                  /\ UNCHANGED <<frames, manual, requestVars>>)

-----------------------------------------------------------------------------
(* Properties.                                                             *)

Client == response[0]
Done == pc = "done" /\ err # "panic"

\* A client that gets the handler's own success has been told the truth: the
\* root and every nested scope that a layer opened have committed.  Over HTTP
\* the handler's body is delivered in no other case, whatever its status; in
\* Fiber a rollback that a RollbackOnStatus asked for on a success keeps it.
RollsBackSuccess == \E k \in DOMAIN layers : "ok" \in layers[k].rollbackOn
ReplyTellsCommit ==
  /\ Done /\ Client.body = "handler"
  /\ framework = "http" \/ (Client.status = "ok" /\ ~RollsBackSuccess)
  => \A s \in Scopes : scope[s].status \in {"none", "committed"}

\* A status that RollbackOnStatus of the outermost, transactional layer names
\* never reaches the client with a commit behind it.  (An error without a code
\* that Fiber's RollbackOnError tolerates becomes a 500 after the commit, and
\* so may one that a finalize policy of the user's commits in spite of.)
StatusPreventsCommit ==
  /\ Done /\ layers # <<>> /\ Starts(1) /\ Client.status \in layers[1].rollbackOn
  /\ framework = "http" \/ (DefaultPolicy /\ passed[1] = "nil")
  => rootStatus # "committed"

\* A rollback that a status asked for and that went well answers that status
\* to the client, also when the layer that asked is not the one that began.
StatusPreserved ==
  Done /\ framework = "http" /\ statusErr # "none" /\ rootStatus = "rolledBack" =>
    Client.status = statusErr

\* A handler's panic keeps nothing, at whatever depth it is recovered to be
\* raised again, and nothing of a buffered response is sent.
PanicKeepsNothing ==
  pc = "done" /\ err = "panic" /\ ~CallbackPanics =>
    /\ rootStatus # "committed"
    /\ layers # <<>> /\ Buffered(1) => ~Client.started

\* Over HTTP nothing that the handler wrote is on its way to the client while
\* its transaction is still open.
BufferedUntilEnd ==
  framework = "http" /\ Client.body = "handler" => rootStatus # "active"

\* Every request is answered.
RequestAnswered == <>(pc = "done")
=============================================================================
