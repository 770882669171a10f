------------------------ MODULE TransactionProcessor ------------------------
(***************************************************************************)
(* sawtooth_sdk/processor: core.py and context.py.                         *)
(*                                                                         *)
(* The main thread of a transaction processor is the one client of its     *)
(* Stream.  It registers its handlers with the validator, then receives    *)
(* and applies one request at a time, registers again after each           *)
(* reconnection, and on an interrupt unregisters and works off what is     *)
(* left.  Its steps interleave with those of Stream's background thread.   *)
(***************************************************************************)
EXTENDS Stream

CONSTANTS
    Main,           \* the main thread
    Registrations,  \* TpRegisterRequests: family versions of all the handlers
    MaxRequests,    \* bound: state requests of handlers
    MaxInterrupts   \* bound: KeyboardInterrupts

ASSUME MainAssumption ==
    Clients = {Main} /\ Receivers = {Main} /\ Interruptible = {Main}
ASSUME TPKindsAssumption == Kinds \subseteq {"process", "ping", "other"}
ASSUME TPBoundsAssumption ==
    {Registrations, MaxRequests, MaxInterrupts} \subseteq Nat

VARIABLES
    tp,          \* where the main thread is (Points)
    draining,    \* in the first except clause of start
    toSend,      \* register requests still to be sent
    waitFor,     \* futures still to be awaited, first in first out
    registered,  \* the connection the last finished _register was called for
    applied,     \* how often handler.apply was called for each request
    requests,    \* state requests of handlers so far
    interrupts   \* KeyboardInterrupts so far

records == <<registered, applied, requests, interrupts>>
tpVars  == <<tp, draining, toSend, waitFor, records>>
allVars == <<vars, tpVars>>

-----------------------------------------------------------------------------
\* How start ends.
Ended ==
    {"done",         \* it returns
     "stopped",      \* it returns after a RuntimeError, with the stream closed
     "connection",   \* it raises ValidatorConnectionError
     "timeout",      \* it raises FutureTimeoutError
     "interrupted",  \* it raises KeyboardInterrupt
     "crashed"}      \* it raises DecodeError, or another of a handler's

\* _process is busy with a TP_PROCESS_REQUEST.
ProcessPoints ==
    {"process",        \* before the look at is_ready
     "apply",          \* in handler.apply
     "handler sends",
     "handler await",  \* Context: Future.result of a state request
     "respond",        \* about to send the TpProcessResponse
     "responds"}

RegisterPoints ==
    {"register",       \* wait_for_ready
     "register send",  \* past it
     "register sends",  \* in Stream.send
     "register await"} \* Future.result of the register requests

UnregisterPoints ==
    {"unregister",        \* wait_for_ready
     "unregister send",   \* past it
     "unregister sends",
     "unregister await",  \* Future.result(1)
     "drain"}             \* the loop after _unregister, before it looks at fut

Points ==
    {"loop",   \* about to call receive
     "wait",   \* Future.result of the receive
     "ping",   \* about to answer a PING_REQUEST
     "pongs",  \* Stream.send_back is under way
     "stop"}   \* in the clause for RuntimeError
        \union ProcessPoints \union RegisterPoints \union UnregisterPoints
        \union Ended

-----------------------------------------------------------------------------
TPInit ==
    /\ Init
    /\ tp = "register"
    /\ draining = FALSE
    /\ toSend = Registrations
    /\ waitFor = <<>>
    /\ registered = 0
    /\ applied = [n \in 1 .. MaxInbound |-> 0]
    /\ requests = 0
    /\ interrupts = 0

Moves(a, b) == tp = a /\ tp' = b

\* The main thread goes on, and nothing else changes.
Step(a, b) ==
    Moves(a, b) /\ UNCHANGED <<vars, draining, toSend, waitFor, records>>

\* It goes on without the futures it would still have awaited.
StepAway(a, b) ==
    Moves(a, b) /\ waitFor' = <<>>
        /\ UNCHANGED <<vars, draining, toSend, records>>

\* Correlation ids are random and unused: any one will do.
Fresh == CHOOSE i \in Futures : owner[i] = NoOne

\* Stream.send, up to the creation of the future, which is then awaited
Sends(a, b) ==
    /\ Moves(a, b)
    /\ \E i \in Futures : owner[i] = NoOne
    /\ SendBegin(Main, Fresh)
    /\ waitFor' = Append(waitFor, Fresh)
    /\ UNCHANGED draining

SendsBack(a, b) ==
    /\ Moves(a, b)
    /\ SendBackBegin(Main)
    /\ UNCHANGED <<draining, toSend, waitFor, records>>

\* Stream.send or send_back raises ValidatorConnectionError.
Refused == epoch > 0 /\ ~readyEvent

Awaits(value) == waitFor # <<>> /\ result[Head(waitFor)] \in value

-----------------------------------------------------------------------------
(* _register                                                               *)

RegisterReady ==
    /\ epoch > 0
    /\ readyEvent
    /\ toSend > 0
    /\ Step("register", "register send")

RegisterSend ==
    /\ Sends("register send", "register sends")
    /\ toSend' = toSend - 1
    /\ UNCHANGED records

\* start has no clause for a ValidatorConnectionError.
RegisterRefused == Refused /\ Step("register send", "connection")

RegisterAllSent ==
    /\ epoch > 0
    /\ toSend = 0
    /\ Step("register", "register await")

\* The answer says OK.  Or the request failed with the connection, which is
\* logged and passed over.
RegisterAnswered ==
    /\ tp = "register await"
    /\ Awaits({"answer", "error"})
    /\ waitFor' = Tail(waitFor)
    /\ UNCHANGED <<vars, tp, draining, toSend, records>>

\* The answer says ERROR: RuntimeError.
RegisterRejected == Awaits({"answer"}) /\ StepAway("register await", "stop")

\* The answer names another protocol version: ValidatorVersionError, which
\* start treats as an interrupt.
RegisterUnsupported ==
    /\ Moves("register await", "unregister")
    /\ Awaits({"answer"})
    /\ waitFor' = <<>>
    /\ draining' = TRUE
    /\ UNCHANGED <<vars, toSend, records>>

\* Registration began in start, or with a RECONNECT_EVENT.
RegisterReturns ==
    /\ Moves("register await", "loop")
    /\ waitFor = <<>>
    /\ registered' = IF item[Main].kind = "reconnect" THEN item[Main].epoch
                     ELSE 1
    /\ UNCHANGED <<vars, draining, toSend, waitFor, applied, requests,
                   interrupts>>

\* stop
StopStream ==
    /\ Moves("stop", "stopped")
    /\ Close(Main)
    /\ UNCHANGED <<draining, toSend, waitFor, records>>

-----------------------------------------------------------------------------
(* The loops of start, and _process_future.                                *)

CallReceive ==
    /\ Moves("loop", "wait")
    /\ Receive(Main)
    /\ UNCHANGED <<draining, toSend, waitFor, records>>

Cancelled == receive[Main] = "cancelled" /\ Step("wait", "loop")

Received(kind) == receive[Main] = "done" /\ item[Main].kind = kind

RegisterAgain ==
    /\ Moves("wait", "register")
    /\ toSend' = Registrations
    /\ UNCHANGED <<vars, draining, waitFor, records>>

\* Mutant of ReconnectReceived: the event is ignored.
ReconnectIgnored == Received("reconnect") /\ Step("wait", "loop")

\* Mutant of ReconnectReceived: sigint is not looked at.
ReconnectAlways == Received("reconnect") /\ RegisterAgain

\* RECONNECT_EVENT: register again, but not after an interrupt.
ReconnectReceived ==
    /\ Received("reconnect")
    /\ \/ ~draining /\ RegisterAgain
       \/ draining /\ Step("wait", "loop")

MessageReceived ==
    \/ Received("process") /\ Step("wait", "process")
    \/ Received("ping") /\ Step("wait", "ping")
    \/ Received("other") /\ Step("wait", "loop")

\* Mutant of DrainTimesOut: the wait of the loop after an interrupt has no
\* timeout either.
DrainWaits == FALSE

\* After an interrupt the wait for a message has a timeout: start returns.
DrainTimesOut ==
    /\ draining
    /\ receive[Main] \notin {"done", "cancelled"}
    /\ Step("wait", "done")

SendPong == SendsBack("ping", "pongs")

PongRefused == Refused /\ Step("ping", "connection")

-----------------------------------------------------------------------------
(* _process, with the handler's apply and the requests of its Context.     *)

\* The connection is down, or no handler matches: no response.
NotApplied == Step("process", "loop")

Apply ==
    /\ Moves("process", "apply")
    /\ readyEvent
    /\ applied' = [applied EXCEPT ![item[Main].id] = @ + 1]
    /\ UNCHANGED <<vars, draining, toSend, waitFor, registered, requests,
                   interrupts>>

\* Context: get, set or delete state, add receipt data or an event
StateRequest ==
    /\ Sends("apply", "handler sends")
    /\ requests < MaxRequests
    /\ requests' = requests + 1
    /\ UNCHANGED <<toSend, registered, applied, interrupts>>

\* ValidatorConnectionError, from the send or from the future's content,
\* passes through the handler: no response.
HandlerDisconnected ==
    \/ Refused /\ StepAway("apply", "loop")
    \/ Awaits({"error"}) /\ StepAway("handler await", "loop")

\* The answer's status may make Context raise AuthorizationException or
\* InternalError, which the handler lets through.
StateAnswered ==
    /\ Awaits({"answer"})
    /\ \E p \in {"apply", "respond"} : StepAway("handler await", p)

\* For a handler that gave a timeout.  Only the clause after an interrupt
\* catches the FutureTimeoutError.
StateTimesOut ==
    /\ Main \notin Patient
    /\ StepAway("handler await", IF draining THEN "done" ELSE "timeout")

\* apply returns, or raises InvalidTransaction, InternalError or
\* AuthorizationException.
ApplyEnds == Step("apply", "respond")

\* apply raises anything else.  A RuntimeError closes the stream, unless it
\* is raised after an interrupt.
HandlerCrashes ==
    \/ Step("apply", "crashed")
    \/ ~draining /\ Step("apply", "stop")

\* Mutant of Respond: the request is worked on again.
RespondRepeats == Step("respond", "process")

Respond == SendsBack("respond", "responds")

\* Each clause of _process logs the ValidatorConnectionError.
ResponseRefused == Refused /\ Step("respond", "loop")

-----------------------------------------------------------------------------
(* _unregister, and the first except clause of start.                      *)

\* A KeyboardInterrupt reaches the main thread, inside a call or between two.
Interrupt ==
    /\ tp \notin Ended
    /\ epoch > 0
    /\ interrupts < MaxInterrupts
    /\ interrupts' = interrupts + 1
    /\ draining' = TRUE
    /\ tp' = IF draining \/ tp = "stop" THEN "interrupted" ELSE "unregister"
    /\ waitFor' = <<>>
    /\ \/ Interrupted(Main)
       \/ pc[Main] = "idle" /\ UNCHANGED vars
    /\ UNCHANGED <<toSend, registered, applied, requests>>

UnregisterReady == readyEvent /\ Step("unregister", "unregister send")

UnregisterSend ==
    Sends("unregister send", "unregister sends") /\ UNCHANGED <<toSend, records>>

UnregisterRefused == Refused /\ Step("unregister send", "connection")

UnregisterAnswered ==
    Awaits({"answer", "error"}) /\ StepAway("unregister await", "drain")

\* start returns without the loop.
UnregisterTimesOut == StepAway("unregister await", "done")

\* The loop begins with the future of the last receive, even when what it was
\* resolved with has been processed.  Without one it spins.
DrainBegins == receive[Main] # "none" /\ Step("drain", "wait")

-----------------------------------------------------------------------------
\* A request, or the answer to a registration or to its end, does not decode:
\* nothing catches the DecodeError.
NotDecoded ==
    \/ Step("process", "crashed")
    \/ /\ Awaits({"answer"})
       /\ \/ StepAway("register await", "crashed")
          \/ StepAway("unregister await", "crashed")

InSendCall ==
    /\ \/ PutFuture(Main)
       \/ PutReturns(Main)
       \/ PutPasses(Main)
       \/ Schedule(Main)
    /\ UNCHANGED tpVars

\* The call of Stream.send or send_back returns.
SendReturns ==
    /\ pc[Main] = "idle"
    /\ \/ Step("register sends", "register")
       \/ Step("unregister sends", "unregister await")
       \/ Step("handler sends", "handler await")
       \/ Step("responds", "loop")
       \/ Step("pongs", "loop")

Register ==
    \/ RegisterReady \/ RegisterSend \/ RegisterRefused \/ RegisterAllSent
    \/ RegisterAnswered \/ RegisterRejected \/ RegisterUnsupported
    \/ RegisterReturns \/ StopStream

Dispatch ==
    \/ CallReceive \/ Cancelled \/ ReconnectReceived \/ MessageReceived
    \/ DrainTimesOut \/ SendPong \/ PongRefused

Process ==
    \/ NotApplied \/ Apply \/ StateRequest \/ HandlerDisconnected
    \/ StateAnswered \/ StateTimesOut \/ ApplyEnds \/ HandlerCrashes
    \/ Respond \/ ResponseRefused

Unregister ==
    \/ UnregisterReady \/ UnregisterSend \/ UnregisterRefused
    \/ UnregisterAnswered \/ UnregisterTimesOut \/ DrainBegins

Program == Register \/ Dispatch \/ Process \/ Unregister \/ NotDecoded
               \/ InSendCall \/ SendReturns

TPNext ==
    \/ LoopNext /\ UNCHANGED tpVars
    \/ Program
    \/ Interrupt

TPSpec == TPInit /\ [][TPNext]_allVars

\* The background thread runs as in Stream, and the main thread goes on
\* wherever it is not blocked; waits with a timeout end.
TPFairSpec == TPSpec /\ LoopFairness /\ WF_allVars(Program)

-----------------------------------------------------------------------------
(* Safety.                                                                 *)

TPTypeOK ==
    /\ tp \in Points
    /\ draining \in BOOLEAN
    /\ toSend \in 0 .. Registrations
    /\ waitFor \in Seq(Futures)
    /\ registered \in Nat
    /\ applied \in [1 .. MaxInbound -> Nat]
    /\ requests \in Nat
    /\ interrupts \in Nat

\* A request is only worked on when the handlers were registered with the
\* connection it came from, however many connections were lost on the way
\* (core.py:235-239, 305).
RegisteredFirst ==
    tp \in ProcessPoints /\ ~draining => registered = item[Main].epoch

\* start is in its first loop, or before it.
Working ==
    /\ ~draining
    /\ tp \in RegisterPoints \union ProcessPoints
                  \union {"loop", "wait", "ping", "pongs"}

\* The connection that is being registered with, or will be next.
Announced == IF item[Main].kind = "reconnect" THEN item[Main].epoch ELSE 1

Registering ==
    \/ tp \in RegisterPoints
    \/ tp = "wait" /\ Received("reconnect")

\* No connection goes unregistered, however many follow each other while a
\* registration or a request is under way: the handlers were registered with
\* the present one, or are being, or its event is the next item of the queue
\* (core.py:235-239, stream.py:228-229).
NoneMissed ==
    Working /\ queuesUp =>
        \/ Registering /\ Announced = epoch
        \/ ~Registering /\ registered = epoch
        \/ recvQueue # <<>> /\ Head(recvQueue).kind = "reconnect"

\* After an interrupt nothing is registered any more, not even when the
\* connection is made anew (core.py:236, 314).
NothingRegisteredAfterInterrupt == draining => tp \notin RegisterPoints

\* A request is applied once.  The one exception is the last request received
\* before an interrupt, which is processed once more (core.py:310, 322).
AppliedOnce ==
    \A n \in 1 .. MaxInbound :
        /\ applied[n] <= 2
        /\ applied[n] = 2 => draining /\ \A m \in 1 .. MaxInbound :
                                             applied[m] = 2 => m = n

-----------------------------------------------------------------------------
(* The inductive invariant behind them, with IInv of Stream.               *)

\* What the queue holds came over this connection, its event first.
EventInv ==
    \A n \in DOMAIN recvQueue :
        /\ recvQueue[n].epoch = epoch
        /\ recvQueue[n].kind = "reconnect" => n = 1

\* Past wait_for_ready there is a request to send.
ToSendInv == tp = "register send" => toSend > 0

\* Only an interrupt, or a validator of another version, leads to _unregister.
DrainInv == tp \in UnregisterPoints => draining

\* The loop is asked for one message at a time.
GetInv ==
    /\ AtMostOnce(calls, {GetCall(Main)})
    /\ Occurs(calls, GetCall(Main)) => receive[Main] = "called"

\* What each point says of the last receive and its item.
ReceiveInv ==
    Working =>
        /\ epoch = 0 => tp = "register" /\ item[Main] = NoItem
        /\ tp \in RegisterPoints =>
               /\ receive[Main] \in {"none", "done"}
               /\ item[Main].kind \in {"none", "reconnect"}
        /\ tp = "loop" => receive[Main] \in {"none", "done", "cancelled"}
        /\ tp \in ProcessPoints \union {"ping", "pongs"} =>
               receive[Main] = "done"
        /\ tp = "wait" /\ receive[Main] = "done" =>
               item[Main].kind = "reconnect" \/ item[Main].epoch = registered
        /\ tp \in ProcessPoints => item[Main].epoch = registered

TPInv ==
    /\ TPTypeOK
    /\ ToSendInv
    /\ DrainInv
    /\ NothingRegisteredAfterInterrupt
    /\ EventInv
    /\ NoneMissed
    /\ GetInv
    /\ ReceiveInv

\* No request was applied twice so far.
NoneTwice == \A n \in 1 .. MaxInbound : applied[n] <= 1

\* What waits in the queue was never applied, and comes once.
FreshInv ==
    /\ inbound <= MaxInbound
    /\ \A n \in 1 .. MaxInbound : applied[n] # 0 => n <= inbound
    /\ \A n \in DOMAIN recvQueue : recvQueue[n].kind = "process" =>
           /\ recvQueue[n].id \in 1 .. inbound
           /\ applied[recvQueue[n].id] = 0
           /\ item[Main].kind = "process" => item[Main].id # recvQueue[n].id
           /\ \A k \in DOMAIN recvQueue :
                  recvQueue[k].kind = "process" /\ k # n =>
                      recvQueue[k].id # recvQueue[n].id

\* Nor was the request that is received, but for one an interrupt came upon,
\* and that is the first to be applied twice.
ItemInv ==
    /\ tp = "process" => item[Main].kind = "process"
    /\ item[Main].kind = "process" =>
           /\ receive[Main] = "done"
           /\ item[Main].id \in 1 .. inbound
           /\ tp \in {"wait", "process"} =>
                  \/ applied[item[Main].id] = 0
                  \/ draining /\ NoneTwice

\* The inductive invariant behind AppliedOnce.
AppliedInv ==
    /\ FreshInv
    /\ ItemInv
    /\ ~draining \/ tp \in UnregisterPoints => NoneTwice
    /\ AppliedOnce

-----------------------------------------------------------------------------
(* Liveness.                                                               *)

\* put_message dropped a request without an error: nothing will resolve it.
Stranded(i) ==
    /\ owner[i] # NoOne
    /\ result[i] = "none"
    /\ ~OnItsWay(i)
    /\ ~InSend(i)

\* Where the main thread is blocked for ever: the connection is gone for good,
\* or it awaits, without a timeout, a request that was dropped.
Lost ==
    \/ loop \in {"wedged", "failed"}
    \/ waitFor # <<>> /\ Stranded(Head(waitFor))

\* Each connection is registered with in the end (core.py:235-239).
Reregisters ==
    \A e \in 1 .. MaxEpoch :
        (epoch = e /\ loop = "running")
            ~> (registered = e \/ epoch > e \/ draining \/ tp \in Ended \/ Lost)

\* Once start has called receive, an interrupt ends it (core.py:312-327).
DrainEnds == (draining /\ receive[Main] # "none") ~> (tp \in Ended \/ Lost)

=============================================================================
