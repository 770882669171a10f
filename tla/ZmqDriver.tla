----------------------------- MODULE ZmqDriver -----------------------------
(***************************************************************************)
(* sawtooth_sdk/consensus: zmq_driver.py and zmq_service.py.               *)
(*                                                                         *)
(* Three threads share one Stream.  The main thread registers the engine   *)
(* with the validator, waits until it is activated, runs Engine.start      *)
(* (which calls the service) and then stops everything.  The driver thread *)
(* acknowledges the validator's notifications and passes them on to the    *)
(* engine's queue of updates.  A third thread, of the program around them, *)
(* may call stop.                                                          *)
(***************************************************************************)
EXTENDS Stream

CONSTANTS
    Main,        \* the thread that calls ZmqDriver.start
    Driver,      \* the thread of _driver_loop
    Stopper,     \* another thread, which may call ZmqDriver.stop
    Answers,     \* what the validator may answer to a registration
    MaxCalls,    \* bound: calls of the service
    MaxEvents,   \* bound: connections, messages of the validator, calls of
                 \* the service and of stop by the third thread, together
    EngineQuits  \* whether Engine.start may return before Engine.stop

ASSUME ThreadsAssumption ==
    /\ Clients = {Main, Driver, Stopper}
    /\ Main # Driver /\ Stopper \notin {Main, Driver}
    /\ Receivers = {Main, Driver} /\ Interruptible = {}
\* A "malformed" message is a notification whose content does not decode.
ASSUME ZDKindsAssumption ==
    Kinds \subseteq {"activated", "deactivated", "notify", "malformed", "ping",
                    "other"}
ASSUME AnswersAssumption ==
    Answers \subseteq {"startup", "ok", "not ready"}
ASSUME ZDBoundsAssumption ==
    {MaxCalls, MaxEvents} \subseteq Nat /\ EngineQuits \in BOOLEAN

VARIABLES
    main,      \* where the main thread is (MainPoints)
    driver,    \* where the driver thread is (DriverPoints)
    stopper,   \* where the third thread is (StopperPoints)
    waitFor,   \* the future the main thread awaits
    exit,      \* _exit
    stops,     \* calls of Engine.stop so far
    message,   \* the message the driver thread processes
    updates,   \* what was put on the engine's queue
    serviced   \* calls of the service so far

mainVars   == <<main, waitFor, serviced>>
driverVars == <<driver, message, updates>>
zdVars     == <<mainVars, driverVars, stopper, exit, stops>>
allVars    == <<vars, zdVars>>

-----------------------------------------------------------------------------
\* How start ends: it returns, or an exception leaves it.
Ended == {"returned", "raised"}

MainPoints ==
    {"register",        \* wait_for_ready
     "register send",
     "register await",  \* in send, or in Future.result of its future
     "activate",        \* about to receive
     "activate wait",   \* Future.result of it
     "activate ack",    \* about to acknowledge the activation
     "activate acks",
     "engine",          \* in Engine.start
     "service",         \* it is in a call of the service
     "close",           \* in stop, past Engine.stop
     "join"} \union Ended

DriverPoints ==
    {"none",     \* not started
     "receive",  \* before the loop
     "check",    \* the look at _exit
     "wait",     \* Future.result(1)
     "process",
     "close",    \* in stop, past Engine.stop
     "ack",      \* about to acknowledge the message
     "put",      \* in send_back, or about to put it on the queue of updates
     "left",     \* out of the loop after _exit
     "dead"}     \* out of the loop after an exception

StopperPoints ==
    {"idle",
     "close",    \* in stop, past Engine.stop
     "done"}     \* bound: it calls stop once

ZDInit ==
    /\ Init
    /\ main = "register"
    /\ driver = "none"
    /\ stopper = "idle"
    /\ waitFor = NoFuture
    /\ exit = FALSE
    /\ stops = 0
    /\ message = NoItem
    /\ updates = <<>>
    /\ serviced = 0

-----------------------------------------------------------------------------
(* Moves of one thread; the others keep their places.                      *)

MainMoves(a, b) ==
    main = a /\ main' = b /\ UNCHANGED <<driverVars, stopper>>

MainStep(a, b) ==
    /\ MainMoves(a, b)
    /\ UNCHANGED <<vars, waitFor, serviced, exit, stops>>

DriverMoves(a, b) ==
    driver = a /\ driver' = b /\ UNCHANGED <<mainVars, stopper>>

DriverStep(a, b) ==
    /\ DriverMoves(a, b)
    /\ UNCHANGED <<vars, message, updates, exit, stops>>

\* The thread is done with its message.
DriverDrops(a, b) ==
    /\ DriverMoves(a, b)
    /\ message' = NoItem
    /\ UNCHANGED <<vars, updates, exit, stops>>

\* Correlation ids are random and unused: any one will do.
Fresh == CHOOSE i \in Futures : owner[i] = NoOne

Sends(a, b) ==
    /\ MainMoves(a, b)
    /\ \E i \in Futures : owner[i] = NoOne
    /\ SendBegin(Main, Fresh)
    /\ waitFor' = Fresh
    /\ UNCHANGED <<exit, stops>>

\* Stream.send or send_back raises ValidatorConnectionError.
Refused == epoch > 0 /\ ~readyEvent

Events ==
    epoch + inbound + serviced + (IF stopper = "idle" THEN 0 ELSE 1)

\* What resolved the receive of a thread.
Received(c, kinds) == receive[c] = "done" /\ item[c].kind \in kinds

-----------------------------------------------------------------------------
(* _register                                                               *)

RegisterReady ==
    epoch > 0 /\ readyEvent /\ MainStep("register", "register send")

RegisterSend ==
    Sends("register send", "register await") /\ UNCHANGED serviced

\* ValidatorConnectionError for a lost connection, ReceiveError for a failed
\* registration, FutureTimeoutError, DecodeError: each leaves start.
RegisterRaises ==
    \/ Refused /\ MainStep("register send", "raised")
    \/ pc[Main] = "idle" /\ MainStep("register await", "raised")

\* start makes the queue of updates and the driver thread.
StartsEngine(a) ==
    /\ main = a
    /\ main' = "engine"
    /\ driver' = "receive"
    /\ UNCHANGED <<vars, waitFor, serviced, message, updates, stopper, exit,
                   stops>>

Registered ==
    /\ main = "register await" /\ pc[Main] = "idle"
    /\ result[waitFor] = "answer"
    /\ \/ /\ "not ready" \in Answers
          /\ MainStep("register await", "register send")
       \/ "ok" \in Answers /\ MainStep("register await", "activate")
       \/ "startup" \in Answers /\ StartsEngine("register await")

-----------------------------------------------------------------------------
(* _wait_until_active.  A result that times out is awaited again.          *)

ActivateReceive ==
    /\ MainMoves("activate", "activate wait")
    /\ Receive(Main)
    /\ UNCHANGED <<waitFor, serviced, exit, stops>>

\* A RECONNECT_EVENT is not a message, the content of an activation may not
\* decode, and a lost connection cancels the receive: each time an exception
\* leaves start.
ActivateRaises ==
    \/ /\ Received(Main, {"reconnect", "activated"})
       /\ MainStep("activate wait", "raised")
    \/ receive[Main] = "cancelled" /\ MainStep("activate wait", "raised")
    \/ Refused /\ MainStep("activate ack", "raised")

Activated ==
    Received(Main, {"activated"}) /\ MainStep("activate wait", "activate ack")

\* Any other message is logged and dropped; its content is not looked at.
ActivateSkips ==
    /\ Received(Main, Kinds \ {"activated"})
    /\ MainStep("activate wait", "activate")

ActivateAck ==
    /\ MainMoves("activate ack", "activate acks")
    /\ SendBackBegin(Main)
    /\ UNCHANGED <<waitFor, serviced, exit, stops>>

ActivateReturns == pc[Main] = "idle" /\ StartsEngine("activate acks")

-----------------------------------------------------------------------------
(* Engine.start, and its calls of the service.                             *)

ServiceSend ==
    /\ Sends("engine", "service")
    /\ serviced < MaxCalls /\ Events < MaxEvents
    /\ serviced' = serviced + 1

\* A response, of whatever status; a connection lost; or SERVICE_TIMEOUT.  The
\* engine gets a result or an exception and goes on.
ServiceReturns == pc[Main] = "idle" /\ MainStep("service", "engine")

-----------------------------------------------------------------------------
(* stop, as start calls it, and the end of start.                          *)

\* Engine.start returns, or raises what start logs; stop sets _exit and calls
\* Engine.stop.
EngineReturns ==
    /\ EngineQuits \/ stops > 0
    /\ MainMoves("engine", "close")
    /\ exit' = TRUE
    /\ stops' = stops + 1
    /\ UNCHANGED <<vars, waitFor, serviced>>

StopCloses ==
    /\ MainMoves("close", "join")
    /\ Close(Main)
    /\ UNCHANGED <<waitFor, serviced, exit, stops>>

\* Mutant of Join: the driver thread is left to itself.
JoinSkipped == MainStep("join", "returned")

Join == driver \in {"left", "dead"} /\ MainStep("join", "returned")

-----------------------------------------------------------------------------
(* _driver_loop                                                            *)

DriverReceive ==
    /\ DriverMoves("receive", "check")
    /\ Receive(Driver)
    /\ UNCHANGED <<message, updates, exit, stops>>

DriverLeaves ==
    /\ exit
    /\ DriverMoves("check", "left")
    /\ stops' = stops + 1
    /\ UNCHANGED <<vars, message, updates, exit>>

DriverWaits == ~exit /\ DriverStep("check", "wait")

\* Mutant of DriverTimesOut: the result is asked for again at once.
DriverWaitsOn ==
    /\ receive[Driver] \notin {"done", "cancelled"}
    /\ DriverStep("wait", "wait")

DriverTimesOut ==
    /\ receive[Driver] \notin {"done", "cancelled"}
    /\ DriverStep("wait", "check")

\* Mutant of DriverTakes: the next message is asked for first.
DriverTakesNext ==
    /\ DriverMoves("wait", "process")
    /\ receive[Driver] = "done"
    /\ Receive(Driver)
    /\ message' = item'[Driver]
    /\ UNCHANGED <<updates, exit, stops>>

\* The result is taken, and the next message asked for.
DriverTakes ==
    /\ DriverMoves("wait", "process")
    /\ receive[Driver] = "done"
    /\ message' = item[Driver]
    /\ Receive(Driver)
    /\ UNCHANGED <<updates, exit, stops>>

\* The receive was cancelled; the message is the RECONNECT_EVENT, which has no
\* type; or the stream refuses the ack.
DriverRaises ==
    \/ receive[Driver] = "cancelled" /\ DriverStep("wait", "dead")
    \/ message.kind = "reconnect" /\ DriverDrops("process", "dead")
    \/ Refused /\ DriverDrops("ack", "dead")

-----------------------------------------------------------------------------
(* _process, and the rest of the loop's body.                              *)

\* Mutant of ProcessUnexpected: nothing catches the ReceiveError.
UnexpectedRaises ==
    message.kind \in {"activated", "other"} /\ DriverDrops("process", "dead")

ProcessUnexpected ==
    message.kind \in {"activated", "other"} /\ DriverDrops("process", "check")

\* DecodeError is no ReceiveError: it ends the thread, and the message with it.
ProcessMalformed ==
    message.kind = "malformed" /\ DriverStep("process", "dead")

ProcessMessage ==
    message.kind \in {"notify", "ping"} /\ DriverStep("process", "ack")

\* stop, up to the close of the stream
ProcessDeactivated ==
    /\ message.kind = "deactivated"
    /\ DriverMoves("process", "close")
    /\ exit' = TRUE
    /\ stops' = stops + 1
    /\ UNCHANGED <<vars, message, updates>>

DriverCloses ==
    /\ DriverMoves("close", "ack")
    /\ Close(Driver)
    /\ UNCHANGED <<message, updates, exit, stops>>

DriverAck ==
    /\ DriverMoves("ack", "put")
    /\ SendBackBegin(Driver)
    /\ UNCHANGED <<message, updates, exit, stops>>

\* Mutant of DriverPuts: the message is acknowledged and put again.
DriverPutsAgain ==
    /\ pc[Driver] = "idle"
    /\ DriverMoves("put", "ack")
    /\ updates' = Append(updates, message)
    /\ UNCHANGED <<vars, message, exit, stops>>

\* A ping is not for the engine.
DriverPuts ==
    /\ pc[Driver] = "idle"
    /\ DriverMoves("put", "check")
    /\ updates' = IF message.kind = "ping" THEN updates
                  ELSE Append(updates, message)
    /\ message' = NoItem
    /\ UNCHANGED <<vars, exit, stops>>

-----------------------------------------------------------------------------
(* stop, as another thread calls it: at any time once start has made the   *)
(* Stream.                                                                 *)

StopperStops ==
    /\ stopper = "idle" /\ epoch > 0 /\ Events < MaxEvents
    /\ stopper' = "close"
    /\ exit' = TRUE
    /\ stops' = stops + 1
    /\ UNCHANGED <<vars, mainVars, driverVars>>

StopperCloses ==
    /\ stopper = "close"
    /\ stopper' = "done"
    /\ Close(Stopper)
    /\ UNCHANGED <<mainVars, driverVars, exit, stops>>

-----------------------------------------------------------------------------
InSendCall(c) ==
    /\ PutFuture(c) \/ PutReturns(c) \/ PutPasses(c) \/ Schedule(c)
    /\ UNCHANGED zdVars

MainNext ==
    \/ RegisterReady \/ RegisterSend \/ RegisterRaises \/ Registered
    \/ ActivateReceive \/ ActivateRaises \/ Activated \/ ActivateSkips
    \/ ActivateAck \/ ActivateReturns
    \/ ServiceSend \/ ServiceReturns
    \/ EngineReturns \/ StopCloses \/ Join
    \/ InSendCall(Main)

DriverNext ==
    \/ DriverReceive \/ DriverLeaves \/ DriverWaits \/ DriverTimesOut
    \/ DriverTakes \/ DriverRaises
    \/ ProcessUnexpected \/ ProcessMalformed \/ ProcessMessage
    \/ ProcessDeactivated
    \/ DriverCloses \/ DriverAck \/ DriverPuts
    \/ InSendCall(Driver)

LoopStep ==
    /\ LoopNext
    /\ inbound' = inbound \/ Events < MaxEvents
    /\ UNCHANGED zdVars

StopperNext == StopperStops \/ StopperCloses

ZDNext == LoopStep \/ MainNext \/ DriverNext \/ StopperNext

ZDSpec == ZDInit /\ [][ZDNext]_allVars

\* Both threads are there, and stop was called.
Stopped == exit /\ driver # "none"

\* What is left of start once stop was called: Engine.start returns, as its
\* contract says, and a call of the service before it.
MainEnds ==
    \/ ServiceReturns \/ EngineReturns \/ StopCloses \/ Join
    \/ InSendCall(Main)

\* From the stop on each thread is scheduled, and the background thread gets
\* through what lies between two connections.  Nobody has to call stop, and the
\* validator need do nothing.
ZDFairSpec ==
    /\ ZDSpec
    /\ WF_loop(Stopped /\ (Connect \/ RunReturns) /\ UNCHANGED zdVars)
    /\ WF_<<main, pc>>(Stopped /\ MainEnds)
    /\ WF_<<driver, pc>>(Stopped /\ DriverNext)
    /\ WF_stopper(Stopped /\ StopperCloses)

-----------------------------------------------------------------------------
(* Safety.                                                                 *)

\* Every variable keeps its type; what the main thread awaits is the future of
\* the message it sends (zmq_driver.py:122-126, zmq_service.py:32-40).
ZDTypeOK ==
    /\ main \in MainPoints
    /\ driver \in DriverPoints
    /\ stopper \in StopperPoints
    /\ waitFor \in Messages
    /\ Sending(Main) => cur[Main] \in {NoFuture, waitFor}
    /\ exit \in BOOLEAN
    /\ message \in Items
    /\ updates \in Seq(Items)
    /\ stops \in Nat /\ serviced \in Nat

\* The engine sees each notification once, in the order the validator sent
\* them, nothing but notifications, and all of one connection: it cannot be
\* left with the updates of two validators' sessions (zmq_driver.py:82-97).
UpdatesInOrder ==
    /\ \A n \in DOMAIN updates : updates[n].kind \in {"notify", "deactivated"}
    /\ \A m, n \in DOMAIN updates :
           /\ updates[m].epoch = updates[n].epoch
           /\ m < n => updates[m].id < updates[n].id

\* What the engine is to learn: in the receive queue, received, in the hands of
\* the driver thread, or with the engine.
ForEngine ==
    {m \in {recvQueue[n] : n \in DOMAIN recvQueue}
             \union {item[Driver], message}
             \union {updates[n] : n \in DOMAIN updates} :
        m.kind \in {"notify", "deactivated"}}

\* From the start of the engine on, no notification is lost on its way to the
\* engine while the stream is connected: the main thread takes none away, and
\* the driver thread drops none, wherever stop, a timeout or a message it does
\* not expect comes upon it (zmq_driver.py:75-97, 148-178).
NoneLost ==
    [][driver # "none" /\ readyEvent => ForEngine \subseteq ForEngine']_allVars

\* A step in which the driver does nothing to the engine: no update comes, and
\* Engine.stop is called by nobody but a thread that calls stop just then.
EngineAlone ==
    /\ UNCHANGED updates
    /\ stopper' = stopper => stops' = stops

\* Once start is over the driver does nothing to the engine any more
\* (zmq_driver.py:72, 79).
NothingAfterReturn == [][(main \in Ended) => EngineAlone]_allVars

\* A message the driver does not expect, however it falls among timeouts and
\* acks, leaves the driver thread with its engine.  What takes it away from an
\* engine nobody stopped is a lost connection, or a notification that does not
\* decode (zmq_driver.py:93-99).
DriverServes ==
    driver = "dead" /\ ~exit =>
        epoch > 1 \/ ~readyEvent \/ message.kind = "malformed"

\* What keeps NothingAfterReturn: the driver thread does not exist before the
\* engine starts, and start only returns once it has ended.
BeforeEngine ==
    {"register", "register send", "register await",
     "activate", "activate wait", "activate ack", "activate acks", "raised"}

ThreadsInv ==
    /\ main \in BeforeEngine <=> driver = "none"
    /\ main = "returned" => driver \in {"left", "dead"}

-----------------------------------------------------------------------------
(* The inductive invariant behind the other two.                           *)

\* What the receive queue holds is of the present connection, in the order of
\* its numbers, behind the marker of a new connection.
QueueInv ==
    \A n \in DOMAIN recvQueue :
        /\ recvQueue[n].kind = "reconnect" => n = 1 /\ epoch > 1
        /\ recvQueue[n].kind \in Kinds =>
               /\ recvQueue[n].epoch = epoch
               /\ recvQueue[n].id <= inbound
               /\ \A m \in DOMAIN recvQueue :
                      m < n /\ recvQueue[m].kind \in Kinds =>
                          recvQueue[m].id < recvQueue[n].id

\* A thread has one receive under way at most.
GetInv ==
    \A c \in Clients :
        /\ AtMostOnce(calls, {GetCall(c)})
        /\ Occurs(calls, GetCall(c)) => receive[c] = "called"

\* The main thread receives nothing once it goes on to the engine.
MainInv ==
    /\ main \notin {"activate wait", "raised"} =>
           receive[Main] \in {"none", "done"}
    /\ main # "register" => epoch > 0

\* What the driver thread holds at each of its points.
DriverInv ==
    /\ driver \in {"none", "receive"} =>
           receive[Driver] = "none" /\ updates = <<>>
    /\ driver \notin {"process", "close", "ack", "put", "dead"} =>
           message = NoItem
    /\ driver = "dead" => message = NoItem \/ message.kind = "malformed"
    /\ driver \in {"close", "ack", "put"} =>
           message.kind \in Kinds \cap {"notify", "ping", "deactivated"}
    /\ receive[Driver] # "done" => item[Driver] = NoItem
    /\ \A n \in DOMAIN updates : updates[n].kind \in Kinds

\* The messages that reached the driver thread.
Seen ==
    {m \in {updates[n] : n \in DOMAIN updates} \union {message, item[Driver]} :
        m.kind \in Kinds}

\* The thread will pass on what it receives next: it does not know of a new
\* connection yet.
Unaware ==
    /\ driver \notin {"none", "left", "dead"}
    /\ "reconnect" \notin {message.kind, item[Driver].kind}
    /\ receive[Driver] \in {"called", "waiting", "done"}

\* The thread will learn of a new connection before it sees a message of it.
MarkerAhead ==
    \/ loop \in {"connecting", "stopped", "exited", "failed"}
    \/ recvQueue # <<>> /\ Head(recvQueue).kind = "reconnect"

SeenInv ==
    \A m \in Seen :
        /\ m.id <= inbound
        /\ Unaware => m.epoch = epoch \/ MarkerAhead
        /\ \A n \in DOMAIN recvQueue :
               recvQueue[n].kind \in Kinds /\ recvQueue[n].epoch = m.epoch =>
                   m.id < recvQueue[n].id

Before(m, n) == m.epoch = n.epoch /\ m.id < n.id

\* Updates, message and received item are in order.
OrderInv ==
    /\ UpdatesInOrder
    /\ message.kind \in Kinds =>
           \A n \in DOMAIN updates : Before(updates[n], message)
    /\ Unaware /\ item[Driver].kind \in Kinds =>
           /\ \A n \in DOMAIN updates : Before(updates[n], item[Driver])
           /\ message.kind \in Kinds => Before(message, item[Driver])

\* The third thread is in no call of the stream but the close.
StopperInv ==
    /\ pc[Stopper] = "idle" /\ receive[Stopper] = "none"
    /\ stopper = "close" => epoch > 0

\* Without an exit, only the loss of a connection cancels a receive or leaves a
\* marker.
ServesInv ==
    /\ Shutdown \/ "close" \in {main, driver, stopper} => exit
    /\ "reconnect" \in {message.kind, item[Driver].kind} => epoch > 1
    /\ receive[Driver] \in {"cancelling", "cancelled"} /\ ~exit =>
           epoch > 1 \/ ~readyEvent
    /\ DriverServes

\* Inductive, with the invariant of Stream.
ZDInv ==
    /\ ZDTypeOK /\ ThreadsInv
    /\ QueueInv /\ GetInv /\ MainInv /\ DriverInv /\ StopperInv
    /\ SeenInv /\ OrderInv /\ ServesInv

-----------------------------------------------------------------------------
(* Liveness.                                                               *)

\* The driver thread with its ack, or the main thread with a call of the
\* service, waits in put_message for queues no thread will make any more.
StuckInPut ==
    /\ loop \in {"exited", "failed"} /\ ~queuesUp
    /\ \/ driver = "put" /\ pc[Driver] = "schedule"
       \/ main = "service" /\ pc[Main] = "schedule"

\* Once the engine was started and _exit is set start ends, whichever of the
\* three threads set it and whatever the others are at, unless put_message hangs
\* on a stream closed between two connections, which holds up the driver thread
\* or the engine itself (zmq_driver.py:71-72, 78-80, 101-104, stream.py:163-167).
StopEndsStart == Stopped ~> (main \in Ended \/ StuckInPut)
=============================================================================
