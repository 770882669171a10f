------------------------------- MODULE Stream -------------------------------
(***************************************************************************)
(* sawtooth_sdk/messaging: stream.py and future.py.                        *)
(*                                                                         *)
(* Application threads (Clients) share one Stream.  A background thread    *)
(* (_SendReceiveThread) runs an asyncio event loop; client threads reach   *)
(* it only through call_soon_threadsafe (calls), the two asyncio queues,   *)
(* the FutureCollection and the ready event.  The interleaving of the      *)
(* clients with the steps of the loop, and with a loss of the connection,  *)
(* is what the module is about.                                            *)
(***************************************************************************)
EXTENDS Naturals, Sequences

CONSTANTS
    Clients,       \* threads that call the methods of the Stream
    Patient,       \* those of them that call Future.result without timeout
    Receivers,     \* those of them that call receive
    Interruptible, \* those of them a KeyboardInterrupt can reach
    Futures,       \* correlation ids, one for each call of Stream.send
    NoFuture,      \* the message of send_back, for which no future is kept
    NoOne,         \* the owner of a future that was not created yet
    Kinds,         \* kinds of messages the validator sends of its own accord
    MaxEpoch,      \* bound: connections made (the last one stays up)
    MaxInbound,    \* bound: messages the validator sends of its own accord
    MaxQueued,     \* bound: calls and messages queued before a send_back
    MaxCloses      \* bound: calls of Stream.close

ASSUME ClientsAssumption ==
    Patient \union Receivers \union Interruptible \subseteq Clients
ASSUME FuturesAssumption == NoFuture \notin Futures /\ NoOne \notin Clients
ASSUME KindsAssumption == Kinds \cap {"none", "reconnect", "stray"} = {}
ASSUME BoundsAssumption ==
    {MaxEpoch, MaxInbound, MaxQueued, MaxCloses} \subseteq Nat

VARIABLES
    loop,          \* where the background thread is (LoopStates)
    readyEvent,    \* the threading.Event _ready_event is set
    epoch,         \* connections made so far
    queuesUp,      \* _send_queue and _recv_queue are not None
    monitorSock,   \* _monitor_sock is not None
    context,       \* the zmq context: "open" or "destroyed"
    calls,         \* callbacks given to call_soon_threadsafe, first in first out
    sendQueue,     \* _send_queue: Futures, or NoFuture for a send_back
    recvQueue,     \* _recv_queue
    futures,       \* ids in the FutureCollection
    result,        \* Future._result: "none", "error" or "answer"
    owner,         \* the client that created the future
    keys,          \* the ids the monitor's iteration over the collection began with
    todo,          \* those of them it has not resolved yet
    pc,            \* where each client is (ClientStates)
    cur,           \* the message the client is sending, or awaits
    receive,       \* the client's receive(): the concurrent future's state
    item,          \* what it was resolved with
    atValidator,   \* requests the validator may still answer
    inbound,       \* messages the validator sent of its own accord
    closes         \* calls of Stream.close so far

threadVars  == <<loop, readyEvent, epoch, queuesUp, monitorSock, context>>
queueVars   == <<calls, sendQueue, recvQueue>>
futureVars  == <<futures, result, owner>>
sweepVars   == <<keys, todo>>
clientVars  == <<pc, cur>>
receiveVars == <<receive, item>>
worldVars   == <<atValidator, inbound, closes>>
vars == <<threadVars, queueVars, futureVars, sweepVars, clientVars,
          receiveVars, worldVars>>

-----------------------------------------------------------------------------
Messages == Futures \union {NoFuture}

LoopStates ==
    {"connecting",  \* in the try block of run, or about to enter it
     "running",     \* run_forever, connected
     "failing",     \* _monitor_disconnects is resolving the futures
     "wedged",      \* run_forever, but the monitor's coroutine has died
     "stopped",     \* run_forever returns
     "exited",      \* the thread ended after a shutdown
     "failed"}      \* the thread ended after an exception in the try block

ClientStates ==
    {"idle",
     "register",    \* in send, before self._futures.put
     "put",         \* before put_message looks at the ready event
     "schedule",    \* in put_message, past that check
     "await"}       \* in Future.result

ReceiveStates ==
    {"none", "called", "waiting", "cancelling", "cancelled", "done"}

PutCall(m)       == [kind |-> "put", message |-> m]
GetCall(c)       == [kind |-> "get", client |-> c]
ShutdownCall(cs) == [kind |-> "shutdown", getters |-> cs]
Calls ==
    [kind : {"put"}, message : Messages]
        \union [kind : {"get"}, client : Clients]
        \union [kind : {"shutdown"}, getters : SUBSET Clients]

\* Items of the receive queue carry the connection they came from, and
\* messages of the validator's own a number.
Items == [kind : Kinds \union {"none", "reconnect", "stray"},
          epoch : Nat, id : Nat]
NoItem            == [kind |-> "none", epoch |-> 0, id |-> 0]
InitialItem(kind) == [kind |-> kind, epoch |-> epoch, id |-> inbound + 1]
StrayItem         == [kind |-> "stray", epoch |-> epoch, id |-> 0]
ReconnectItem     == [kind |-> "reconnect", epoch |-> epoch + 1, id |-> 0]

\* The loop executes callbacks and task steps.
LoopRuns == loop \in {"running", "wedged"}

\* self._shutdown: set by the first close and never reset.
Shutdown == closes > 0

Sending(c) == pc[c] \in {"register", "put", "schedule"}

-----------------------------------------------------------------------------
Init ==
    /\ loop = "connecting"
    /\ readyEvent = TRUE
    /\ epoch = 0
    /\ queuesUp = FALSE
    /\ monitorSock = FALSE
    /\ context = "open"
    /\ calls = <<>>
    /\ sendQueue = <<>>
    /\ recvQueue = <<>>
    /\ futures = {}
    /\ result = [i \in Futures |-> "none"]
    /\ owner = [i \in Futures |-> NoOne]
    /\ keys = {}
    /\ todo = {}
    /\ pc = [c \in Clients |-> "idle"]
    /\ cur = [c \in Clients |-> NoFuture]
    /\ receive = [c \in Clients |-> "none"]
    /\ item = [c \in Clients |-> NoItem]
    /\ atValidator = {}
    /\ inbound = 0
    /\ closes = 0

-----------------------------------------------------------------------------
(* The background thread outside run_forever.                              *)

\* Mutant of Connect: the queues are made for the first connection only.
ConnectReusesQueues ==
    /\ loop = "connecting"
    /\ epoch < MaxEpoch
    /\ loop' = "running"
    /\ readyEvent' = TRUE
    /\ epoch' = epoch + 1
    /\ queuesUp' = (queuesUp \/ epoch = 0)
    /\ monitorSock' = TRUE
    /\ UNCHANGED <<context, queueVars, futureVars, sweepVars, clientVars,
                   receiveVars, worldVars>>

\* Mutant of Connect: a new event loop is made for each connection.
ConnectNewLoop ==
    /\ loop = "connecting"
    /\ epoch < MaxEpoch
    /\ loop' = "running"
    /\ readyEvent' = TRUE
    /\ epoch' = epoch + 1
    /\ queuesUp' = TRUE
    /\ monitorSock' = TRUE
    /\ calls' = <<>>
    /\ sendQueue' = <<>>
    /\ recvQueue' = IF epoch = 0
                    THEN <<>>
                    ELSE <<ReconnectItem>>
    /\ UNCHANGED <<context, futureVars, sweepVars, clientVars, receiveVars,
                   worldVars>>

\* Mutant of Connect: first_time is not reset.
ConnectUnannounced ==
    /\ loop = "connecting"
    /\ epoch < MaxEpoch
    /\ loop' = "running"
    /\ readyEvent' = TRUE
    /\ epoch' = epoch + 1
    /\ queuesUp' = TRUE
    /\ monitorSock' = TRUE
    /\ sendQueue' = <<>>
    /\ recvQueue' = <<>>
    /\ UNCHANGED <<context, calls, futureVars, sweepVars, clientVars,
                   receiveVars, worldVars>>

\* One pass through the try block of run, up to run_forever.
Connect ==
    /\ loop = "connecting"
    /\ epoch < MaxEpoch
    /\ loop' = "running"
    /\ readyEvent' = TRUE
    /\ epoch' = epoch + 1
    /\ queuesUp' = TRUE
    /\ monitorSock' = TRUE
    /\ sendQueue' = <<>>
    /\ recvQueue' = IF epoch = 0
                    THEN <<>>
                    ELSE <<ReconnectItem>>
    /\ UNCHANGED <<context, calls, futureVars, sweepVars, clientVars,
                   receiveVars, worldVars>>

\* The try block raises: the exception is put on a queue that only the
\* constructor reads, and the thread ends.
ConnectFails ==
    /\ loop = "connecting"
    /\ loop' = "failed"
    /\ UNCHANGED <<readyEvent, epoch, queuesUp, monitorSock, context,
                   queueVars, futureVars, sweepVars, clientVars, receiveVars,
                   worldVars>>

\* run_forever has returned.  With _monitor_sock None the clean-up raises
\* before it reaches the context.
RunReturns ==
    /\ loop = "stopped"
    /\ loop' = IF Shutdown THEN "exited" ELSE "connecting"
    /\ context' = IF Shutdown /\ monitorSock THEN "destroyed" ELSE context
    /\ UNCHANGED <<readyEvent, epoch, queuesUp, monitorSock, queueVars,
                   futureVars, sweepVars, clientVars, receiveVars, worldVars>>

-----------------------------------------------------------------------------
(* _monitor_disconnects                                                    *)

\* Mutant of MonitorDisconnect: the queues are dropped before the sweep.
DisconnectDropsQueues ==
    /\ loop = "running"
    /\ epoch < MaxEpoch
    /\ loop' = "failing"
    /\ readyEvent' = FALSE
    /\ monitorSock' = FALSE
    /\ queuesUp' = FALSE
    /\ keys' = futures
    /\ todo' = futures
    /\ atValidator' \in SUBSET atValidator
    /\ UNCHANGED <<epoch, context, queueVars, futureVars, clientVars,
                   receiveVars, inbound, closes>>

\* Mutant of MonitorDisconnect: the ready event is not cleared.
DisconnectKeepsReady ==
    /\ loop = "running"
    /\ epoch < MaxEpoch
    /\ loop' = "failing"
    /\ monitorSock' = FALSE
    /\ keys' = futures
    /\ todo' = futures
    /\ atValidator' \in SUBSET atValidator
    /\ UNCHANGED <<readyEvent, epoch, queuesUp, context, queueVars, futureVars,
                   clientVars, receiveVars, inbound, closes>>

\* A disconnect event arrives: of the requests in flight some are lost.
MonitorDisconnect ==
    /\ loop = "running"
    /\ epoch < MaxEpoch
    /\ loop' = "failing"
    /\ readyEvent' = FALSE
    /\ monitorSock' = FALSE
    /\ keys' = futures
    /\ todo' = futures
    /\ atValidator' \in SUBSET atValidator
    /\ UNCHANGED <<epoch, queuesUp, context, queueVars, futureVars,
                   clientVars, receiveVars, inbound, closes>>

\* Mutant of FailFuture: a failed future leaves the collection (and the
\* iteration is over a copy).
FailFutureRemoves(i) ==
    /\ loop = "failing"
    /\ futures = keys
    /\ i \in todo
    /\ result' = [result EXCEPT ![i] = "error"]
    /\ todo' = todo \ {i}
    /\ keys' = keys \ {i}
    /\ futures' = futures \ {i}
    /\ UNCHANGED <<threadVars, queueVars, owner, clientVars, receiveVars,
                   worldVars>>

\* One step of the iteration over the dictionary's values.
FailFuture(i) ==
    /\ loop = "failing"
    /\ futures = keys
    /\ i \in todo
    /\ result' = [result EXCEPT ![i] = "error"]
    /\ todo' = todo \ {i}
    /\ UNCHANGED <<threadVars, queueVars, futures, owner, keys, clientVars,
                   receiveVars, worldVars>>

\* A client has added a future meanwhile: "dictionary changed size during
\* iteration" ends the coroutine, and the loop goes on without a monitor.
IterationBroken ==
    /\ loop = "failing"
    /\ futures # keys
    /\ loop' = "wedged"
    /\ keys' = {}
    /\ todo' = {}
    /\ UNCHANGED <<readyEvent, epoch, queuesUp, monitorSock, context,
                   queueVars, futureVars, clientVars, receiveVars, worldVars>>

\* Mutant of FailDone: the tasks are not cancelled.
FailDoneCancelsNothing ==
    /\ loop = "failing"
    /\ futures = keys
    /\ todo = {}
    /\ loop' = "stopped"
    /\ queuesUp' = FALSE
    /\ sendQueue' = <<>>
    /\ recvQueue' = <<>>
    /\ keys' = {}
    /\ UNCHANGED <<readyEvent, epoch, monitorSock, context, calls, futureVars,
                   todo, clientVars, receiveVars, worldVars>>

\* Mutant of FailDone: it does not wait for the end of the sweep.
FailDoneEarly ==
    /\ loop = "failing"
    /\ loop' = "stopped"
    /\ queuesUp' = FALSE
    /\ sendQueue' = <<>>
    /\ recvQueue' = <<>>
    /\ keys' = {}
    /\ todo' = {}
    /\ receive' = [c \in Clients |->
                      IF receive[c] = "waiting" THEN "cancelling"
                      ELSE receive[c]]
    /\ UNCHANGED <<readyEvent, epoch, monitorSock, context, calls, futureVars,
                   clientVars, item, worldVars>>

\* The iteration is over: cancel every task, stop the loop, drop the queues.
\* The cancelled tasks learn of it when the loop runs again.
FailDone ==
    /\ loop = "failing"
    /\ futures = keys
    /\ todo = {}
    /\ loop' = "stopped"
    /\ queuesUp' = FALSE
    /\ sendQueue' = <<>>
    /\ recvQueue' = <<>>
    /\ keys' = {}
    /\ receive' = [c \in Clients |->
                      IF receive[c] = "waiting" THEN "cancelling"
                      ELSE receive[c]]
    /\ UNCHANGED <<readyEvent, epoch, monitorSock, context, calls, futureVars,
                   todo, clientVars, item, worldVars>>

-----------------------------------------------------------------------------
(* Callbacks and tasks of the event loop.                                  *)

\* _put_message
RunPut ==
    /\ LoopRuns
    /\ calls # <<>>
    /\ Head(calls).kind = "put"
    /\ calls' = Tail(calls)
    /\ sendQueue' = Append(sendQueue, Head(calls).message)
    /\ UNCHANGED <<threadVars, recvQueue, futureVars, sweepVars, clientVars,
                   receiveVars, worldVars>>

\* _get_message, up to the queue's get
RunGet ==
    /\ LoopRuns
    /\ queuesUp
    /\ calls # <<>>
    /\ Head(calls).kind = "get"
    /\ calls' = Tail(calls)
    /\ receive' = [receive EXCEPT ![Head(calls).client] = "waiting"]
    /\ UNCHANGED <<threadVars, sendQueue, recvQueue, futureVars, sweepVars,
                   clientVars, item, worldVars>>

\* The task.cancel of shutdown is delivered to a get before the loop stops.
ShutdownCancels(c) ==
    /\ LoopRuns
    /\ calls # <<>>
    /\ Head(calls).kind = "shutdown"
    /\ c \in Head(calls).getters
    /\ receive[c] = "waiting"
    /\ receive' = [receive EXCEPT ![c] = "cancelled"]
    /\ UNCHANGED <<threadVars, queueVars, futureVars, sweepVars, clientVars,
                   item, worldVars>>

\* _done_callback
RunShutdown ==
    /\ LoopRuns
    /\ calls # <<>>
    /\ Head(calls).kind = "shutdown"
    /\ calls' = Tail(calls)
    /\ loop' = "stopped"
    /\ context' = IF monitorSock THEN "destroyed" ELSE context
    /\ UNCHANGED <<readyEvent, epoch, queuesUp, monitorSock, sendQueue,
                   recvQueue, futureVars, sweepVars, clientVars, receiveVars,
                   worldVars>>

\* The get of the receive queue completes, and with it the client's future.
GetterTakes(c) ==
    /\ LoopRuns
    /\ receive[c] = "waiting"
    /\ recvQueue # <<>>
    /\ recvQueue' = Tail(recvQueue)
    /\ receive' = [receive EXCEPT ![c] = "done"]
    /\ item' = [item EXCEPT ![c] = Head(recvQueue)]
    /\ UNCHANGED <<threadVars, calls, sendQueue, futureVars, sweepVars,
                   clientVars, worldVars>>

DeliverCancel(c) ==
    /\ LoopRuns
    /\ receive[c] = "cancelling"
    /\ receive' = [receive EXCEPT ![c] = "cancelled"]
    /\ UNCHANGED <<threadVars, queueVars, futureVars, sweepVars, clientVars,
                   item, worldVars>>

\* _send_message
SendTask ==
    /\ loop = "running"
    /\ sendQueue # <<>>
    /\ sendQueue' = Tail(sendQueue)
    /\ atValidator' = atValidator \union ({Head(sendQueue)} \ {NoFuture})
    /\ UNCHANGED <<threadVars, calls, recvQueue, futureVars, sweepVars,
                   clientVars, receiveVars, inbound, closes>>

\* _receive_message, for a message whose correlation id is that of a request.
\* An id that is not in the collection makes it an initial message.
ReceiveAnswer(i) ==
    /\ loop = "running"
    /\ i \in atValidator
    /\ atValidator' = atValidator \ {i}
    /\ result' = IF i \in futures THEN [result EXCEPT ![i] = "answer"]
                 ELSE result
    /\ futures' = futures \ {i}
    /\ recvQueue' = IF i \in futures THEN recvQueue
                    ELSE Append(recvQueue, StrayItem)
    /\ UNCHANGED <<threadVars, calls, sendQueue, owner, sweepVars, clientVars,
                   receiveVars, inbound, closes>>

\* _receive_message, for a message the validator sends of its own accord.
ReceiveInitial ==
    /\ loop = "running"
    /\ inbound < MaxInbound
    /\ inbound' = inbound + 1
    /\ \E kind \in Kinds : recvQueue' = Append(recvQueue, InitialItem(kind))
    /\ UNCHANGED <<threadVars, calls, sendQueue, futureVars, sweepVars,
                   clientVars, receiveVars, atValidator, closes>>

-----------------------------------------------------------------------------
(* Client threads.  The constructor returns once the first connection is   *)
(* made, so no method is called before.                                    *)

Idle(c) == epoch > 0 /\ pc[c] = "idle"

\* send, up to the creation of the future
SendBegin(c, i) ==
    /\ Idle(c)
    /\ readyEvent
    /\ owner[i] = NoOne
    /\ owner' = [owner EXCEPT ![i] = c]
    /\ pc' = [pc EXCEPT ![c] = "register"]
    /\ cur' = [cur EXCEPT ![c] = i]
    /\ UNCHANGED <<threadVars, queueVars, futures, result, sweepVars,
                   receiveVars, worldVars>>

\* send: self._futures.put
PutFuture(c) ==
    /\ pc[c] = "register"
    /\ futures' = futures \union {cur[c]}
    /\ pc' = [pc EXCEPT ![c] = "put"]
    /\ UNCHANGED <<threadVars, queueVars, result, owner, sweepVars, cur,
                   receiveVars, worldVars>>

\* send_back, up to put_message
SendBackBegin(c) ==
    /\ Idle(c)
    /\ readyEvent
    /\ Len(calls) + Len(sendQueue) < MaxQueued
    /\ pc' = [pc EXCEPT ![c] = "put"]
    /\ cur' = [cur EXCEPT ![c] = NoFuture]
    /\ UNCHANGED <<threadVars, queueVars, futureVars, sweepVars, receiveVars,
                   worldVars>>

\* put_message finds the event cleared and returns: nothing is sent and
\* nothing is raised.
PutReturns(c) ==
    /\ pc[c] = "put"
    /\ ~readyEvent
    /\ pc' = [pc EXCEPT ![c] = "idle"]
    /\ cur' = [cur EXCEPT ![c] = NoFuture]
    /\ UNCHANGED <<threadVars, queueVars, futureVars, sweepVars, receiveVars,
                   worldVars>>

PutPasses(c) ==
    /\ pc[c] = "put"
    /\ readyEvent
    /\ pc' = [pc EXCEPT ![c] = "schedule"]
    /\ UNCHANGED <<threadVars, queueVars, futureVars, sweepVars, cur,
                   receiveVars, worldVars>>

\* put_message: the wait on the condition, and run_coroutine_threadsafe
Schedule(c) ==
    /\ pc[c] = "schedule"
    /\ queuesUp
    /\ calls' = Append(calls, PutCall(cur[c]))
    /\ pc' = [pc EXCEPT ![c] = "idle"]
    /\ cur' = [cur EXCEPT ![c] = NoFuture]
    /\ UNCHANGED <<threadVars, sendQueue, recvQueue, futureVars, sweepVars,
                   receiveVars, worldVars>>

\* Future.result of a request this client sent and that has no result yet
Await(c, i) ==
    /\ pc[c] = "idle"
    /\ owner[i] = c
    /\ result[i] = "none"
    /\ pc' = [pc EXCEPT ![c] = "await"]
    /\ cur' = [cur EXCEPT ![c] = i]
    /\ UNCHANGED <<threadVars, queueVars, futureVars, sweepVars, receiveVars,
                   worldVars>>

StopWaiting(c) ==
    /\ pc' = [pc EXCEPT ![c] = "idle"]
    /\ cur' = [cur EXCEPT ![c] = NoFuture]
    /\ UNCHANGED <<threadVars, queueVars, futureVars, sweepVars, receiveVars,
                   worldVars>>

Wake(c) ==
    /\ pc[c] = "await"
    /\ result[cur[c]] # "none"
    /\ StopWaiting(c)

\* The result is not read again once the wait has timed out, and the future
\* stays in the collection.
TimeOut(c) ==
    /\ pc[c] = "await"
    /\ c \notin Patient
    /\ StopWaiting(c)

\* An exception from outside takes the client out of the call it is in.
Interrupted(c) ==
    /\ c \in Interruptible
    /\ pc[c] # "idle"
    /\ StopWaiting(c)

\* receive: get_message, once the future of the last receive is resolved
Receive(c) ==
    /\ Idle(c)
    /\ c \in Receivers
    /\ receive[c] \in {"none", "done", "cancelled"}
    /\ receive' = [receive EXCEPT ![c] = "called"]
    /\ item' = [item EXCEPT ![c] = NoItem]
    /\ calls' = Append(calls, GetCall(c))
    /\ UNCHANGED <<threadVars, sendQueue, recvQueue, futureVars, sweepVars,
                   clientVars, worldVars>>

\* Mutant of Close: the flag is set, and nothing wakes the loop.
CloseSetsFlag(c) ==
    /\ Idle(c)
    /\ closes < MaxCloses
    /\ closes' = closes + 1
    /\ UNCHANGED <<threadVars, queueVars, futureVars, sweepVars, clientVars,
                   receiveVars, atValidator, inbound>>

\* close: shutdown cancels the tasks there are and asks the loop to stop.
Close(c) ==
    /\ Idle(c)
    /\ closes < MaxCloses
    /\ closes' = closes + 1
    /\ calls' = Append(calls,
                       ShutdownCall({d \in Clients : receive[d] = "waiting"}))
    /\ UNCHANGED <<threadVars, sendQueue, recvQueue, futureVars, sweepVars,
                   clientVars, receiveVars, atValidator, inbound>>

-----------------------------------------------------------------------------
LoopNext ==
    \/ Connect
    \/ ConnectFails
    \/ RunReturns
    \/ MonitorDisconnect
    \/ \E i \in Futures : FailFuture(i)
    \/ IterationBroken
    \/ FailDone
    \/ RunPut
    \/ RunGet
    \/ \E c \in Clients : ShutdownCancels(c)
    \/ RunShutdown
    \/ \E c \in Clients : GetterTakes(c)
    \/ \E c \in Clients : DeliverCancel(c)
    \/ SendTask
    \/ \E i \in Futures : ReceiveAnswer(i)
    \/ ReceiveInitial

ClientNext(c) ==
    \/ \E i \in Futures : SendBegin(c, i)
    \/ PutFuture(c)
    \/ SendBackBegin(c)
    \/ PutReturns(c)
    \/ PutPasses(c)
    \/ Schedule(c)
    \/ \E i \in Futures : Await(c, i)
    \/ Wake(c)
    \/ TimeOut(c)
    \/ Interrupted(c)
    \/ Receive(c)
    \/ Close(c)

Next == LoopNext \/ \E c \in Clients : ClientNext(c)

Spec == Init /\ [][Next]_vars

\* The background thread is always scheduled again, the validator answers
\* what it holds, and a client inside a call goes on with it.  Nothing obliges
\* a client to begin a call, a wait to time out, the connection to break, or
\* the validator to send requests.
LoopFairness ==
    /\ WF_vars(Connect)
    /\ WF_vars(RunReturns)
    /\ \A i \in Futures : WF_vars(FailFuture(i))
    /\ WF_vars(IterationBroken)
    /\ WF_vars(FailDone)
    /\ WF_vars(RunPut)
    /\ WF_vars(RunGet)
    /\ WF_vars(RunShutdown)
    /\ \A c \in Clients : WF_vars(GetterTakes(c)) /\ WF_vars(DeliverCancel(c))
    /\ WF_vars(SendTask)
    /\ \A i \in Futures : WF_vars(ReceiveAnswer(i))

ClientFairness ==
    \A c \in Clients :
        /\ WF_vars(PutFuture(c))
        /\ WF_vars(PutReturns(c) \/ PutPasses(c))
        /\ WF_vars(Schedule(c))
        /\ WF_vars(Wake(c))

FairSpec == Spec /\ LoopFairness /\ ClientFairness

-----------------------------------------------------------------------------
(* Where a request is.                                                     *)

Occurs(s, e)   == \E n \in DOMAIN s : s[n] = e
InCalls(i)     == Occurs(calls, PutCall(i))
InSendQueue(i) == Occurs(sendQueue, i)
InSend(i)      == \E c \in Clients : Sending(c) /\ cur[c] = i

\* Accepted from a client, and not transmitted yet.
Queued == {i \in Futures : InSend(i) \/ InCalls(i) \/ InSendQueue(i)}

\* Handed over to the loop or to the validator: past put_message.
OnItsWay(i) == InCalls(i) \/ InSendQueue(i) \/ i \in atValidator

Outcome(i) ==
    CASE result[i] # "none"                     -> result[i]
      [] result[i] = "none" /\ owner[i] = NoOne -> "unsent"
      [] OTHER                                  -> "pending"

Promise == INSTANCE RequestReply WITH
    up      <- readyEvent,
    outcome <- [i \in Futures |-> Outcome(i)],
    queued  <- Queued,
    held    <- atValidator

-----------------------------------------------------------------------------
(* Safety.                                                                 *)

\* Every variable keeps its type.
TypeOK ==
    /\ loop \in LoopStates
    /\ readyEvent \in BOOLEAN
    /\ epoch \in Nat
    /\ queuesUp \in BOOLEAN
    /\ monitorSock \in BOOLEAN
    /\ context \in {"open", "destroyed"}
    /\ calls \in Seq(Calls)
    /\ sendQueue \in Seq(Messages)
    /\ recvQueue \in Seq(Items)
    /\ futures \in SUBSET Futures
    /\ result \in [Futures -> {"none", "error", "answer"}]
    /\ owner \in [Futures -> Clients \union {NoOne}]
    /\ keys \in SUBSET Futures
    /\ todo \in SUBSET Futures
    /\ pc \in [Clients -> ClientStates]
    /\ cur \in [Clients -> Messages]
    /\ receive \in [Clients -> ReceiveStates]
    /\ item \in [Clients -> Items]
    /\ atValidator \in SUBSET Futures
    /\ inbound \in Nat
    /\ closes \in Nat

\* The callbacks of put_message and get_message never find the queues None:
\* the one would lose its message in an AttributeError, the other would block
\* the whole event loop on the condition (stream.py:122, 129-130).
QueuesWhileRunning == LoopRuns => queuesUp

\* A stream that says it is ready has a connected loop with a monitor, unless
\* it was closed: send lets its callers through on this event alone
\* (stream.py:294, 314).
ReadyMeansConnected ==
    readyEvent /\ epoch > 0 /\ ~Shutdown
        => loop = "running" /\ queuesUp /\ monitorSock

\* An answer never arrives at a client as if it were a request of the
\* validator's own: its future is registered before the request can leave,
\* and stays so until the answer (stream.py:93-103, 301-303).
NoStrayAnswer ==
    /\ \A n \in DOMAIN recvQueue : recvQueue[n].kind # "stray"
    /\ \A c \in Clients : item[c].kind # "stray"

\* Once a future holds the validator's answer, nothing replaces it: not the
\* sweep of a disconnect, not a second message (stream.py:94-98, 147-148).
AnswerFinal ==
    [][\A i \in Futures : result[i] = "answer" => result'[i] = "answer"]_vars

\* Somebody still answers for the request: it is on its way, or resolved, or
\* the sweep is going to fail it.
Accounted(i) ==
    \/ OnItsWay(i)
    \/ result[i] # "none"
    \/ i \in todo
    \/ loop = "wedged"
    \/ Shutdown

\* No step loses a request that put_message has handed over: not the loss of
\* the connection with the request on the wire, not the end of the sweep,
\* which drops the send queue, not the new queues of the next connection
\* (stream.py:147-154, 226-229).
NeverForgotten == [][\A i \in Futures : Accounted(i) => Accounted(i)']_vars

\* What is asked of the loop waits until the loop does it, in the next
\* connection if need be: a close is queued or has stopped the loop, a receive
\* is queued until its task begins, and no task waits in a loop that stopped
\* for a disconnect (stream.py:149-152, 178-180, 187-195).
CallsKept ==
    /\ Shutdown =>
           \/ \E cs \in SUBSET Clients : Occurs(calls, ShutdownCall(cs))
           \/ loop \in {"stopped", "exited"}
    /\ \A c \in Clients :
           /\ receive[c] = "called" => Occurs(calls, GetCall(c))
           /\ receive[c] = "waiting" =>
                  loop \in {"running", "failing", "wedged"} \/ Shutdown

\* The Stream does what RequestReply promises: at most one transmission, no
\* error while connected, nothing replaces an answer.
KeepsPromise == Promise!Spec

-----------------------------------------------------------------------------
(* The inductive invariant behind the safety properties.                   *)

\* What each state of the background thread says of its other variables.
LoopInv ==
    /\ loop = "running" =>
           epoch > 0 /\ readyEvent /\ queuesUp /\ monitorSock
    /\ loop \in {"failing", "wedged"} => epoch > 0 /\ ~readyEvent /\ queuesUp
    /\ loop = "stopped" =>
           epoch > 0 /\ (Shutdown \/ (~readyEvent /\ sendQueue = <<>>))
    /\ loop = "connecting" =>
           sendQueue = <<>> /\ (epoch = 0 \/ ~readyEvent)
    /\ loop = "failed" => epoch = 0 \/ ~readyEvent
    /\ loop = "exited" => Shutdown

\* The sweep works on futures that are in the collection, those it is done
\* with have a result, and it leaves nothing behind.
SweepInv ==
    /\ todo \subseteq keys
    /\ loop # "failing" => keys = {}
    /\ loop = "failing" => keys \subseteq futures
    /\ loop = "failing" => \A i \in keys \ todo : result[i] # "none"

\* A future in the collection was created by a client and has no answer.
FutureInv ==
    \A i \in Futures :
        /\ i \in futures => owner[i] # NoOne /\ result[i] # "answer"
        /\ owner[i] = NoOne => result[i] = "none"

\* A request under way is in exactly one place: in its owner's hands, in the
\* callbacks, in the send queue or at the validator.  From the registration
\* on its future is in the collection.
SendInv ==
    \A c \in Clients :
        /\ pc[c] = "register" =>
               /\ cur[c] \in Futures
               /\ cur[c] \notin futures
               /\ result[cur[c]] = "none"
        /\ Sending(c) /\ cur[c] \in Futures =>
               /\ owner[cur[c]] = c
               /\ ~InCalls(cur[c])
               /\ ~InSendQueue(cur[c])
               /\ cur[c] \notin atValidator
               /\ pc[c] # "register" => cur[c] \in futures

AtMostOnce(s, E) ==
    \A m, n \in DOMAIN s : s[m] = s[n] /\ s[m] \in E => m = n

PutCalls == {PutCall(i) : i \in Futures}

PlaceInv ==
    /\ \A i \in Futures :
           /\ InCalls(i) =>
                  i \in futures /\ ~InSendQueue(i) /\ i \notin atValidator
           /\ InSendQueue(i) => i \in futures /\ i \notin atValidator
           /\ i \in atValidator => i \in futures
    /\ AtMostOnce(calls, PutCalls)
    /\ AtMostOnce(sendQueue, Futures)

\* Only a close asks the loop to stop for good.
CloseInv ==
    \A cs \in SUBSET Clients : Occurs(calls, ShutdownCall(cs)) => Shutdown

\* Inductive: the conjunction of the above.
IInv ==
    /\ TypeOK
    /\ LoopInv
    /\ CloseInv
    /\ SweepInv
    /\ FutureInv
    /\ SendInv
    /\ PlaceInv
    /\ NoStrayAnswer
    /\ CallsKept

-----------------------------------------------------------------------------
(* Liveness.                                                               *)

\* A request that put_message handed over is answered or failed, whatever the
\* connection does, as long as nobody closes the stream and the background
\* thread keeps its monitor (stream.py:147-148).
HandedOverResolves ==
    \A i \in Futures :
        OnItsWay(i) ~> (result[i] # "none" \/ Shutdown
                           \/ loop \in {"wedged", "failed"})

\* A client that waits in receive when the connection is lost does not wait
\* for ever: its future is cancelled once the loop runs again
\* (stream.py:149-151).
ReceiveReleased ==
    \A c \in Clients :
        (loop = "failing" /\ receive[c] = "waiting")
            ~> (receive[c] = "cancelled" \/ Shutdown
                   \/ loop \in {"wedged", "failed"})

\* A client that waits in put_message for the queues of the next connection
\* goes on, unless the background thread has ended (stream.py:163-167).
PutMessageReturns ==
    \A c \in Clients :
        pc[c] = "schedule" ~> (pc[c] # "schedule"
                                  \/ loop \in {"exited", "failed"})

\* After close the background thread ends, even when the close races a
\* disconnect or finds the monitor dead (stream.py:194-195, 249-253).
CloseTerminates == Shutdown ~> loop \in {"exited", "failed"}

-----------------------------------------------------------------------------
(* What the docstrings say and the code does not do.                       *)

\* stream.py:286-291: send sends a message, or raises ValidatorConnectionError.
\* So a request that got past the check of send, in a thread no interrupt can
\* come upon, is answered or failed in the end.
SendSendsOrRaises ==
    \A i \in Futures :
        (InSend(i) /\ owner[i] \notin Interruptible)
            ~> (result[i] # "none" \/ Shutdown
                   \/ loop \in {"wedged", "failed"})

\* stream.py:330-331: the background thread recovers from a disconnect (a
\* connect that raises apart, and nobody closing the stream).
RecoversFromDisconnect ==
    ~readyEvent ~> (readyEvent \/ Shutdown \/ loop = "failed")
=============================================================================
