--------------------------- MODULE ZmqDriverProofs ---------------------------
(***************************************************************************)
(* Proofs about ZmqDriver.  A bridge to the theorems about Stream; then    *)
(* that nothing reaches the engine once start is over, that it sees the    *)
(* notifications of one connection in their order and that none is lost,   *)
(* and what can take the driver thread away.                               *)
(***************************************************************************)
EXTENDS ZmqDriver, StreamProofs

USE DEF threadVars, queueVars, futureVars, sweepVars, clientVars, receiveVars,
        worldVars

LEMMA ThreadFacts ==
  /\ Main \in Clients /\ Driver \in Clients
  /\ Main \in Receivers /\ Driver \in Receivers
  /\ Stopper \in Clients /\ Stopper # Main /\ Stopper # Driver
  BY ThreadsAssumption

\* An unused correlation id is one of the ids.
LEMMA FreshFacts ==
  ASSUME \E i \in Futures : owner[i] = NoOne
  PROVE  Fresh \in Futures
  BY DEF Fresh

-----------------------------------------------------------------------------
(* Every step is one of Stream's, or none of it.                           *)

\* The steps of Stream's clients that the threads take.
Calling(c) ==
  \/ \E i \in Futures : SendBegin(c, i)
  \/ SendBackBegin(c) \/ Receive(c) \/ Close(c)
  \/ PutFuture(c) \/ PutReturns(c) \/ PutPasses(c) \/ Schedule(c)

LEMMA SendsSteps ==
  ASSUME NEW a, NEW b, Sends(a, b)
  PROVE  Calling(Main)
  BY FreshFacts DEF Sends, Calling

LEMMA MainSteps == MainNext => Calling(Main) \/ UNCHANGED vars
  <1> SUFFICES ASSUME MainNext PROVE Calling(Main) \/ UNCHANGED vars
    OBVIOUS
  <1> USE DEF MainStep
  <1>1. CASE RegisterSend \/ ServiceSend
    BY <1>1, SendsSteps DEF RegisterSend, ServiceSend
  <1>2. CASE ActivateReceive \/ ActivateAck \/ StopCloses \/ InSendCall(Main)
    BY <1>2 DEF ActivateReceive, ActivateAck, StopCloses, InSendCall, Calling
  <1>3. CASE RegisterReady \/ RegisterRaises \/ Registered \/ ActivateRaises
    BY <1>3 DEF RegisterReady, RegisterRaises, Registered, StartsEngine,
       ActivateRaises
  <1>4. CASE Activated \/ ActivateSkips \/ ActivateReturns
    BY <1>4 DEF Activated, ActivateSkips, ActivateReturns, StartsEngine
  <1>5. CASE ServiceReturns \/ EngineReturns \/ Join
    BY <1>5 DEF ServiceReturns, EngineReturns, Join
  <1> QED BY <1>1, <1>2, <1>3, <1>4, <1>5 DEF MainNext

LEMMA DriverSteps == DriverNext => Calling(Driver) \/ UNCHANGED vars
  <1> SUFFICES ASSUME DriverNext PROVE Calling(Driver) \/ UNCHANGED vars
    OBVIOUS
  <1> USE DEF DriverStep, DriverDrops
  <1>1. CASE DriverReceive \/ DriverTakes \/ DriverCloses \/ DriverAck
    BY <1>1 DEF DriverReceive, DriverTakes, DriverCloses, DriverAck, Calling
  <1>2. CASE InSendCall(Driver)
    BY <1>2 DEF InSendCall, Calling
  <1>3. CASE DriverLeaves \/ DriverWaits \/ DriverTimesOut \/ DriverRaises
    BY <1>3 DEF DriverLeaves, DriverWaits, DriverTimesOut, DriverRaises
  <1>4. CASE ProcessUnexpected \/ ProcessMalformed \/ ProcessMessage
               \/ ProcessDeactivated
    BY <1>4 DEF ProcessUnexpected, ProcessMalformed, ProcessMessage,
       ProcessDeactivated
  <1>5. CASE DriverPuts
    BY <1>5 DEF DriverPuts
  <1> QED BY <1>1, <1>2, <1>3, <1>4, <1>5 DEF DriverNext

LEMMA StopperSteps ==
  StopperNext => Calling(Stopper) \/ UNCHANGED vars
  <1>1. StopperStops => UNCHANGED vars
    BY DEF StopperStops
  <1>2. StopperCloses => Calling(Stopper)
    BY DEF StopperCloses, Calling
  <1> QED BY <1>1, <1>2 DEF StopperNext

LEMMA StreamSteps == [ZDNext]_allVars => [Next]_vars
  <1> SUFFICES ASSUME [ZDNext]_allVars PROVE [Next]_vars
    OBVIOUS
  <1>1. CASE LoopStep
    BY <1>1 DEF LoopStep, Next
  <1>2. ASSUME NEW c \in Clients, Calling(c) PROVE Next
    BY <1>2 DEF Calling, Next, ClientNext
  <1>3. CASE MainNext \/ DriverNext
    BY <1>2, <1>3, MainSteps, DriverSteps, ThreadFacts
  <1>4. CASE StopperNext
    BY <1>2, <1>4, StopperSteps, ThreadFacts
  <1>5. CASE UNCHANGED allVars
    BY <1>5 DEF allVars
  <1> QED BY <1>1, <1>3, <1>4, <1>5 DEF ZDNext

\* The bridge to StreamProofs: what its theorems say of a Stream they say of
\* this one, since each action here is made of actions of Stream
\* (zmq_driver.py:45-104).
LEMMA DriverUsesStream == ZDSpec => Spec
  <1>1. ZDInit => Init
    BY DEF ZDInit
  <1> QED BY <1>1, StreamSteps, PTL DEF ZDSpec, Spec

-----------------------------------------------------------------------------
(* The threads begin and end in order.                                     *)

LEMMA ThreadsStep == ThreadsInv /\ [ZDNext]_allVars => ThreadsInv'
  <1> SUFFICES ASSUME ThreadsInv, [ZDNext]_allVars PROVE ThreadsInv'
    OBVIOUS
  <1> USE DEF ThreadsInv, BeforeEngine, mainVars, driverVars, zdVars
  <1>1. CASE LoopStep
    BY <1>1 DEF LoopStep
  <1>2. CASE MainNext
    <2> USE DEF MainStep, MainMoves
    <2>1. CASE RegisterReady \/ RegisterSend \/ RegisterRaises \/ Registered
      BY <2>1 DEF RegisterReady, RegisterSend, Sends, RegisterRaises,
         Registered, StartsEngine
    <2>2. CASE ActivateReceive \/ ActivateRaises \/ Activated \/ ActivateSkips
      BY <2>2 DEF ActivateReceive, ActivateRaises, Activated, ActivateSkips
    <2>3. CASE ActivateAck \/ ActivateReturns \/ ServiceSend
      BY <2>3 DEF ActivateAck, ActivateReturns, StartsEngine, ServiceSend,
         Sends
    <2>4. CASE ServiceReturns \/ EngineReturns \/ StopCloses \/ Join
      BY <2>4 DEF ServiceReturns, EngineReturns, StopCloses, Join
    <2>5. CASE InSendCall(Main)
      BY <2>5 DEF InSendCall
    <2> QED BY <1>2, <2>1, <2>2, <2>3, <2>4, <2>5 DEF MainNext
  <1>3. CASE StopperNext
    BY <1>3 DEF StopperNext, StopperStops, StopperCloses
  <1>4. CASE DriverNext
    <2> USE DEF DriverStep, DriverDrops, DriverMoves
    <2>1. CASE DriverReceive \/ DriverLeaves \/ DriverWaits \/ DriverTimesOut
      BY <2>1 DEF DriverReceive, DriverLeaves, DriverWaits, DriverTimesOut
    <2>2. CASE DriverTakes \/ DriverRaises \/ ProcessUnexpected
      BY <2>2 DEF DriverTakes, DriverRaises, ProcessUnexpected
    <2>3. CASE ProcessMalformed \/ ProcessMessage \/ ProcessDeactivated
                 \/ DriverCloses
      BY <2>3 DEF ProcessMalformed, ProcessMessage, ProcessDeactivated,
         DriverCloses
    <2>4. CASE DriverAck \/ DriverPuts \/ InSendCall(Driver)
      BY <2>4 DEF DriverAck, DriverPuts, InSendCall
    <2> QED BY <1>4, <2>1, <2>2, <2>3, <2>4 DEF DriverNext
  <1>5. CASE UNCHANGED allVars
    BY <1>5 DEF allVars
  <1> QED BY <1>1, <1>2, <1>3, <1>4, <1>5 DEF ZDNext

\* The driver thread exists from the start of the engine on, and has ended
\* when start returns, which joins it (zmq_driver.py:55-72).
THEOREM ThreadsInOrder == ZDSpec => []ThreadsInv
  <1>1. ZDInit => ThreadsInv
    BY DEF ZDInit, ThreadsInv, BeforeEngine
  <1> QED BY <1>1, ThreadsStep, PTL DEF ZDSpec

LEMMA NothingAfterEnd ==
  ASSUME ThreadsInv, [ZDNext]_allVars, main \in Ended
  PROVE  EngineAlone
  <1> USE DEF ThreadsInv, Ended, BeforeEngine, mainVars, driverVars, zdVars,
              EngineAlone
  <1>1. driver \in {"none", "left", "dead"}
    OBVIOUS
  <1>2. CASE LoopStep
    BY <1>2 DEF LoopStep
  <1>3. CASE MainNext
    <2> USE DEF MainStep, MainMoves
    <2>1. CASE InSendCall(Main)
      BY <2>1 DEF InSendCall
    <2>2. CASE ~InSendCall(Main)
      BY <1>3, <2>2 DEF MainNext, RegisterReady, RegisterSend, Sends,
         RegisterRaises, Registered, StartsEngine, ActivateReceive,
         ActivateRaises, Activated, ActivateSkips, ActivateAck,
         ActivateReturns, ServiceSend, ServiceReturns,
         EngineReturns, StopCloses, Join
    <2> QED BY <2>1, <2>2
  <1>4. CASE StopperNext
    BY <1>4 DEF StopperNext, StopperStops, StopperCloses
  <1>5. CASE DriverNext
    <2> USE DEF DriverStep, DriverDrops, DriverMoves
    <2>1. CASE InSendCall(Driver)
      BY <2>1 DEF InSendCall
    <2>2. CASE ~InSendCall(Driver)
      BY <1>1, <1>5, <2>2 DEF DriverNext, DriverReceive, DriverLeaves,
         DriverWaits, DriverTimesOut, DriverTakes, DriverRaises,
         ProcessUnexpected, ProcessMalformed, ProcessMessage,
         ProcessDeactivated, DriverCloses, DriverAck, DriverPuts
    <2> QED BY <2>1, <2>2
  <1>6. CASE UNCHANGED allVars
    BY <1>6 DEF allVars
  <1> QED BY <1>2, <1>3, <1>4, <1>5, <1>6 DEF ZDNext

\* Once start has returned, or an exception has left it, nothing is put on the
\* queue of updates, and Engine.stop is called by nobody but a thread of the
\* program that calls stop then (zmq_driver.py:72, 79).
THEOREM EngineIsLeftAlone == ZDSpec => NothingAfterReturn
  <1>1. ThreadsInv /\ [ZDNext]_allVars
          => [(main \in Ended) => EngineAlone]_allVars
    BY NothingAfterEnd
  <1> QED BY <1>1, ThreadsInOrder, PTL DEF ZDSpec, NothingAfterReturn

-----------------------------------------------------------------------------
(* The receive queue and the callbacks.                                    *)

LEMMA KindFacts ==
  /\ NoItem.kind \notin Kinds /\ NoItem.kind # "reconnect"
  /\ "reconnect" \notin Kinds
  BY KindsAssumption DEF NoItem

LEMMA QueueKeeps ==
  ASSUME QueueInv, UNCHANGED <<recvQueue, epoch, inbound>>
  PROVE  QueueInv'
  BY DEF QueueInv

LEMMA ConnectQueue ==
  ASSUME TypeOK, Connect
  PROVE  QueueInv'
  <1>1. CASE epoch = 0
    BY <1>1 DEF Connect, QueueInv
  <1>2. CASE epoch # 0
    <2>1. epoch' > 1
      BY <1>2 DEF Connect, TypeOK
    <2>2. recvQueue' = <<ReconnectItem>> /\ ReconnectItem.kind = "reconnect"
      BY <1>2 DEF Connect, ReconnectItem
    <2>3. \A n \in DOMAIN recvQueue' :
              n = 1 /\ recvQueue'[n].kind = "reconnect"
      BY <2>2
    <2> QED BY <2>1, <2>3, KindFacts DEF QueueInv
  <1> QED BY <1>1, <1>2

\* What is behind the head, once the head is taken.
LEMMA TakenQueue ==
  ASSUME TypeOK, QueueInv, recvQueue # <<>>, recvQueue' = Tail(recvQueue),
         UNCHANGED <<epoch, inbound>>
  PROVE  /\ QueueInv'
         /\ \A n \in DOMAIN recvQueue' :
                recvQueue'[n].kind \in Kinds /\ Head(recvQueue).kind \in Kinds
                    => Head(recvQueue).id < recvQueue'[n].id
  <1>1. recvQueue \in Seq(Items)
    BY DEF TypeOK
  <1>2. /\ \A n \in DOMAIN recvQueue' :
               /\ n \in Nat /\ n + 1 \in DOMAIN recvQueue
               /\ 1 < n + 1 /\ n + 1 # 1
               /\ recvQueue'[n] = recvQueue[n + 1]
        /\ 1 \in DOMAIN recvQueue /\ Head(recvQueue) = recvQueue[1]
    BY <1>1, TailFacts
  <1>3. ASSUME NEW n \in DOMAIN recvQueue', recvQueue'[n].kind \in Kinds
        PROVE  /\ recvQueue'[n].epoch = epoch
               /\ recvQueue'[n].id <= inbound
               /\ \A m \in DOMAIN recvQueue' :
                      m < n /\ recvQueue'[m].kind \in Kinds =>
                          recvQueue'[m].id < recvQueue'[n].id
    <2>1. /\ recvQueue[n + 1].epoch = epoch
          /\ recvQueue[n + 1].id <= inbound
          /\ \A m \in DOMAIN recvQueue :
                 m < n + 1 /\ recvQueue[m].kind \in Kinds =>
                     recvQueue[m].id < recvQueue[n + 1].id
      BY <1>2, <1>3 DEF QueueInv
    <2>2. \A m \in DOMAIN recvQueue' : m < n => m + 1 < n + 1
      BY <1>2
    <2> QED BY <1>2, <2>1, <2>2
  <1>4. \A n \in DOMAIN recvQueue' : recvQueue'[n].kind # "reconnect"
    BY <1>2 DEF QueueInv
  <1>5. QueueInv'
    BY <1>3, <1>4 DEF QueueInv
  <1>6. ASSUME NEW n \in DOMAIN recvQueue', recvQueue'[n].kind \in Kinds,
               Head(recvQueue).kind \in Kinds
        PROVE  Head(recvQueue).id < recvQueue'[n].id
    BY <1>2, <1>6 DEF QueueInv
  <1> QED BY <1>5, <1>6

LEMMA ArrivalQueue ==
  ASSUME TypeOK, QueueInv, NEW e \in Items,
         e.kind \in Kinds, e.epoch = epoch, e.id = inbound + 1,
         recvQueue' = Append(recvQueue, e),
         inbound' = inbound + 1, UNCHANGED epoch
  PROVE  QueueInv'
  <1>1. recvQueue \in Seq(Items) /\ inbound \in Nat
    BY DEF TypeOK
  <1>2. \A n \in DOMAIN recvQueue' :
            \/ n \in DOMAIN recvQueue /\ recvQueue'[n] = recvQueue[n]
            \/ n = Len(recvQueue) + 1 /\ recvQueue'[n] = e
    BY <1>1, AppendFacts
  <1>3. \A n \in DOMAIN recvQueue :
            n <= Len(recvQueue) /\ n \in Nat /\ Len(recvQueue) \in Nat
            /\ recvQueue[n].id \in Nat
    <2>1. \A n \in DOMAIN recvQueue : recvQueue[n] \in Items
      BY <1>1
    <2>2. \A x \in Items : x.id \in Nat
      BY DEF Items
    <2> QED BY <1>1, <2>1, <2>2
  <1>4. ASSUME NEW n \in DOMAIN recvQueue', recvQueue'[n].kind \in Kinds
        PROVE  /\ recvQueue'[n].epoch = epoch'
               /\ recvQueue'[n].id <= inbound'
               /\ \A m \in DOMAIN recvQueue' :
                      m < n /\ recvQueue'[m].kind \in Kinds =>
                          recvQueue'[m].id < recvQueue'[n].id
    <2>1. CASE n \in DOMAIN recvQueue
      <3>1. \A m \in DOMAIN recvQueue' : m < n => m \in DOMAIN recvQueue
        BY <1>2, <1>3, <2>1
      <3>2. recvQueue'[n] = recvQueue[n]
        BY <1>1, <2>1, AppendFacts
      <3>3. \A m \in DOMAIN recvQueue : recvQueue'[m] = recvQueue[m]
        BY <1>1, AppendFacts
      <3>4. recvQueue[n].id <= inbound /\ recvQueue[n].epoch = epoch
        BY <1>4, <2>1, <3>2 DEF QueueInv
      <3>5. recvQueue[n].id <= inbound'
        BY <1>1, <1>3, <2>1, <3>4
      <3> QED BY <1>4, <2>1, <3>1, <3>2, <3>3, <3>4, <3>5 DEF QueueInv
    <2>2. CASE n = Len(recvQueue) + 1
      <3>1. recvQueue'[n] = e
        BY <1>1, <2>2, AppendFacts
      <3>2. \A m \in DOMAIN recvQueue' :
                m < n => m \in DOMAIN recvQueue /\ recvQueue'[m] = recvQueue[m]
        BY <1>1, <1>2, <2>2
      <3>3. \A m \in DOMAIN recvQueue :
                recvQueue[m].kind \in Kinds => recvQueue[m].id < inbound + 1
        BY <1>1, <1>3 DEF QueueInv
      <3> QED BY <1>1, <3>1, <3>2, <3>3
    <2> QED BY <1>2, <2>1, <2>2
  <1>5. ASSUME NEW n \in DOMAIN recvQueue', recvQueue'[n].kind = "reconnect"
        PROVE  n = 1 /\ epoch' > 1
    BY <1>2, <1>5, KindFacts DEF QueueInv
  <1> QED BY <1>4, <1>5 DEF QueueInv

\* The message that arrives is one of the validator's own: no answer is taken
\* for one.
LEMMA InitialArrives ==
  ASSUME TypeOK, ReceiveInitial
  PROVE  \E e \in Items :
             /\ e.kind \in Kinds /\ e.epoch = epoch /\ e.id = inbound + 1
             /\ recvQueue' = Append(recvQueue, e)
  <1>1. PICK kind \in Kinds : recvQueue' = Append(recvQueue, InitialItem(kind))
    BY DEF ReceiveInitial
  <1>2. InitialItem(kind) \in Items
    BY DEF TypeOK, InitialItem, Items
  <1> QED BY <1>1, <1>2 DEF InitialItem

LEMMA AnswerArrives ==
  ASSUME IInv, NEW i \in Futures, ReceiveAnswer(i)
  PROVE  UNCHANGED recvQueue
  BY DEF IInv, PlaceInv, ReceiveAnswer

\* The clients leave the loop and the receive queue alone.
LEMMA ClientLeaves ==
  ASSUME NEW c \in Clients, ClientNext(c)
  PROVE  UNCHANGED <<threadVars, recvQueue, inbound>>
  BY DEF ClientNext, SendBegin, PutFuture, SendBackBegin, PutReturns,
     PutPasses, Schedule, Await, Wake, TimeOut, Interrupted, StopWaiting,
     Receive, Close

LEMMA QueueStep == IInv /\ QueueInv /\ [Next]_vars => QueueInv'
  <1> SUFFICES ASSUME IInv, QueueInv, [Next]_vars PROVE QueueInv'
    OBVIOUS
  <1>0. TypeOK
    BY DEF IInv
  <1>1. CASE Connect
    BY <1>0, <1>1, ConnectQueue
  <1>2. ASSUME NEW c \in Clients, GetterTakes(c) PROVE QueueInv'
    BY <1>0, <1>2, TakenQueue DEF GetterTakes
  <1>3. CASE ReceiveInitial
    <2>1. inbound' = inbound + 1 /\ UNCHANGED epoch
      BY <1>3 DEF ReceiveInitial
    <2> QED BY <1>0, <1>3, <2>1, InitialArrives, ArrivalQueue
  <1>4. CASE FailDone
    BY <1>4 DEF FailDone, QueueInv
  <1>5. ASSUME NEW i \in Futures, ReceiveAnswer(i) PROVE QueueInv'
    BY <1>5, AnswerArrives, QueueKeeps DEF ReceiveAnswer
  <1>6. CASE ConnectFails \/ RunReturns \/ MonitorDisconnect \/ IterationBroken
    BY <1>6, QueueKeeps
    DEF ConnectFails, RunReturns, MonitorDisconnect, IterationBroken
  <1>7. ASSUME NEW i \in Futures, FailFuture(i) PROVE QueueInv'
    BY <1>7, QueueKeeps DEF FailFuture
  <1>8. CASE RunPut \/ RunGet \/ RunShutdown \/ SendTask
    BY <1>8, QueueKeeps DEF RunPut, RunGet, RunShutdown, SendTask
  <1>9. ASSUME NEW c \in Clients, ShutdownCancels(c) \/ DeliverCancel(c)
        PROVE  QueueInv'
    BY <1>9, QueueKeeps DEF ShutdownCancels, DeliverCancel
  <1>10. ASSUME NEW c \in Clients, ClientNext(c) PROVE QueueInv'
    BY <1>10, ClientLeaves, QueueKeeps
  <1>11. CASE UNCHANGED vars
    BY <1>11, QueueKeeps DEF vars
  <1> QED BY <1>1, <1>2, <1>3, <1>4, <1>5, <1>6, <1>7, <1>8, <1>9, <1>10,
             <1>11 DEF Next, LoopNext

\* The receives that are called for, one for each thread at most.
LEMMA GetKeeps ==
  ASSUME GetInv, UNCHANGED <<calls, receive>>
  PROVE  GetInv'
  BY DEF GetInv, AtMostOnce, Occurs

\* The loop resolves or cancels receives that were called before.
LEMMA GetResolves ==
  ASSUME GetInv, UNCHANGED calls,
         \A c \in Clients : receive[c] = "called" => receive'[c] = "called"
  PROVE  GetInv'
  <1> SUFFICES ASSUME NEW c \in Clients
               PROVE  /\ AtMostOnce(calls, {GetCall(c)})'
                      /\ Occurs(calls, GetCall(c))' => receive'[c] = "called"
    BY DEF GetInv
  <1>1. calls' = calls
    OBVIOUS
  <1> QED BY <1>1 DEF GetInv, AtMostOnce, Occurs

LEMMA GetAppend ==
  ASSUME TypeOK, GetInv, NEW k \in Calls, \A c \in Clients : k # GetCall(c),
         calls' = Append(calls, k), UNCHANGED receive
  PROVE  GetInv'
  <1>1. calls \in Seq(Calls)
    BY DEF TypeOK
  <1>2. \A c \in Clients : AtMostOnce(Append(calls, k), {GetCall(c)})
    BY <1>1, AtMostOnceAppend DEF GetInv
  <1>3. \A c \in Clients :
            Occurs(Append(calls, k), GetCall(c)) => Occurs(calls, GetCall(c))
    BY <1>1, OccursAppend
  <1> QED BY <1>2, <1>3 DEF GetInv

LEMMA GetTail ==
  ASSUME TypeOK, GetInv, calls # <<>>,
         \A c \in Clients : Head(calls) # GetCall(c),
         calls' = Tail(calls), UNCHANGED receive
  PROVE  GetInv'
  <1>1. calls \in Seq(Calls)
    BY DEF TypeOK
  <1>2. \A c \in Clients : AtMostOnce(Tail(calls), {GetCall(c)})
    BY <1>1, AtMostOnceTail DEF GetInv
  <1>3. \A c \in Clients :
            Occurs(Tail(calls), GetCall(c)) => Occurs(calls, GetCall(c))
    BY <1>1, OccursTail
  <1> QED BY <1>2, <1>3 DEF GetInv

LEMMA GetCallFacts ==
  \A c, d \in Clients : GetCall(c) = GetCall(d) => c = d
  <1>1. \A c : GetCall(c).client = c
    BY DEF GetCall
  <1> QED BY <1>1

\* The get that runs is the only one of its client.
LEMMA GetRuns ==
  ASSUME TypeOK, GetInv, RunGet
  PROVE  /\ GetInv'
         /\ Head(calls).client \in Clients
         /\ receive[Head(calls).client] = "called"
  <1> DEFINE d == Head(calls).client
  <1>1. calls \in Seq(Calls) /\ calls # <<>> /\ calls' = Tail(calls)
    BY DEF TypeOK, RunGet
  <1>2. d \in Clients /\ Head(calls) = GetCall(d)
    BY <1>1, TailFacts, GetFacts DEF RunGet
  <1>3. receive[d] = "called"
    BY <1>1, <1>2, OccursTail DEF GetInv
  <1>4. ASSUME NEW c \in Clients
        PROVE  /\ AtMostOnce(Tail(calls), {GetCall(c)})
               /\ Occurs(Tail(calls), GetCall(c)) => receive'[c] = "called"
    <2>1. AtMostOnce(calls, {GetCall(c)})
          /\ (Occurs(calls, GetCall(c)) => receive[c] = "called")
      BY DEF GetInv
    <2>2. AtMostOnce(Tail(calls), {GetCall(c)})
          /\ (c = d => ~Occurs(Tail(calls), GetCall(c)))
      BY <1>1, <1>2, <2>1, AtMostOnceTail
    <2>3. Occurs(Tail(calls), GetCall(c)) => Occurs(calls, GetCall(c))
      BY <1>1, OccursTail
    <2>4. c # d => receive'[c] = receive[c]
      BY DEF RunGet, TypeOK
    <2> QED BY <2>1, <2>2, <2>3, <2>4
  <1>5. GetInv'
    BY <1>1, <1>4 DEF GetInv
  <1> QED BY <1>2, <1>3, <1>5

LEMMA ReceiveCalls ==
  ASSUME TypeOK, GetInv, NEW d \in Clients, Receive(d)
  PROVE  GetInv'
  <1>1. calls \in Seq(Calls) /\ GetCall(d) \in Calls
    BY CallFacts DEF TypeOK
  <1>2. /\ calls' = Append(calls, GetCall(d))
        /\ receive' = [receive EXCEPT ![d] = "called"]
        /\ receive[d] # "called"
    BY DEF Receive
  <1>3. ~Occurs(calls, GetCall(d))
    BY <1>2 DEF GetInv
  <1>4. ASSUME NEW c \in Clients
        PROVE  /\ AtMostOnce(Append(calls, GetCall(d)), {GetCall(c)})
               /\ Occurs(Append(calls, GetCall(d)), GetCall(c))
                      => receive'[c] = "called"
    <2>1. AtMostOnce(calls, {GetCall(c)})
          /\ (Occurs(calls, GetCall(c)) => receive[c] = "called")
      BY DEF GetInv
    <2>2. AtMostOnce(Append(calls, GetCall(d)), {GetCall(c)})
      BY <1>1, <1>3, <2>1, AtMostOnceAppend
    <2>3. Occurs(Append(calls, GetCall(d)), GetCall(c))
              => Occurs(calls, GetCall(c)) \/ c = d
      BY <1>1, OccursAppend, GetCallFacts
    <2>4. receive'[c] = IF c = d THEN "called" ELSE receive[c]
      BY <1>2 DEF TypeOK
    <2> QED BY <2>1, <2>2, <2>3, <2>4
  <1> QED BY <1>2, <1>4 DEF GetInv

LEMMA LoopGets ==
  ASSUME TypeOK, GetInv, LoopNext
  PROVE  GetInv'
  <1>1. CASE Connect \/ ConnectFails \/ RunReturns \/ MonitorDisconnect
    BY <1>1, GetKeeps DEF Connect, ConnectFails, RunReturns, MonitorDisconnect
  <1>2. CASE IterationBroken \/ SendTask \/ ReceiveInitial
    BY <1>2, GetKeeps DEF IterationBroken, SendTask, ReceiveInitial
  <1>3. ASSUME NEW i \in Futures, FailFuture(i) \/ ReceiveAnswer(i)
        PROVE  GetInv'
    BY <1>3, GetKeeps DEF FailFuture, ReceiveAnswer
  <1>4. CASE FailDone
    BY <1>4, GetResolves DEF FailDone
  <1>5. CASE RunPut
    <2>1. \A c \in Clients : Head(calls) # GetCall(c)
      BY <1>5 DEF RunPut, GetCall
    <2> QED BY <1>5, <2>1, GetTail DEF RunPut
  <1>6. CASE RunShutdown
    <2>1. \A c \in Clients : Head(calls) # GetCall(c)
      BY <1>6 DEF RunShutdown, GetCall
    <2> QED BY <1>6, <2>1, GetTail DEF RunShutdown
  <1>7. CASE RunGet
    BY <1>7, GetRuns
  <1>8. ASSUME NEW c \in Clients,
               ShutdownCancels(c) \/ GetterTakes(c) \/ DeliverCancel(c)
        PROVE  GetInv'
    <2>1. /\ UNCHANGED calls /\ receive[c] # "called"
          /\ \A d \in Clients : d # c => receive'[d] = receive[d]
      BY <1>8 DEF ShutdownCancels, GetterTakes, DeliverCancel, TypeOK
    <2> QED BY <2>1, GetResolves
  <1> QED BY <1>1, <1>2, <1>3, <1>4, <1>5, <1>6, <1>7, <1>8 DEF LoopNext

LEMMA ClientGets ==
  ASSUME TypeOK, GetInv, NEW c \in Clients, ClientNext(c)
  PROVE  GetInv'
  <1>1. CASE Receive(c)
    BY <1>1, ReceiveCalls
  <1>2. CASE Schedule(c)
    <2>1. PutCall(cur[c]) \in Calls
          /\ \A d \in Clients : PutCall(cur[c]) # GetCall(d)
      BY CallFacts DEF TypeOK
    <2> QED BY <1>2, <2>1, GetAppend DEF Schedule
  <1>3. CASE Close(c)
    <2> DEFINE cs == {d \in Clients : receive[d] = "waiting"}
    <2>1. ShutdownCall(cs) \in Calls
          /\ \A d \in Clients : ShutdownCall(cs) # GetCall(d)
      BY CallFacts
    <2>2. calls' = Append(calls, ShutdownCall(cs)) /\ UNCHANGED receive
      BY <1>3 DEF Close
    <2> QED BY <2>1, <2>2, GetAppend
  <1>4. CASE ~Receive(c) /\ ~Schedule(c) /\ ~Close(c)
    BY <1>4, GetKeeps
    DEF ClientNext, SendBegin, PutFuture, SendBackBegin, PutReturns,
        PutPasses, Await, Wake, TimeOut, Interrupted, StopWaiting
  <1> QED BY <1>1, <1>2, <1>3, <1>4

LEMMA GetStep == TypeOK /\ GetInv /\ [Next]_vars => GetInv'
  <1>1. ASSUME TypeOK, GetInv, UNCHANGED vars PROVE GetInv'
    BY <1>1, GetKeeps DEF vars
  <1> QED BY <1>1, LoopGets, ClientGets DEF Next

-----------------------------------------------------------------------------
(* What the steps of each thread leave alone.                              *)

LEMMA LoopLeaves ==
  ASSUME LoopNext
  PROVE  UNCHANGED <<pc, cur, closes>>
  BY DEF LoopNext, Connect, ConnectFails, RunReturns, MonitorDisconnect,
     FailFuture, IterationBroken, FailDone, RunPut, RunGet, ShutdownCancels,
     RunShutdown, GetterTakes, DeliverCancel, SendTask, ReceiveAnswer,
     ReceiveInitial

\* A client's own moves are about its own entries.
LEMMA CallingLeaves ==
  ASSUME TypeOK, NEW c \in Clients, Calling(c)
  PROVE  /\ UNCHANGED <<threadVars, recvQueue, inbound>>
         /\ \A d \in Clients : d # c =>
                /\ pc'[d] = pc[d] /\ cur'[d] = cur[d]
                /\ receive'[d] = receive[d] /\ item'[d] = item[d]
  BY DEF Calling, TypeOK, SendBegin, PutFuture, SendBackBegin, PutReturns,
     PutPasses, Schedule, Receive, Close

LEMMA MainLeaves ==
  ASSUME TypeOK, MainNext
  PROVE  /\ UNCHANGED <<threadVars, recvQueue, inbound, message, updates>>
         /\ UNCHANGED stopper
         /\ receive'[Driver] = receive[Driver] /\ item'[Driver] = item[Driver]
         /\ driver' = driver \/ (main \in BeforeEngine /\ driver' = "receive")
         /\ pc'[Stopper] = pc[Stopper] /\ receive'[Stopper] = receive[Stopper]
  <1>1. /\ UNCHANGED <<message, updates, stopper>>
        /\ driver' = driver \/ (main \in BeforeEngine /\ driver' = "receive")
    <2> USE DEF MainStep, MainMoves, driverVars, StartsEngine, Sends,
            BeforeEngine
    <2>1. CASE RegisterReady \/ RegisterSend \/ RegisterRaises \/ Registered
      BY <2>1 DEF RegisterReady, RegisterSend, RegisterRaises, Registered
    <2>2. CASE ActivateReceive \/ ActivateRaises \/ Activated \/ ActivateSkips
      BY <2>2 DEF ActivateReceive, ActivateRaises, Activated, ActivateSkips
    <2>3. CASE ActivateAck \/ ActivateReturns \/ ServiceSend
      BY <2>3 DEF ActivateAck, ActivateReturns, ServiceSend
    <2>4. CASE ServiceReturns \/ EngineReturns \/ StopCloses \/ Join
      BY <2>4 DEF ServiceReturns, EngineReturns, StopCloses, Join
    <2>5. CASE InSendCall(Main)
      BY <2>5 DEF InSendCall, zdVars
    <2> QED BY <2>1, <2>2, <2>3, <2>4, <2>5 DEF MainNext
  <1>2. CASE Calling(Main)
    BY <1>1, <1>2, CallingLeaves, ThreadFacts, ThreadsAssumption
  <1>3. CASE UNCHANGED vars
    BY <1>1, <1>3 DEF vars
  <1> QED BY <1>2, <1>3, MainSteps

LEMMA DriverLeavesMain ==
  ASSUME TypeOK, DriverNext
  PROVE  /\ UNCHANGED <<threadVars, recvQueue, inbound, mainVars, stopper>>
         /\ pc'[Stopper] = pc[Stopper] /\ receive'[Stopper] = receive[Stopper]
         /\ receive'[Main] = receive[Main] /\ item'[Main] = item[Main]
         /\ pc'[Main] = pc[Main] /\ cur'[Main] = cur[Main]
  <1>1. UNCHANGED <<mainVars, stopper>>
    <2> USE DEF DriverStep, DriverDrops, DriverMoves
    <2>1. CASE DriverReceive \/ DriverLeaves \/ DriverWaits \/ DriverTimesOut
      BY <2>1 DEF DriverReceive, DriverLeaves, DriverWaits, DriverTimesOut
    <2>2. CASE DriverTakes \/ DriverRaises \/ ProcessUnexpected
      BY <2>2 DEF DriverTakes, DriverRaises, ProcessUnexpected
    <2>3. CASE ProcessMalformed \/ ProcessMessage \/ ProcessDeactivated
                 \/ DriverCloses
      BY <2>3 DEF ProcessMalformed, ProcessMessage, ProcessDeactivated,
         DriverCloses
    <2>4. CASE DriverAck \/ DriverPuts
      BY <2>4 DEF DriverAck, DriverPuts
    <2>5. CASE InSendCall(Driver)
      BY <2>5 DEF InSendCall, zdVars
    <2> QED BY <2>1, <2>2, <2>3, <2>4, <2>5 DEF DriverNext
  <1>2. CASE Calling(Driver)
    BY <1>1, <1>2, CallingLeaves, ThreadFacts, ThreadsAssumption
  <1>3. CASE UNCHANGED vars
    BY <1>1, <1>3 DEF vars
  <1> QED BY <1>2, <1>3, DriverSteps

\* The third thread only closes, which is a call like any other.
LEMMA StopperLeaves ==
  ASSUME StopperNext
  PROVE  /\ UNCHANGED <<threadVars, recvQueue, inbound, pc, cur, receive, item>>
         /\ UNCHANGED <<mainVars, driverVars>>
         /\ epoch > 0
  <1>1. CASE StopperStops
    BY <1>1 DEF StopperStops, vars
  <1>2. CASE StopperCloses
    BY <1>2 DEF StopperCloses, Close, Idle
  <1> QED BY <1>1, <1>2 DEF StopperNext

-----------------------------------------------------------------------------
(* Types.                                                                  *)

LEMMA CountFacts ==
  ASSUME ZDTypeOK
  PROVE  /\ stops \in Nat /\ stops + 1 \in Nat
         /\ serviced \in Nat /\ serviced + 1 \in Nat
  <1>1. \A n \in Nat : n + 1 \in Nat
    OBVIOUS
  <1> QED BY <1>1 DEF ZDTypeOK

LEMMA MainTypes ==
  ASSUME TypeOK, ZDTypeOK, MainNext
  PROVE  ZDTypeOK'
  <1> USE DEF ZDTypeOK, MainStep, MainMoves, driverVars, StartsEngine,
              MainPoints, DriverPoints, Ended
  <1>0. Main \in Clients
    BY ThreadFacts
  <1>1. CASE RegisterSend \/ ServiceSend
    <2>0. stops \in Nat /\ serviced \in Nat /\ serviced + 1 \in Nat
      BY CountFacts
    <2>1. \E a, b : Sends(a, b) /\ b \in MainPoints /\ serviced' \in Nat
      <3>1. CASE RegisterSend
        BY <2>0, <3>1 DEF RegisterSend
      <3>2. CASE ServiceSend
        BY <2>0, <3>2 DEF ServiceSend
      <3> QED BY <1>1, <3>1, <3>2
    <2>2. Fresh \in Futures /\ waitFor' = Fresh /\ SendBegin(Main, Fresh)
      BY <2>1, FreshFacts DEF Sends
    <2>3. cur'[Main] = waitFor'
      BY <1>0, <2>2 DEF SendBegin, TypeOK
    <2> QED BY <2>1, <2>2, <2>3 DEF Sends, Messages
  <1>2. CASE InSendCall(Main)
    BY <1>0, <1>2
    DEF InSendCall, zdVars, mainVars, PutFuture, PutReturns, PutPasses,
        Schedule, TypeOK, Sending
  <1>3. CASE ActivateAck
    BY <1>0, <1>3 DEF ActivateAck, SendBackBegin, TypeOK
  <1>4. CASE ActivateReceive \/ StopCloses
    BY <1>4 DEF ActivateReceive, StopCloses, Receive, Close, Sending
  <1>5. CASE RegisterReady \/ RegisterRaises \/ Registered \/ ActivateRaises
    BY <1>5 DEF RegisterReady, RegisterRaises, Registered, ActivateRaises,
       vars, Sending
  <1>6. CASE Activated \/ ActivateSkips \/ ActivateReturns
    BY <1>6 DEF Activated, ActivateSkips, ActivateReturns, vars, Sending
  <1>7. CASE ServiceReturns \/ Join
    BY <1>7 DEF ServiceReturns, Join, vars, Sending
  <1>8. CASE EngineReturns
    <2>1. stops + 1 \in Nat
      BY CountFacts
    <2> QED BY <1>8, <2>1 DEF EngineReturns, vars, Sending
  <1> QED BY <1>1, <1>2, <1>3, <1>4, <1>5, <1>6, <1>7, <1>8
      DEF MainNext

LEMMA DriverTypes ==
  ASSUME TypeOK, ZDTypeOK, DriverNext
  PROVE  ZDTypeOK'
  <1>1. /\ main' \in MainPoints /\ waitFor' \in Messages /\ serviced' \in Nat
        /\ stopper' \in StopperPoints
        /\ Sending(Main)' => cur'[Main] \in {NoFuture, waitFor'}
    BY DriverLeavesMain DEF ZDTypeOK, mainVars, Sending
  <1>2. item[Driver] \in Items /\ NoItem \in Items
    BY ThreadFacts DEF TypeOK, Items, NoItem
  <1>3. /\ driver' \in DriverPoints /\ exit' \in BOOLEAN /\ stops' \in Nat
        /\ message' \in Items /\ updates' \in Seq(Items)
    <2> USE DEF ZDTypeOK, DriverStep, DriverDrops, DriverMoves, DriverPoints
    <2>0. stops \in Nat /\ stops + 1 \in Nat
      BY CountFacts
    <2>1. CASE DriverReceive \/ DriverLeaves \/ DriverWaits \/ DriverTimesOut
      BY <2>0, <2>1 DEF DriverReceive, DriverLeaves, DriverWaits, DriverTimesOut
    <2>2. CASE DriverTakes \/ DriverRaises \/ ProcessUnexpected
      BY <1>2, <2>2 DEF DriverTakes, DriverRaises, ProcessUnexpected
    <2>3. CASE ProcessMalformed \/ ProcessMessage \/ ProcessDeactivated
                 \/ DriverCloses
      BY <2>0, <2>3 DEF ProcessMalformed, ProcessMessage, ProcessDeactivated,
         DriverCloses
    <2>4. CASE DriverAck \/ DriverPuts
      BY <1>2, <2>4, AppendFacts DEF DriverAck, DriverPuts
    <2>5. CASE InSendCall(Driver)
      BY <2>5 DEF InSendCall, zdVars, driverVars
    <2> QED BY <2>1, <2>2, <2>3, <2>4, <2>5 DEF DriverNext
  <1> QED BY <1>1, <1>3 DEF ZDTypeOK

LEMMA StopperTypes ==
  ASSUME ZDTypeOK, StopperNext
  PROVE  ZDTypeOK'
  <1>1. UNCHANGED <<pc, cur, mainVars, driverVars>>
    BY StopperLeaves
  <1>2. stops \in Nat /\ stops + 1 \in Nat
    BY CountFacts
  <1>3. stopper' \in StopperPoints /\ exit' \in BOOLEAN /\ stops' \in Nat
    BY <1>2 DEF StopperNext, StopperStops, StopperCloses, StopperPoints, ZDTypeOK
  <1> QED BY <1>1, <1>3 DEF ZDTypeOK, mainVars, driverVars, Sending

LEMMA TypesStep == TypeOK /\ ZDTypeOK /\ [ZDNext]_allVars => ZDTypeOK'
  <1> SUFFICES ASSUME TypeOK, ZDTypeOK, [ZDNext]_allVars PROVE ZDTypeOK'
    OBVIOUS
  <1>1. CASE LoopStep \/ UNCHANGED allVars
    <2>1. UNCHANGED <<pc, cur, zdVars>>
      BY <1>1, LoopLeaves DEF LoopStep, allVars, vars
    <2> QED BY <2>1
      DEF ZDTypeOK, zdVars, mainVars, driverVars, Sending
  <1>2. CASE ~LoopStep /\ ~UNCHANGED allVars
    BY <1>2, MainTypes, DriverTypes, StopperTypes DEF ZDNext
  <1> QED BY <1>1, <1>2

-----------------------------------------------------------------------------
(* What each thread holds.                                                 *)

\* What a step of the loop may do to the receive of a thread.
LEMMA LoopReceives ==
  ASSUME TypeOK, GetInv, LoopNext, NEW c \in Clients
  PROVE  \/ receive'[c] = receive[c] /\ item'[c] = item[c]
         \/ /\ receive[c] = "called" /\ receive'[c] = "waiting"
            /\ item'[c] = item[c]
         \/ /\ receive[c] = "waiting"
            /\ receive'[c] \in {"cancelling", "cancelled"}
            /\ item'[c] = item[c]
         \/ /\ receive[c] = "cancelling" /\ receive'[c] = "cancelled"
            /\ item'[c] = item[c]
         \/ GetterTakes(c)
  <1>1. CASE Connect \/ ConnectFails \/ RunReturns \/ MonitorDisconnect
    BY <1>1 DEF Connect, ConnectFails, RunReturns, MonitorDisconnect
  <1>2. CASE IterationBroken \/ SendTask \/ ReceiveInitial
    BY <1>2 DEF IterationBroken, SendTask, ReceiveInitial
  <1>3. ASSUME NEW i \in Futures, FailFuture(i) \/ ReceiveAnswer(i)
        PROVE  receive'[c] = receive[c] /\ item'[c] = item[c]
    BY <1>3 DEF FailFuture, ReceiveAnswer
  <1>4. CASE RunPut \/ RunShutdown
    BY <1>4 DEF RunPut, RunShutdown
  <1>5. CASE FailDone
    BY <1>5 DEF FailDone
  <1>6. CASE RunGet
    <2>1. receive[Head(calls).client] = "called"
      BY <1>6, GetRuns
    <2>2. receive'[c] = IF c = Head(calls).client THEN "waiting"
                        ELSE receive[c]
      BY <1>6 DEF RunGet, TypeOK
    <2>3. item'[c] = item[c]
      BY <1>6 DEF RunGet
    <2> QED BY <2>1, <2>2, <2>3
  <1>7. ASSUME NEW d \in Clients, ShutdownCancels(d) \/ DeliverCancel(d)
        PROVE  /\ item'[c] = item[c]
               /\ \/ receive'[c] = receive[c]
                  \/ /\ receive[c] \in {"waiting", "cancelling"}
                     /\ receive'[c] = "cancelled"
    BY <1>7 DEF ShutdownCancels, DeliverCancel, TypeOK
  <1>8. ASSUME NEW d \in Clients, GetterTakes(d), d # c
        PROVE  receive'[c] = receive[c] /\ item'[c] = item[c]
    BY <1>8 DEF GetterTakes, TypeOK
  <1> QED BY <1>1, <1>2, <1>3, <1>4, <1>5, <1>6, <1>7, <1>8 DEF LoopNext

LEMMA LoopEpoch ==
  ASSUME TypeOK, LoopNext
  PROVE  epoch' = epoch \/ (Connect /\ epoch' = epoch + 1 /\ epoch \in Nat)
  BY DEF TypeOK, LoopNext, Connect, ConnectFails, RunReturns,
     MonitorDisconnect, FailFuture, IterationBroken, FailDone, RunPut, RunGet,
     ShutdownCancels, RunShutdown, GetterTakes, DeliverCancel, SendTask,
     ReceiveAnswer, ReceiveInitial

LEMMA StopperStep ==
  ASSUME TypeOK, GetInv, StopperInv, [ZDNext]_allVars
  PROVE  StopperInv'
  <1>0. Stopper \in Clients
    BY ThreadFacts
  <1>1. CASE LoopStep
    <2>1. UNCHANGED <<pc, stopper>> /\ LoopNext
      BY <1>1, LoopLeaves DEF LoopStep, zdVars
    <2>2. receive'[Stopper] = "none"
      BY <1>0, <2>1, LoopReceives DEF StopperInv, GetterTakes
    <2>3. epoch > 0 => epoch' > 0
      BY <2>1, LoopEpoch
    <2> QED BY <2>1, <2>2, <2>3 DEF StopperInv
  <1>2. CASE MainNext \/ DriverNext
    BY <1>2, MainLeaves, DriverLeavesMain DEF StopperInv, threadVars
  <1>3. CASE StopperNext
    BY <1>3, StopperLeaves DEF StopperInv, threadVars
  <1>4. CASE UNCHANGED allVars
    BY <1>4 DEF StopperInv, allVars, vars, zdVars
  <1> QED BY <1>1, <1>2, <1>3, <1>4 DEF ZDNext

LEMMA LoopHolds ==
  ASSUME TypeOK, GetInv, MainInv, DriverInv, LoopNext, UNCHANGED zdVars
  PROVE  MainInv' /\ DriverInv'
  <1> USE DEF zdVars, mainVars, driverVars
  <1>1. epoch > 0 => epoch' > 0
    BY LoopEpoch DEF TypeOK
  <1>2. receive[Main] \in {"none", "done"} => receive'[Main] = receive[Main]
    BY LoopReceives, ThreadFacts DEF GetterTakes
  <1>3. MainInv'
    BY <1>1, <1>2 DEF MainInv
  <1>4. receive[Driver] = "none" => receive'[Driver] = "none"
    BY LoopReceives, ThreadFacts DEF GetterTakes
  <1>5. receive[Driver] # "done" /\ receive'[Driver] # "done"
            => item'[Driver] = item[Driver]
    BY LoopReceives, ThreadFacts DEF GetterTakes, TypeOK
  <1>6. receive'[Driver] # "done" => receive[Driver] # "done"
    BY LoopReceives, ThreadFacts DEF GetterTakes
  <1> QED BY <1>3, <1>4, <1>5, <1>6 DEF DriverInv

LEMMA MainHolds ==
  ASSUME TypeOK, ThreadsInv, MainInv, DriverInv, MainNext
  PROVE  MainInv' /\ DriverInv'
  <1> USE DEF MainStep, MainMoves
  <1>1. /\ UNCHANGED <<epoch, message, updates>>
        /\ receive'[Driver] = receive[Driver]
        /\ item'[Driver] = item[Driver]
        /\ driver' = driver \/ (main \in BeforeEngine /\ driver' = "receive")
    BY MainLeaves DEF threadVars
  <1>2. DriverInv'
    BY <1>1 DEF DriverInv, ThreadsInv
  <1>3. MainInv'
    <2> USE DEF MainInv, StartsEngine, Sends, vars
    <2>1. CASE RegisterReady \/ RegisterSend \/ RegisterRaises \/ Registered
      BY <1>1, <2>1 DEF RegisterReady, RegisterSend, RegisterRaises,
         Registered, SendBegin
    <2>2. CASE ActivateReceive \/ ActivateRaises \/ Activated \/ ActivateSkips
      BY <1>1, <2>2 DEF ActivateReceive, ActivateRaises, Activated,
         ActivateSkips, Received
    <2>3. CASE ActivateAck \/ ActivateReturns \/ ServiceSend
      BY <1>1, <2>3 DEF ActivateAck, ActivateReturns, ServiceSend,
         SendBackBegin, SendBegin
    <2>4. CASE ServiceReturns \/ EngineReturns \/ StopCloses \/ Join
      BY <1>1, <2>4 DEF ServiceReturns, EngineReturns, StopCloses, Join, Close
    <2>5. CASE InSendCall(Main)
      BY <1>1, <2>5 DEF InSendCall, zdVars, mainVars, PutFuture, PutReturns,
         PutPasses, Schedule
    <2> QED BY <2>1, <2>2, <2>3, <2>4, <2>5 DEF MainNext
  <1> QED BY <1>2, <1>3

LEMMA DriverHolds ==
  ASSUME TypeOK, ZDTypeOK, MainInv, DriverInv, DriverNext
  PROVE  MainInv' /\ DriverInv'
  <1>1. MainInv'
    BY DriverLeavesMain DEF MainInv, mainVars
  <1>2. DriverInv'
    <2> USE DEF DriverInv, DriverStep, DriverDrops, DriverMoves, vars
    <2>1. CASE DriverReceive
      BY <2>1, ThreadFacts DEF DriverReceive, Receive, TypeOK
    <2>2. CASE DriverTakes
      BY <2>2, ThreadFacts DEF DriverTakes, Receive, TypeOK
    <2>3. CASE DriverLeaves \/ DriverWaits \/ DriverTimesOut \/ DriverRaises
      BY <2>3 DEF DriverLeaves, DriverWaits, DriverTimesOut, DriverRaises
    <2>4. CASE ProcessUnexpected \/ ProcessMalformed
      BY <2>4 DEF ProcessUnexpected, ProcessMalformed
    <2>5. CASE ProcessMessage \/ ProcessDeactivated
      <3>1. message.kind \in {"notify", "ping", "deactivated"}
                => message.kind \in Kinds
        BY DEF ZDTypeOK, Items
      <3> QED BY <2>5, <3>1 DEF ProcessMessage, ProcessDeactivated
    <2>6. CASE DriverCloses \/ DriverAck
      BY <2>6 DEF DriverCloses, DriverAck, Close, SendBackBegin
    <2>7. CASE DriverPuts
      <3>1. message \in Items /\ updates \in Seq(Items)
            /\ message.kind \in Kinds
        BY <2>7 DEF DriverPuts, ZDTypeOK
      <3>2. \A n \in DOMAIN updates' : updates'[n].kind \in Kinds
        BY <2>7, <3>1, AppendFacts DEF DriverPuts
      <3> QED BY <2>7, <3>2 DEF DriverPuts
    <2>8. CASE InSendCall(Driver)
      BY <2>8 DEF InSendCall, zdVars, driverVars, PutFuture, PutReturns,
         PutPasses, Schedule
    <2> QED BY <2>1, <2>2, <2>3, <2>4, <2>5, <2>6, <2>7, <2>8 DEF DriverNext
  <1> QED BY <1>1, <1>2

-----------------------------------------------------------------------------
(* What reached the driver thread, and what it will see next.              *)

LEMMA SeenSame ==
  ASSUME UNCHANGED <<message, updates>>, item'[Driver] = item[Driver]
  PROVE  Seen' = Seen
  BY DEF Seen

LEMMA SeenItems ==
  ASSUME TypeOK, ZDTypeOK
  PROVE  \A m \in Seen : m \in Items /\ m.id \in Nat /\ m.epoch \in Nat
  <1>1. \A m \in Seen : m \in Items
    <2>1. \A n \in DOMAIN updates : updates[n] \in Items
      BY DEF ZDTypeOK
    <2>2. message \in Items /\ item[Driver] \in Items
      BY ThreadFacts DEF TypeOK, ZDTypeOK
    <2> QED BY <2>1, <2>2 DEF Seen
  <1> QED BY <1>1 DEF Items

\* Before it receives, nothing has reached it.
LEMMA NothingSeen ==
  ASSUME DriverInv, driver \in {"none", "receive"}
  PROVE  Seen = {} /\ ~Unaware
  BY KindFacts DEF DriverInv, Seen, Unaware

LEMMA SeenKeeps ==
  ASSUME SeenInv, Seen' \subseteq Seen, Unaware' => Unaware,
         MarkerAhead => MarkerAhead', UNCHANGED <<recvQueue, epoch, inbound>>
  PROVE  SeenInv'
  <1> SUFFICES ASSUME NEW m \in Seen'
               PROVE  /\ m.id <= inbound'
                      /\ Unaware' => m.epoch = epoch' \/ MarkerAhead'
                      /\ \A n \in DOMAIN recvQueue' :
                             recvQueue'[n].kind \in Kinds
                                 /\ recvQueue'[n].epoch = m.epoch
                                     => m.id < recvQueue'[n].id
    BY DEF SeenInv
  <1> QED BY DEF SeenInv

\* A loop step does not bring an unaware thread about.
LEMMA LoopUnaware ==
  ASSUME TypeOK, GetInv, DriverInv, LoopNext, UNCHANGED zdVars, Unaware'
  PROVE  Unaware
  BY LoopReceives, ThreadFacts, KindFacts
  DEF Unaware, DriverInv, GetterTakes, zdVars, driverVars

\* What the driver thread's receive takes from the queue.
LEMMA TakesHead ==
  ASSUME TypeOK, GetterTakes(Driver)
  PROVE  /\ recvQueue # <<>> /\ recvQueue' = Tail(recvQueue)
         /\ Head(recvQueue) = recvQueue[1] /\ 1 \in DOMAIN recvQueue
         /\ Head(recvQueue) \in Items
         /\ item'[Driver] = Head(recvQueue) /\ receive[Driver] = "waiting"
         /\ LoopRuns /\ UNCHANGED <<threadVars, inbound>>
  <1>1. recvQueue \in Seq(Items) /\ recvQueue # <<>>
    BY DEF TypeOK, GetterTakes
  <1> QED BY <1>1, TailFacts, ThreadFacts DEF GetterTakes, TypeOK

\* An unaware thread takes a message of the connection of those before it.
LEMMA TakesNext ==
  ASSUME TypeOK, QueueInv, SeenInv, GetterTakes(Driver), Unaware,
         Head(recvQueue).kind # "reconnect"
  PROVE  \A m \in Seen : /\ m.epoch = epoch
                         /\ Head(recvQueue).kind \in Kinds =>
                                Before(m, Head(recvQueue))
  <1>1. ~MarkerAhead
    BY TakesHead DEF MarkerAhead, LoopRuns
  <1>2. Head(recvQueue).kind \in Kinds => Head(recvQueue).epoch = epoch
    BY TakesHead DEF QueueInv
  <1>3. \A m \in Seen : m.epoch = epoch
    BY <1>1 DEF SeenInv
  <1> QED BY <1>2, <1>3, TakesHead DEF SeenInv, Before

LEMMA TakeSeen ==
  ASSUME TypeOK, ZDTypeOK, QueueInv, SeenInv, GetterTakes(Driver),
         UNCHANGED <<message, updates>>, Unaware' => Unaware
  PROVE  SeenInv'
  <1> DEFINE h == Head(recvQueue)
  <1>1. /\ UNCHANGED <<epoch, inbound>>
        /\ QueueInv'
        /\ \A n \in DOMAIN recvQueue' :
               recvQueue'[n].kind \in Kinds /\ h.kind \in Kinds
                   => h.id < recvQueue'[n].id
    BY TakesHead, TakenQueue DEF threadVars
  <1>2. \A n \in DOMAIN recvQueue' :
            \E k \in DOMAIN recvQueue : recvQueue'[n] = recvQueue[k]
    <2>1. recvQueue \in Seq(Items)
      BY DEF TypeOK
    <2> QED BY <2>1, TakesHead, TailFacts
  <1>3. Unaware' => Unaware /\ h.kind # "reconnect"
    BY TakesHead DEF Unaware
  <1>4. h.kind \in Kinds => h.id <= inbound /\ h.epoch = epoch
    BY TakesHead DEF QueueInv
  <1>5. \A m \in Seen' : m \in Seen \/ (m = h /\ h.kind \in Kinds)
    BY TakesHead DEF Seen
  <1>6. ASSUME NEW m \in Seen
        PROVE  /\ m.id <= inbound'
               /\ Unaware' => m.epoch = epoch'
               /\ \A n \in DOMAIN recvQueue' :
                      recvQueue'[n].kind \in Kinds
                          /\ recvQueue'[n].epoch = m.epoch
                              => m.id < recvQueue'[n].id
    BY <1>1, <1>2, <1>3, TakesNext DEF SeenInv
  <1> QED BY <1>1, <1>3, <1>4, <1>5, <1>6 DEF SeenInv

LEMMA ArrivalSeen ==
  ASSUME TypeOK, ZDTypeOK, SeenInv, ReceiveInitial, Seen' = Seen,
         Unaware' => Unaware
  PROVE  SeenInv'
  <1>1. PICK e \in Items : /\ e.epoch = epoch /\ e.id = inbound + 1
                           /\ recvQueue' = Append(recvQueue, e)
    BY InitialArrives
  <1>2. /\ recvQueue \in Seq(Items) /\ inbound \in Nat
        /\ loop = "running" /\ inbound' = inbound + 1
        /\ UNCHANGED <<loop, epoch>>
    BY DEF TypeOK, ReceiveInitial, threadVars
  <1>3. MarkerAhead => MarkerAhead'
    <2>1. recvQueue # <<>> =>
            recvQueue' # <<>> /\ Head(recvQueue') = Head(recvQueue)
      BY <1>1, <1>2
    <2> QED BY <1>2, <2>1 DEF MarkerAhead
  <1>4. ASSUME NEW m \in Seen
        PROVE  m.id <= inbound /\ m.id <= inbound' /\ m.id < inbound + 1
    BY <1>2, <1>4, SeenItems DEF SeenInv
  <1>5. ASSUME NEW m \in Seen, NEW n \in DOMAIN recvQueue',
               recvQueue'[n].kind \in Kinds, recvQueue'[n].epoch = m.epoch
        PROVE  m.id < recvQueue'[n].id
    <2>1. CASE n \in DOMAIN recvQueue
      BY <1>1, <1>2, <1>5, <2>1, AppendFacts DEF SeenInv
    <2>2. CASE n = Len(recvQueue) + 1
      BY <1>1, <1>2, <1>4, <2>2, AppendFacts
    <2> QED BY <1>1, <1>2, <2>1, <2>2, AppendFacts
  <1>6. \A m \in Seen : Unaware' => m.epoch = epoch' \/ MarkerAhead'
    BY <1>2, <1>3 DEF SeenInv
  <1> QED BY <1>4, <1>5, <1>6 DEF SeenInv

LEMMA ConnectSeen ==
  ASSUME TypeOK, ThreadsInv, MainInv, DriverInv, SeenInv, Connect,
         Seen' = Seen
  PROVE  SeenInv'
  <1>1. CASE driver = "none"
    BY <1>1, NothingSeen DEF SeenInv
  <1>2. CASE driver # "none"
    <2>1. epoch > 0 /\ epoch \in Nat
      BY <1>2 DEF ThreadsInv, MainInv, BeforeEngine, TypeOK
    <2>2. recvQueue' = <<ReconnectItem>> /\ ReconnectItem.kind = "reconnect"
      BY <2>1 DEF Connect, ReconnectItem
    <2>3. \A n \in DOMAIN recvQueue' : recvQueue'[n].kind \notin Kinds
      BY <2>2, KindFacts
    <2>4. MarkerAhead'
      BY <2>2 DEF MarkerAhead
    <2>5. inbound' = inbound
      BY DEF Connect
    <2> QED BY <2>3, <2>4, <2>5 DEF SeenInv
  <1> QED BY <1>1, <1>2

\* The main thread takes nothing once there is a driver thread.
LEMMA MainTakesBefore ==
  ASSUME ThreadsInv, MainInv, StopperInv,
         NEW c \in Clients, GetterTakes(c), c # Driver
  PROVE  driver = "none"
  <1>1. c = Main /\ receive[Main] = "waiting"
    BY ThreadsAssumption DEF GetterTakes, StopperInv
  <1> QED BY <1>1 DEF MainInv, ThreadsInv, BeforeEngine

LEMMA LoopSeen ==
  ASSUME IInv, ZDTypeOK, ThreadsInv, QueueInv, GetInv, MainInv, DriverInv,
         StopperInv, SeenInv, LoopNext, UNCHANGED zdVars
  PROVE  SeenInv'
  <1>0. TypeOK /\ UNCHANGED <<driver, message, updates>>
    BY DEF IInv, zdVars, driverVars
  <1>1. Unaware' => Unaware
    BY <1>0, LoopUnaware
  <1>2. ~GetterTakes(Driver) => Seen' = Seen
    BY <1>0, LoopReceives, ThreadFacts, SeenSame
  <1>3. CASE GetterTakes(Driver)
    BY <1>0, <1>1, <1>3, TakeSeen
  <1>4. ASSUME NEW c \in Clients, c # Driver, GetterTakes(c)
        PROVE  SeenInv'
    <2>1. driver = "none" /\ item'[Driver] = item[Driver]
      BY <1>0, <1>4, MainTakesBefore, ThreadFacts DEF GetterTakes, TypeOK
    <2>2. Seen' = {}
      BY <1>0, <2>1, SeenSame, NothingSeen
    <2> QED BY <2>2 DEF SeenInv
  <1> SUFFICES ASSUME \A c \in Clients : ~GetterTakes(c) PROVE SeenInv'
    BY <1>3, <1>4
  <1>5. Seen' = Seen
    BY <1>2, ThreadFacts
  <1>6. CASE Connect
    BY <1>0, <1>5, <1>6, ConnectSeen
  <1>7. CASE ReceiveInitial
    BY <1>0, <1>1, <1>5, <1>7, ArrivalSeen
  <1>8. CASE FailDone
    BY <1>5, <1>8 DEF FailDone, SeenInv, MarkerAhead
  <1>9. ASSUME UNCHANGED <<recvQueue, epoch, inbound>>,
               MarkerAhead => MarkerAhead'
        PROVE  SeenInv'
    BY <1>1, <1>5, <1>9, SeenKeeps
  <1>10. ASSUME NEW i \in Futures, FailFuture(i) \/ ReceiveAnswer(i)
         PROVE  SeenInv'
    <2>1. UNCHANGED <<loop, recvQueue, epoch, inbound>>
      BY <1>10, AnswerArrives DEF FailFuture, ReceiveAnswer
    <2> QED BY <1>9, <2>1 DEF MarkerAhead
  <1>11. CASE ConnectFails \/ RunReturns \/ MonitorDisconnect
               \/ IterationBroken
    BY <1>9, <1>11 DEF ConnectFails, RunReturns, MonitorDisconnect,
       IterationBroken, MarkerAhead
  <1>12. CASE RunPut \/ RunGet \/ RunShutdown \/ SendTask
    BY <1>9, <1>12 DEF RunPut, RunGet, RunShutdown, SendTask, MarkerAhead
  <1>13. ASSUME NEW c \in Clients, ShutdownCancels(c) \/ DeliverCancel(c)
         PROVE  SeenInv'
    BY <1>9, <1>13 DEF ShutdownCancels, DeliverCancel, MarkerAhead
  <1> QED BY <1>6, <1>7, <1>8, <1>10, <1>11, <1>12, <1>13 DEF LoopNext

\* Nor does a step of the main thread, or of the driver thread itself, which
\* only passes on what it holds.
LEMMA MainSeen ==
  ASSUME TypeOK, ThreadsInv, DriverInv, MainNext
  PROVE  /\ Seen' = Seen /\ (Unaware' => Unaware)
         /\ UNCHANGED <<threadVars, recvQueue, inbound, message, updates>>
         /\ item'[Driver] = item[Driver]
  <1>1. /\ UNCHANGED <<threadVars, recvQueue, inbound, message, updates>>
        /\ receive'[Driver] = receive[Driver]
        /\ item'[Driver] = item[Driver]
        /\ driver' = driver \/ (main \in BeforeEngine /\ driver' = "receive")
    BY MainLeaves
  <1>2. Unaware' => Unaware
    BY <1>1 DEF Unaware, ThreadsInv, DriverInv
  <1> QED BY <1>1, <1>2, SeenSame

LEMMA DriverSeen ==
  ASSUME TypeOK, DriverInv, DriverNext
  PROVE  Seen' \subseteq Seen /\ (Unaware' => Unaware \/ Seen = {})
  <1> USE DEF DriverStep, DriverDrops, DriverMoves
  <1>1. CASE DriverReceive
    <2>1. item'[Driver] = NoItem /\ UNCHANGED <<message, updates>>
      BY <1>1, ThreadFacts DEF DriverReceive, Receive, TypeOK
    <2>2. driver = "receive"
      BY <1>1 DEF DriverReceive
    <2> QED BY <2>1, <2>2, NothingSeen, KindFacts DEF Seen
  <1>2. CASE DriverTakes
    <2>1. /\ item'[Driver] = NoItem /\ message' = item[Driver]
          /\ message = NoItem /\ updates' = updates
          /\ receive[Driver] = "done" /\ driver = "wait"
      BY <1>2, ThreadFacts DEF DriverTakes, Receive, TypeOK, DriverInv
    <2> QED BY <2>1, KindFacts DEF Seen, Unaware
  <1>3. CASE ProcessUnexpected \/ ProcessMalformed \/ DriverRaises
    <2>1. /\ message' \in {message, NoItem} /\ UNCHANGED updates
          /\ UNCHANGED <<receive, item>>
          /\ driver' = "dead" \/ message.kind \in {"activated", "other"}
          /\ driver \in {"process", "wait", "ack"}
      BY <1>3 DEF ProcessUnexpected, ProcessMalformed, DriverRaises, vars
    <2> QED BY <2>1, KindFacts DEF Seen, Unaware
  <1>4. CASE DriverPuts
    <2>1. /\ message' = NoItem /\ UNCHANGED <<receive, item>>
          /\ updates' \in {updates, Append(updates, message)}
          /\ driver = "put" /\ message.kind \in Kinds
      BY <1>4 DEF DriverPuts, vars, DriverInv
    <2>2. \A n \in DOMAIN updates' :
              \/ n \in DOMAIN updates /\ updates'[n] = updates[n]
              \/ updates'[n] = message
      BY <2>1
    <2> QED BY <2>1, <2>2, KindFacts DEF Seen, Unaware
  <1>5. ASSUME UNCHANGED <<message, updates>>, item'[Driver] = item[Driver],
               receive'[Driver] = receive[Driver],
               driver' = driver \/ driver \notin {"none", "left", "dead"}
        PROVE  Seen' \subseteq Seen /\ (Unaware' => Unaware)
    BY <1>5, SeenSame DEF Unaware
  <1>6. CASE DriverLeaves \/ DriverWaits \/ DriverTimesOut
    BY <1>5, <1>6 DEF DriverLeaves, DriverWaits, DriverTimesOut, vars
  <1>7. CASE ProcessMessage \/ ProcessDeactivated \/ DriverCloses \/ DriverAck
    BY <1>5, <1>7 DEF ProcessMessage, ProcessDeactivated, DriverCloses,
       DriverAck, vars, Close, SendBackBegin
  <1>8. CASE InSendCall(Driver)
    BY <1>5, <1>8 DEF InSendCall, zdVars, driverVars, PutFuture, PutReturns,
       PutPasses, Schedule
  <1> QED BY <1>1, <1>2, <1>3, <1>4, <1>6, <1>7, <1>8 DEF DriverNext

LEMMA ThreadSeen ==
  ASSUME TypeOK, ThreadsInv, DriverInv, SeenInv, MainNext \/ DriverNext
  PROVE  SeenInv'
  <1>1. /\ Seen' \subseteq Seen /\ (Unaware' => Unaware \/ Seen = {})
        /\ UNCHANGED <<threadVars, recvQueue, inbound>>
    BY MainSeen, DriverSeen, DriverLeavesMain
  <1>2. UNCHANGED <<recvQueue, epoch, inbound>> /\ (MarkerAhead => MarkerAhead')
    BY <1>1 DEF threadVars, MarkerAhead
  <1>3. CASE Seen = {}
    BY <1>1, <1>3 DEF SeenInv
  <1>4. CASE Seen # {}
    BY <1>1, <1>2, <1>4, SeenKeeps
  <1> QED BY <1>3, <1>4

-----------------------------------------------------------------------------
(* The order of the updates.                                               *)

LEMMA OrderKeeps ==
  ASSUME OrderInv, UNCHANGED <<message, updates>>,
         Unaware' => Unaware, item'[Driver] = item[Driver]
  PROVE  OrderInv'
  BY DEF OrderInv, UpdatesInOrder

LEMMA LoopOrder ==
  ASSUME IInv, ThreadsInv, QueueInv, GetInv, DriverInv, SeenInv, OrderInv,
         LoopNext, UNCHANGED zdVars
  PROVE  OrderInv'
  <1>0. TypeOK /\ UNCHANGED <<driver, message, updates>>
    BY DEF IInv, zdVars, driverVars
  <1>1. Unaware' => Unaware
    BY <1>0, LoopUnaware
  <1>2. CASE ~GetterTakes(Driver)
    BY <1>0, <1>1, <1>2, LoopReceives, ThreadFacts, OrderKeeps
  <1>3. CASE GetterTakes(Driver)
    <2>1. UpdatesInOrder' /\ (message'.kind \in Kinds =>
              \A n \in DOMAIN updates' : Before(updates'[n], message'))
      BY <1>0 DEF OrderInv, UpdatesInOrder
    <2>2. ASSUME Unaware', item'[Driver].kind \in Kinds
          PROVE  \A m \in Seen : Before(m, item'[Driver])
      <3>1. item'[Driver] = Head(recvQueue)
        BY <1>0, <1>3, TakesHead
      <3>2. Head(recvQueue).kind # "reconnect"
        BY <2>2, <3>1 DEF Unaware
      <3> QED BY <1>0, <1>1, <1>3, <2>2, <3>1, <3>2, TakesNext
    <2>3. \A n \in DOMAIN updates : updates[n] \in Seen
      BY DEF DriverInv, Seen
    <2>4. message.kind \in Kinds => message \in Seen
      BY DEF Seen
    <2> QED BY <1>0, <2>1, <2>2, <2>3, <2>4 DEF OrderInv
  <1> QED BY <1>2, <1>3

LEMMA PutsOrder ==
  ASSUME TypeOK, ZDTypeOK, DriverInv, OrderInv, DriverPuts
  PROVE  OrderInv'
  <1>1. /\ message' = NoItem /\ UNCHANGED <<receive, item>>
        /\ driver = "put" /\ message.kind \in Kinds
        /\ message.kind \in {"notify", "ping", "deactivated"}
        /\ updates \in Seq(Items) /\ message \in Items
        /\ Unaware' => Unaware
    BY KindFacts DEF DriverPuts, DriverMoves, vars, DriverInv, ZDTypeOK, Unaware
  <1>2. CASE message.kind = "ping"
    <2>1. updates' = updates
      BY <1>2 DEF DriverPuts
    <2> QED BY <1>1, <2>1, KindFacts DEF OrderInv, UpdatesInOrder
  <1>3. CASE message.kind # "ping"
    <2>1. updates' = Append(updates, message)
      BY <1>3 DEF DriverPuts
    <2>2. \A n \in DOMAIN updates' :
              \/ n \in DOMAIN updates /\ updates'[n] = updates[n]
              \/ n = Len(updates) + 1 /\ updates'[n] = message
      BY <1>1, <2>1, AppendFacts
    <2>3. \A n \in DOMAIN updates : Before(updates[n], message)
      BY <1>1 DEF OrderInv
    <2>4. UpdatesInOrder'
      <3>1. \A n \in DOMAIN updates' :
                updates'[n].kind \in {"notify", "deactivated"}
        BY <1>1, <1>3, <2>2 DEF OrderInv, UpdatesInOrder
      <3>2. \A m, n \in DOMAIN updates' : updates'[m].epoch = updates'[n].epoch
        BY <2>2, <2>3 DEF OrderInv, UpdatesInOrder, Before
      <3>3. ASSUME NEW m \in DOMAIN updates', NEW n \in DOMAIN updates', m < n
            PROVE  updates'[m].id < updates'[n].id
        <4>1. m \in DOMAIN updates /\ updates'[m] = updates[m]
          BY <1>1, <2>2, <3>3, AppendFacts
        <4> QED BY <2>2, <2>3, <3>3, <4>1
              DEF OrderInv, UpdatesInOrder, Before
      <3> QED BY <3>1, <3>2, <3>3 DEF UpdatesInOrder
    <2>5. ASSUME Unaware', item'[Driver].kind \in Kinds
          PROVE  \A n \in DOMAIN updates' : Before(updates'[n], item'[Driver])
      BY <1>1, <2>2, <2>5 DEF OrderInv
    <2> QED BY <1>1, <2>4, <2>5, KindFacts DEF OrderInv
  <1> QED BY <1>2, <1>3

LEMMA DriverOrder ==
  ASSUME TypeOK, ZDTypeOK, DriverInv, OrderInv, DriverNext
  PROVE  OrderInv'
  <1> USE DEF DriverStep, DriverDrops, DriverMoves
  <1>1. CASE DriverReceive
    <2>1. /\ item'[Driver] = NoItem /\ UNCHANGED <<message, updates>>
      BY <1>1, ThreadFacts DEF DriverReceive, Receive, TypeOK
    <2> QED BY <2>1, KindFacts DEF OrderInv, UpdatesInOrder
  <1>2. CASE DriverTakes
    <2>1. /\ item'[Driver] = NoItem /\ message' = item[Driver]
          /\ message = NoItem /\ updates' = updates
          /\ receive[Driver] = "done" /\ driver = "wait"
      BY <1>2, ThreadFacts DEF DriverTakes, Receive, TypeOK, DriverInv
    <2>2. item[Driver].kind \in Kinds => Unaware
      BY <2>1, KindFacts DEF Unaware
    <2> QED BY <2>1, <2>2, KindFacts DEF OrderInv, UpdatesInOrder
  <1>3. CASE ProcessUnexpected \/ ProcessMalformed \/ DriverRaises
    <2>1. /\ message' \in {message, NoItem} /\ UNCHANGED updates
          /\ UNCHANGED <<receive, item>>
          /\ driver' = "dead" \/ message.kind \in {"activated", "other"}
          /\ driver \in {"process", "wait", "ack"}
      BY <1>3 DEF ProcessUnexpected, ProcessMalformed, DriverRaises, vars
    <2>2. Unaware' => Unaware
      BY <2>1 DEF Unaware
    <2> QED BY <2>1, <2>2, KindFacts DEF OrderInv, UpdatesInOrder
  <1>4. CASE DriverPuts
    BY <1>4, PutsOrder
  <1>5. ASSUME UNCHANGED <<message, updates>>, item'[Driver] = item[Driver],
               receive'[Driver] = receive[Driver],
               driver' = driver \/ driver \notin {"none", "left", "dead"}
        PROVE  OrderInv'
    <2>1. Unaware' => Unaware
      BY <1>5 DEF Unaware
    <2> QED BY <1>5, <2>1, OrderKeeps
  <1>6. CASE DriverLeaves \/ DriverWaits \/ DriverTimesOut
    BY <1>5, <1>6 DEF DriverLeaves, DriverWaits, DriverTimesOut, vars
  <1>7. CASE ProcessMessage \/ ProcessDeactivated \/ DriverCloses \/ DriverAck
    BY <1>5, <1>7 DEF ProcessMessage, ProcessDeactivated, DriverCloses,
       DriverAck, vars, Close, SendBackBegin
  <1>8. CASE InSendCall(Driver)
    BY <1>5, <1>8 DEF InSendCall, zdVars, driverVars, PutFuture, PutReturns,
       PutPasses, Schedule
  <1> QED BY <1>1, <1>2, <1>3, <1>4, <1>6, <1>7, <1>8 DEF DriverNext

-----------------------------------------------------------------------------
(* What ends the driver thread.                                            *)

LEMMA LoopReady ==
  ASSUME LoopNext
  PROVE  Connect \/ (readyEvent' => readyEvent)
  BY DEF LoopNext, ConnectFails, RunReturns, MonitorDisconnect, FailFuture,
     IterationBroken, FailDone, RunPut, RunGet, ShutdownCancels, RunShutdown,
     GetterTakes, DeliverCancel, SendTask, ReceiveAnswer, ReceiveInitial

\* Only the loss of the connection, or a close, cancels what waits.
LEMMA LoopCancels ==
  ASSUME IInv, GetInv, LoopNext, receive[Driver] = "waiting",
         receive'[Driver] \in {"cancelling", "cancelled"}
  PROVE  Shutdown \/ ~readyEvent'
  <1>0. TypeOK /\ Driver \in Clients
    BY ThreadFacts DEF IInv
  <1>1. CASE FailDone
    BY <1>1 DEF FailDone, IInv, LoopInv
  <1>2. ASSUME NEW c \in Clients, ShutdownCancels(c)
        PROVE  Shutdown
    <2>1. calls \in Seq(Calls) /\ calls # <<>> /\ Head(calls).kind = "shutdown"
      BY <1>0, <1>2 DEF TypeOK, ShutdownCancels
    <2>2. PICK cs \in SUBSET Clients : Head(calls) = ShutdownCall(cs)
      BY <2>1, TailFacts, ShutdownFacts
    <2>3. Occurs(calls, ShutdownCall(cs))
      BY <2>1, <2>2, OccursTail
    <2> QED BY <2>3 DEF IInv, CloseInv
  <1>3. CASE Connect \/ ConnectFails \/ RunReturns \/ MonitorDisconnect
    BY <1>3 DEF Connect, ConnectFails, RunReturns, MonitorDisconnect
  <1>4. CASE IterationBroken \/ SendTask \/ ReceiveInitial
    BY <1>4 DEF IterationBroken, SendTask, ReceiveInitial
  <1>5. ASSUME NEW i \in Futures, FailFuture(i) \/ ReceiveAnswer(i)
        PROVE  FALSE
    BY <1>5 DEF FailFuture, ReceiveAnswer
  <1>6. CASE RunPut \/ RunShutdown
    BY <1>6 DEF RunPut, RunShutdown
  <1>7. CASE RunGet
    BY <1>0, <1>7 DEF RunGet, TypeOK
  <1>8. ASSUME NEW c \in Clients, GetterTakes(c) \/ DeliverCancel(c)
        PROVE  FALSE
    BY <1>0, <1>8 DEF GetterTakes, DeliverCancel, TypeOK
  <1> QED BY <1>1, <1>2, <1>3, <1>4, <1>5, <1>6, <1>7, <1>8 DEF LoopNext

LEMMA LoopServes ==
  ASSUME IInv, ThreadsInv, QueueInv, GetInv, MainInv, DriverInv, ServesInv,
         LoopNext, UNCHANGED zdVars
  PROVE  ServesInv'
  <1> USE DEF zdVars, mainVars, driverVars
  <1>0. /\ TypeOK /\ Driver \in Clients /\ epoch \in Nat
        /\ Shutdown' = Shutdown
    BY ThreadFacts, LoopLeaves DEF IInv, TypeOK, Shutdown
  <1>1. driver # "none" => epoch > 0
    BY DEF ThreadsInv, MainInv, BeforeEngine
  <1>2. epoch > 1 => epoch' > 1
    BY <1>0, LoopEpoch
  <1>3. driver # "none" /\ ~readyEvent => epoch' > 1 \/ ~readyEvent'
    <2>1. Connect => epoch' = epoch + 1
      BY DEF Connect
    <2> QED BY <1>0, <1>1, <2>1, LoopReady
  <1>4. \/ item'[Driver] = item[Driver]
        \/ /\ item'[Driver].kind = "reconnect" => epoch > 1
           /\ receive'[Driver] = "done"
    <2>1. CASE ~GetterTakes(Driver)
      BY <1>0, <2>1, LoopReceives
    <2>2. CASE GetterTakes(Driver)
      <3>1. item'[Driver].kind = "reconnect" => epoch > 1
        BY <1>0, <2>2, TakesHead DEF QueueInv
      <3> QED BY <1>0, <2>2, <3>1 DEF GetterTakes, TypeOK
    <2> QED BY <2>1, <2>2
  <1>5. ASSUME receive'[Driver] \in {"cancelling", "cancelled"}, ~exit
        PROVE  epoch' > 1 \/ ~readyEvent'
    <2>1. receive[Driver] \in {"waiting", "cancelling", "cancelled"}
      BY <1>0, <1>5, LoopReceives DEF GetterTakes, TypeOK
    <2>2. CASE receive[Driver] = "waiting"
      BY <1>0, <1>5, <2>2, LoopCancels DEF ServesInv
    <2>3. CASE receive[Driver] \in {"cancelling", "cancelled"}
      <3>1. driver # "none"
        BY <2>3 DEF DriverInv
      <3>2. epoch > 1 \/ ~readyEvent
        BY <1>5, <2>3 DEF ServesInv
      <3> QED BY <1>2, <1>3, <3>1, <3>2
    <2> QED BY <2>1, <2>2, <2>3
  <1>6. DriverServes'
    BY <1>2, <1>3 DEF ServesInv, DriverServes
  <1>7. "reconnect" \in {message'.kind, item'[Driver].kind} => epoch' > 1
    BY <1>2, <1>4 DEF ServesInv
  <1> QED BY <1>0, <1>5, <1>6, <1>7 DEF ServesInv

LEMMA MainServes ==
  ASSUME TypeOK, ThreadsInv, ServesInv, MainNext
  PROVE  ServesInv'
  <1>1. /\ UNCHANGED <<epoch, readyEvent, message, stopper>>
        /\ receive'[Driver] = receive[Driver]
        /\ item'[Driver] = item[Driver]
        /\ driver' = driver
               \/ (main \in BeforeEngine /\ driver' = "receive")
    BY MainLeaves DEF threadVars
  <1>2. CASE EngineReturns
    BY <1>1, <1>2 DEF EngineReturns, MainMoves, vars, driverVars, ServesInv,
       DriverServes, Shutdown
  <1>3. CASE StopCloses
    BY <1>1, <1>3 DEF StopCloses, MainMoves, driverVars, ServesInv,
       DriverServes, Shutdown
  <1>4. ASSUME ~EngineReturns, ~StopCloses
        PROVE  UNCHANGED <<exit, closes>> /\ main' \in {main} \union
                   {"register send", "register await", "activate", "raised",
                    "activate wait", "activate ack", "activate acks",
                    "engine", "service", "returned"}
    <2> USE DEF MainStep, MainMoves, StartsEngine
    <2>1. CASE RegisterReady \/ RegisterRaises \/ Registered
      BY <2>1 DEF RegisterReady, RegisterRaises, Registered, vars
    <2>2. CASE RegisterSend \/ ServiceSend
      BY <2>2 DEF RegisterSend, ServiceSend, Sends, SendBegin
    <2>3. CASE ActivateRaises \/ Activated \/ ActivateSkips
      BY <2>3 DEF ActivateRaises, Activated, ActivateSkips, vars
    <2>4. CASE ActivateReceive \/ ActivateAck
      BY <2>4 DEF ActivateReceive, ActivateAck, Receive, SendBackBegin
    <2>5. CASE ActivateReturns \/ ServiceReturns \/ Join
      BY <2>5 DEF ActivateReturns, ServiceReturns, Join, vars
    <2>6. CASE InSendCall(Main)
      BY <2>6 DEF InSendCall, zdVars, mainVars, PutFuture, PutReturns,
         PutPasses, Schedule
    <2> QED BY <1>4, <2>1, <2>2, <2>3, <2>4, <2>5, <2>6 DEF MainNext
  <1>5. CASE ~EngineReturns /\ ~StopCloses
    BY <1>1, <1>4, <1>5 DEF ServesInv, DriverServes, Shutdown
  <1> QED BY <1>2, <1>3, <1>5

LEMMA DriverServesStep ==
  ASSUME TypeOK, DriverInv, ServesInv, DriverNext
  PROVE  ServesInv'
  <1> USE DEF DriverStep, DriverDrops, DriverMoves
  <1>1. UNCHANGED <<epoch, readyEvent, main, stopper>>
    BY DriverLeavesMain DEF threadVars, mainVars
  <1>2. CASE DriverReceive \/ DriverTakes
    <2>1. /\ item'[Driver] = NoItem /\ message' \in {message, item[Driver]}
          /\ receive'[Driver] = "called"
          /\ driver' \in {"check", "process"} /\ UNCHANGED <<exit, closes>>
      BY <1>2, ThreadFacts DEF DriverReceive, DriverTakes, Receive, TypeOK
    <2> QED BY <1>1, <2>1, KindFacts DEF ServesInv, DriverServes, Shutdown
  <1>3. CASE DriverRaises
    <2>1. /\ driver' = "dead" /\ message' \in {message, NoItem}
          /\ UNCHANGED <<receive, item, exit, closes>>
          /\ \/ receive[Driver] = "cancelled"
             \/ message.kind = "reconnect"
             \/ ~readyEvent
      BY <1>3 DEF DriverRaises, vars, Refused
    <2> QED BY <1>1, <2>1, KindFacts DEF ServesInv, DriverServes, Shutdown
  <1>4. CASE ProcessUnexpected \/ DriverPuts
    <2>1. /\ driver' = "check" /\ message' = NoItem
          /\ UNCHANGED <<receive, item, exit, closes>>
      BY <1>4 DEF ProcessUnexpected, DriverPuts, vars
    <2> QED BY <1>1, <2>1, KindFacts DEF ServesInv, DriverServes, Shutdown
  <1>5. CASE DriverLeaves \/ DriverWaits \/ DriverTimesOut
    BY <1>1, <1>5 DEF DriverLeaves, DriverWaits, DriverTimesOut, vars,
       ServesInv, DriverServes, Shutdown
  <1>6. CASE ProcessMalformed \/ ProcessMessage \/ ProcessDeactivated
    BY <1>1, <1>6 DEF ProcessMalformed, ProcessMessage, ProcessDeactivated,
       vars, ServesInv, DriverServes, Shutdown
  <1>7. CASE DriverCloses \/ DriverAck
    BY <1>1, <1>7 DEF DriverCloses, DriverAck, Close, SendBackBegin,
       ServesInv, DriverServes, Shutdown
  <1>8. CASE InSendCall(Driver)
    BY <1>1, <1>8 DEF InSendCall, zdVars, driverVars, PutFuture, PutReturns,
       PutPasses, Schedule, ServesInv, DriverServes, Shutdown
  <1> QED BY <1>2, <1>3, <1>4, <1>5, <1>6, <1>7, <1>8 DEF DriverNext

-----------------------------------------------------------------------------
(* The inductive invariant, and what follows from it.                      *)

LEMMA ZDInitInv == ZDInit => ZDInv
  <1> SUFFICES ASSUME ZDInit PROVE ZDInv
    OBVIOUS
  <1> USE DEF ZDInit, Init
  <1>1. ZDTypeOK
    <2>1. updates \in Seq(Items) /\ 0 \in Nat
      BY EmptyFacts
    <2> QED BY <2>1, ThreadFacts DEF ZDTypeOK, MainPoints, DriverPoints,
               StopperPoints, Messages, Items, NoItem, Sending
  <1>2. ThreadsInv
    BY DEF ThreadsInv, BeforeEngine
  <1>3. QueueInv
    BY DEF QueueInv
  <1>4. GetInv
    BY EmptyFacts DEF GetInv
  <1>5. MainInv /\ DriverInv
    BY ThreadFacts DEF MainInv, DriverInv
  <1>6. SeenInv
    BY <1>5, NothingSeen DEF SeenInv
  <1>7. OrderInv
    BY ThreadFacts, KindFacts DEF OrderInv, UpdatesInOrder
  <1>8. ServesInv
    BY ThreadFacts, KindFacts DEF ServesInv, DriverServes, Shutdown
  <1>9. StopperInv
    BY ThreadFacts DEF StopperInv
  <1> QED BY <1>1, <1>2, <1>3, <1>4, <1>5, <1>6, <1>7, <1>8, <1>9 DEF ZDInv

LEMMA LoopZDInv ==
  ASSUME IInv, ZDInv, LoopStep
  PROVE  SeenInv' /\ OrderInv' /\ ServesInv' /\ MainInv' /\ DriverInv'
  BY LoopHolds, LoopSeen, LoopOrder, LoopServes DEF LoopStep, ZDInv, IInv

LEMMA MainZDInv ==
  ASSUME IInv, ZDInv, MainNext
  PROVE  SeenInv' /\ OrderInv' /\ ServesInv' /\ MainInv' /\ DriverInv'
  <1>1. TypeOK
    BY DEF IInv
  <1>2. SeenInv' /\ ServesInv' /\ MainInv' /\ DriverInv'
    BY <1>1, ThreadSeen, MainServes, MainHolds DEF ZDInv
  <1>3. OrderInv'
    BY <1>1, MainSeen, OrderKeeps DEF ZDInv
  <1> QED BY <1>2, <1>3

LEMMA DriverZDInv ==
  ASSUME IInv, ZDInv, DriverNext
  PROVE  SeenInv' /\ OrderInv' /\ ServesInv' /\ MainInv' /\ DriverInv'
  <1>1. TypeOK
    BY DEF IInv
  <1> QED BY <1>1, ThreadSeen, DriverOrder, DriverServesStep, DriverHolds
      DEF ZDInv

LEMMA StopperServes ==
  ASSUME ServesInv, StopperNext
  PROVE  ServesInv'
  <1>1. /\ UNCHANGED <<epoch, readyEvent, receive, item, mainVars, driverVars>>
    BY StopperLeaves DEF threadVars
  <1>2. CASE StopperStops
    BY <1>1, <1>2 DEF StopperStops, vars, mainVars, driverVars, ServesInv,
       DriverServes, Shutdown
  <1>3. CASE StopperCloses
    BY <1>1, <1>3 DEF StopperCloses, mainVars, driverVars, ServesInv,
       DriverServes, Shutdown
  <1> QED BY <1>2, <1>3 DEF StopperNext

LEMMA StopperZDInv ==
  ASSUME IInv, ZDInv, StopperNext
  PROVE  SeenInv' /\ OrderInv' /\ ServesInv' /\ MainInv' /\ DriverInv'
  <1>1. /\ UNCHANGED <<threadVars, recvQueue, inbound, receive, item>>
        /\ UNCHANGED <<mainVars, driverVars>>
    BY StopperLeaves
  <1> USE <1>1 DEF mainVars, driverVars, ZDInv, threadVars
  <1>2. MainInv' /\ DriverInv'
    BY DEF MainInv, DriverInv
  <1>3. SeenInv'
    BY SeenSame, SeenKeeps DEF Unaware, MarkerAhead
  <1>4. OrderInv'
    BY OrderKeeps DEF Unaware
  <1> QED BY <1>2, <1>3, <1>4, StopperServes

\* A stuttering step.
LEMMA IdleZDInv ==
  ASSUME IInv, ZDInv, UNCHANGED allVars
  PROVE  SeenInv' /\ OrderInv' /\ ServesInv' /\ MainInv' /\ DriverInv'
  <1> USE DEF allVars, vars, zdVars, mainVars, driverVars, ZDInv
  <1>2. MainInv' /\ DriverInv'
    BY DEF MainInv, DriverInv
  <1>3. SeenInv'
    BY SeenSame, SeenKeeps DEF Unaware, MarkerAhead
  <1>4. OrderInv'
    BY OrderKeeps DEF Unaware
  <1>5. ServesInv'
    BY DEF ServesInv, DriverServes, Shutdown
  <1> QED BY <1>2, <1>3, <1>4, <1>5

LEMMA ZDInvStep == IInv /\ ZDInv /\ [ZDNext]_allVars => ZDInv'
  <1> SUFFICES ASSUME IInv, ZDInv, [ZDNext]_allVars PROVE ZDInv'
    OBVIOUS
  <1>1. ZDTypeOK' /\ ThreadsInv'
    BY TypesStep, ThreadsStep DEF ZDInv, IInv
  <1>2. QueueInv' /\ GetInv' /\ StopperInv'
    BY StreamSteps, QueueStep, GetStep, StopperStep DEF ZDInv, IInv
  <1>3. SeenInv' /\ OrderInv' /\ ServesInv' /\ MainInv' /\ DriverInv'
    BY LoopZDInv, MainZDInv, DriverZDInv, StopperZDInv, IdleZDInv DEF ZDNext
  <1> QED BY <1>1, <1>2, <1>3 DEF ZDInv

\* The invariant holds whatever the validator, the connection and the engine
\* do.
THEOREM ZDInvariant == ZDSpec => []ZDInv
  BY ZDInitInv, ZDInvStep, DriverUsesStream, Invariant, PTL DEF ZDSpec

\* The variables of the driver keep their types, and the main thread awaits
\* the future of what it sends (zmq_driver.py:122-126).
THEOREM DriverTypeCorrect == ZDSpec => []ZDTypeOK
  <1>1. ZDInv => ZDTypeOK
    BY DEF ZDInv
  <1> QED BY <1>1, ZDInvariant, PTL

\* The engine sees the notifications of one connection, each once and in the
\* order they were sent (zmq_driver.py:82-97).
THEOREM EngineSeesInOrder == ZDSpec => []UpdatesInOrder
  <1>1. ZDInv => UpdatesInOrder
    BY DEF ZDInv, OrderInv
  <1> QED BY <1>1, ZDInvariant, PTL

\* Nothing takes the driver thread away from an engine that nobody stopped but
\* the loss of a connection or a notification that does not decode
\* (zmq_driver.py:93-99, 188-236).
THEOREM DriverKeepsServing == ZDSpec => []DriverServes
  <1>1. ZDInv => DriverServes
    BY DEF ZDInv, ServesInv
  <1> QED BY <1>1, ZDInvariant, PTL

-----------------------------------------------------------------------------
(* Nothing is lost between the receive queue and the engine.               *)

\* The kinds of messages that reach the engine.
ForTheEngine == {"notify", "deactivated"}

\* Where a message for the engine is, before a step and after it.
LEMMA EngineMembers ==
  \A m : m \in ForEngine <=>
            /\ m.kind \in ForTheEngine
            /\ \/ Occurs(recvQueue, m) \/ Occurs(updates, m)
               \/ m = item[Driver] \/ m = message
  BY DEF ForEngine, Occurs, ForTheEngine

LEMMA EngineMembersNext ==
  \A m : m \in ForEngine' <=>
            /\ m.kind \in ForTheEngine
            /\ \/ Occurs(recvQueue', m) \/ Occurs(updates', m)
               \/ m = item'[Driver] \/ m = message'
  BY DEF ForEngine, Occurs, ForTheEngine

\* The loop of a stream that is connected empties no queue, and what it takes
\* from the queue goes to the driver thread, whose hands are free.
LEMMA LoopLosesNone ==
  ASSUME IInv, ThreadsInv, MainInv, DriverInv, StopperInv, LoopNext,
         UNCHANGED zdVars, driver # "none", readyEvent
  PROVE  ForEngine \subseteq ForEngine'
  <1>0. /\ UNCHANGED <<message, updates>>
        /\ recvQueue \in Seq(Items) /\ TypeOK
    BY DEF IInv, TypeOK, zdVars, driverVars
  <1>1. /\ item[Driver] \in Items
        /\ receive[Driver] # "done" => item[Driver].kind \notin ForTheEngine
    BY <1>0, ThreadFacts DEF DriverInv, NoItem, ForTheEngine, TypeOK
  <1>2. ~Connect
    <2>1. epoch > 0
      BY DEF ThreadsInv, MainInv, BeforeEngine
    <2>2. epoch # 0
      BY <2>1
    <2> QED BY <2>2 DEF Connect, IInv, LoopInv
  <1>3. ~FailDone
    BY DEF FailDone, IInv, LoopInv
  <1>4. CASE GetterTakes(Driver)
    <2>1. /\ \A m : Occurs(recvQueue, m) =>
                      m = item'[Driver] \/ Occurs(recvQueue', m)
          /\ receive[Driver] = "waiting"
      BY <1>0, <1>4, TakesHead, OccursTail
    <2> QED BY <1>0, <1>1, <2>1, EngineMembers, EngineMembersNext
  <1>5. ASSUME NEW c \in Clients, c # Driver, GetterTakes(c) PROVE FALSE
    BY <1>5, MainTakesBefore
  <1>6. CASE ReceiveInitial
    <2>1. PICK k \in Kinds : recvQueue' = Append(recvQueue, InitialItem(k))
      BY <1>6 DEF ReceiveInitial
    <2>2. InitialItem(k) \in Items /\ UNCHANGED item
      BY <1>6 DEF ReceiveInitial, TypeOK, IInv, InitialItem, Items
    <2>3. \A m : Occurs(recvQueue, m) => Occurs(recvQueue', m)
      BY <1>0, <2>1, <2>2, OccursAppend
    <2> QED BY <1>0, <2>2, <2>3, EngineMembers, EngineMembersNext
  <1>7. ASSUME UNCHANGED <<recvQueue, item>>
        PROVE  ForEngine \subseteq ForEngine'
    BY <1>0, <1>7, EngineMembers, EngineMembersNext
  <1>8. CASE ConnectFails \/ RunReturns \/ MonitorDisconnect
               \/ IterationBroken
    BY <1>7, <1>8 DEF ConnectFails, RunReturns, MonitorDisconnect,
       IterationBroken
  <1>9. CASE RunPut \/ RunGet \/ RunShutdown \/ SendTask
    BY <1>7, <1>9 DEF RunPut, RunGet, RunShutdown, SendTask
  <1>10. ASSUME NEW c \in Clients, ShutdownCancels(c) \/ DeliverCancel(c)
         PROVE  ForEngine \subseteq ForEngine'
    BY <1>7, <1>10 DEF ShutdownCancels, DeliverCancel
  <1>11. ASSUME NEW i \in Futures, FailFuture(i) \/ ReceiveAnswer(i)
         PROVE  ForEngine \subseteq ForEngine'
    BY <1>7, <1>11, AnswerArrives DEF FailFuture, ReceiveAnswer
  <1> QED BY <1>2, <1>3, <1>4, <1>5, <1>6, <1>8, <1>9, <1>10, <1>11
          DEF LoopNext

\* The driver thread drops only what the engine is not to see, unless the
\* stream refuses an ack.
LEMMA DriverLosesNone ==
  ASSUME TypeOK, ZDTypeOK, DriverInv, DriverNext, epoch > 0 => readyEvent
  PROVE  ForEngine \subseteq ForEngine'
  <1> USE DEF DriverStep, DriverDrops, DriverMoves
  <1>0. UNCHANGED recvQueue
    BY DriverLeavesMain
  <1>n. NoItem.kind \notin ForTheEngine
    BY DEF NoItem, ForTheEngine
  <1>1. ASSUME UNCHANGED <<message, updates>>, item'[Driver] = item[Driver]
        PROVE  ForEngine \subseteq ForEngine'
    BY <1>0, <1>1, EngineMembers, EngineMembersNext
  <1>2. CASE DriverReceive
    <2>1. item[Driver] = NoItem /\ UNCHANGED <<message, updates>>
      BY <1>2 DEF DriverReceive, DriverInv
    <2> QED BY <1>0, <1>n, <2>1, EngineMembers, EngineMembersNext
  <1>3. CASE DriverTakes
    <2>1. message' = item[Driver] /\ message = NoItem /\ updates' = updates
      BY <1>3 DEF DriverTakes, DriverInv
    <2> QED BY <1>0, <1>n, <2>1, EngineMembers, EngineMembersNext
  <1>4. CASE ProcessUnexpected \/ ProcessMalformed \/ DriverRaises
    <2>1. /\ UNCHANGED <<updates, item>>
          /\ \/ message' = message
             \/ message.kind \in {"activated", "other", "reconnect"}
      BY <1>4 DEF ProcessUnexpected, ProcessMalformed, DriverRaises, Refused,
         vars
    <2> QED BY <1>0, <2>1, EngineMembers, EngineMembersNext DEF ForTheEngine
  <1>5. CASE DriverPuts
    <2>1. /\ UNCHANGED item
          /\ \/ message.kind = "ping" /\ updates' = updates
             \/ updates' = Append(updates, message)
      BY <1>5 DEF DriverPuts, vars
    <2>2. /\ \A m : Occurs(updates, m) => Occurs(updates', m)
          /\ message.kind # "ping" => Occurs(updates', message)
      <3>1. updates \in Seq(Items) /\ message \in Items
        BY DEF ZDTypeOK
      <3>2. CASE updates' = Append(updates, message)
        BY <3>1, <3>2, OccursAppend
      <3>3. CASE message.kind = "ping" /\ updates' = updates
        BY <3>3
      <3> QED BY <2>1, <3>2, <3>3
    <2> QED BY <1>0, <2>1, <2>2, EngineMembers, EngineMembersNext
            DEF ForTheEngine
  <1>6. CASE DriverLeaves \/ DriverWaits \/ DriverTimesOut
    BY <1>1, <1>6 DEF DriverLeaves, DriverWaits, DriverTimesOut, vars
  <1>7. CASE ProcessMessage \/ ProcessDeactivated \/ DriverCloses \/ DriverAck
    BY <1>1, <1>7 DEF ProcessMessage, ProcessDeactivated, DriverCloses,
       DriverAck, vars, Close, SendBackBegin
  <1>8. CASE InSendCall(Driver)
    BY <1>1, <1>8 DEF InSendCall, zdVars, driverVars, PutFuture, PutReturns,
       PutPasses, Schedule
  <1> QED BY <1>2, <1>3, <1>4, <1>5, <1>6, <1>7, <1>8 DEF DriverNext

\* While the stream is connected no notification is lost on its way to an
\* engine that was started (zmq_driver.py:75-97, 148-178).
THEOREM NoneIsLost == ZDSpec => NoneLost
  <1>1. IInv /\ ZDInv /\ [ZDNext]_allVars =>
          [driver # "none" /\ readyEvent
              => ForEngine \subseteq ForEngine']_allVars
    <2> SUFFICES ASSUME IInv, ZDInv, [ZDNext]_allVars, driver # "none",
                        readyEvent
                 PROVE  ForEngine \subseteq ForEngine'
      OBVIOUS
    <2>1. TypeOK
      BY DEF IInv
    <2>2. ASSUME UNCHANGED <<recvQueue, message, updates>>,
                 item'[Driver] = item[Driver]
          PROVE  ForEngine \subseteq ForEngine'
      BY <2>2 DEF ForEngine
    <2>3. CASE LoopStep
      BY <2>3, LoopLosesNone DEF ZDInv, LoopStep
    <2>4. CASE MainNext
      BY <2>1, <2>2, <2>4, MainLeaves
    <2>5. CASE StopperNext \/ UNCHANGED allVars
      BY <2>2, <2>5, StopperLeaves DEF allVars, vars, zdVars, driverVars
    <2>6. CASE DriverNext
      BY <2>1, <2>6, DriverLosesNone DEF ZDInv
    <2> QED BY <2>3, <2>4, <2>5, <2>6 DEF ZDNext
  <1> QED BY <1>1, DriverUsesStream, Invariant, ZDInvariant, PTL
          DEF ZDSpec, NoneLost
=============================================================================
