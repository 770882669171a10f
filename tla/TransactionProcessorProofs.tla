--------------------- MODULE TransactionProcessorProofs ---------------------
(***************************************************************************)
(* Proofs about TransactionProcessor for any number of handlers, requests, *)
(* connections and interrupts: it uses its Stream as Stream allows, so     *)
(* what was proved of Stream holds in it, and it processes no request of a *)
(* connection it has not registered with.                                  *)
(***************************************************************************)
EXTENDS TransactionProcessor, StreamProofs

USE DEF threadVars, queueVars, futureVars, sweepVars, clientVars, receiveVars,
        worldVars

LEMMA MainFacts ==
  Main \in Clients /\ Main \in Receivers /\ Main \in Interruptible
  BY MainAssumption

\* An unused correlation id is one of the ids.
LEMMA FreshFacts ==
  ASSUME \E i \in Futures : owner[i] = NoOne
  PROVE  Fresh \in Futures /\ owner[Fresh] = NoOne
  BY DEF Fresh

-----------------------------------------------------------------------------
(* Every step is one of Stream's, or none of it.                           *)

\* The steps of Stream's client the program takes, receive apart.
Calling ==
  \/ \E i \in Futures : SendBegin(Main, i)
  \/ PutFuture(Main)
  \/ SendBackBegin(Main)
  \/ PutReturns(Main)
  \/ PutPasses(Main)
  \/ Schedule(Main)
  \/ Close(Main)

LEMMA SendsSteps ==
  ASSUME NEW a, NEW b, Sends(a, b)
  PROVE  Calling
  BY FreshFacts DEF Sends, Calling

LEMMA ProgramSteps == Program => CallReceive \/ Calling \/ UNCHANGED vars
  <1> SUFFICES ASSUME Program, ~CallReceive PROVE Calling \/ UNCHANGED vars
    OBVIOUS
  <1> USE DEF Step, StepAway
  <1>1. CASE Register
    <2>1. CASE RegisterSend
      BY <2>1, SendsSteps DEF RegisterSend
    <2>2. CASE StopStream
      BY <2>2 DEF StopStream, Calling
    <2>3. CASE ~RegisterSend /\ ~StopStream
      BY <1>1, <2>3 DEF Register, RegisterReady, RegisterRefused,
         RegisterAllSent, RegisterAnswered, RegisterRejected,
         RegisterUnsupported, RegisterReturns
    <2> QED BY <2>1, <2>2, <2>3
  <1>2. CASE Dispatch
    <2>1. CASE SendPong
      BY <2>1 DEF SendPong, SendsBack, Calling
    <2>2. CASE ~SendPong
      BY <1>2, <2>2 DEF Dispatch, Cancelled, ReconnectReceived, RegisterAgain,
         MessageReceived, DrainTimesOut, PongRefused
    <2> QED BY <2>1, <2>2
  <1>3. CASE Process
    <2>1. CASE StateRequest
      BY <2>1, SendsSteps DEF StateRequest
    <2>2. CASE Respond
      BY <2>2 DEF Respond, SendsBack, Calling
    <2>3. CASE ~StateRequest /\ ~Respond
      BY <1>3, <2>3 DEF Process, NotApplied, Apply, HandlerDisconnected,
         StateAnswered, StateTimesOut, ApplyEnds, HandlerCrashes,
         ResponseRefused
    <2> QED BY <2>1, <2>2, <2>3
  <1>4. CASE Unregister
    <2>1. CASE UnregisterSend
      BY <2>1, SendsSteps DEF UnregisterSend
    <2>2. CASE ~UnregisterSend
      BY <1>4, <2>2 DEF Unregister, UnregisterReady, UnregisterRefused,
         UnregisterAnswered, UnregisterTimesOut, DrainBegins
    <2> QED BY <2>1, <2>2
  <1>5. CASE InSendCall
    BY <1>5 DEF InSendCall, Calling
  <1>6. CASE SendReturns \/ NotDecoded
    BY <1>6 DEF SendReturns, NotDecoded
  <1> QED BY <1>1, <1>2, <1>3, <1>4, <1>5, <1>6 DEF Program

LEMMA StreamSteps == [TPNext]_allVars => [Next]_vars
  <1>1. Program => [Next]_vars
    BY ProgramSteps, MainFacts DEF CallReceive, Calling, Next, ClientNext
  <1>2. Interrupt => [Next]_vars
    BY MainFacts DEF Interrupt, Next, ClientNext
  <1>3. TPNext => [Next]_vars
    BY <1>1, <1>2 DEF TPNext, Next
  <1> QED BY <1>3 DEF allVars

\* The transaction processor calls its Stream as Stream allows
\* (core.py and context.py use its methods only), so every theorem about
\* Stream is one about the stream of a transaction processor.
LEMMA UsesStream == TPSpec => Spec
  <1>1. TPInit => Init
    BY DEF TPInit
  <1> QED BY <1>1, StreamSteps, PTL DEF TPSpec, Spec

\* In particular, its requests keep the promise of RequestReply.
COROLLARY RequestsKeepPromise == TPSpec => KeepsPromise
  BY UsesStream, Refinement

-----------------------------------------------------------------------------
(* The inductive invariant.                                                *)

LEMMA PointFacts ==
  /\ RegisterPoints \subseteq Points
  /\ ProcessPoints \subseteq Points
  /\ UnregisterPoints \subseteq Points
  /\ Ended \subseteq Points
  BY DEF Points

LEMMA BoundFacts ==
  Registrations \in Nat /\ MaxInbound \in Nat /\ MaxEpoch \in Nat
  BY TPBoundsAssumption, BoundsAssumption

LEMMA TPInitInv == TPInit => TPInv
  <1> SUFFICES ASSUME TPInit PROVE TPInv
    OBVIOUS
  <1> USE DEF TPInit, Init
  <1>1. TPTypeOK
    <2>1. tp \in Points
      BY PointFacts DEF RegisterPoints
    <2>2. waitFor \in Seq(Futures)
      BY EmptyFacts
    <2>3. applied \in [1 .. MaxInbound -> Nat]
      BY BoundFacts
    <2>4. toSend \in 0 .. Registrations
      BY BoundFacts
    <2> QED BY <2>1, <2>2, <2>3, <2>4 DEF TPTypeOK
  <1>2. ToSendInv /\ DrainInv /\ NothingRegisteredAfterInterrupt
    BY DEF ToSendInv, DrainInv, UnregisterPoints,
         NothingRegisteredAfterInterrupt
  <1>3. EventInv /\ NoneMissed
    BY DEF EventInv, NoneMissed
  <1>4. GetInv
    BY EmptyFacts DEF GetInv
  <1>5. ReceiveInv
    BY MainFacts DEF ReceiveInv, RegisterPoints, ProcessPoints, NoItem
  <1> QED BY <1>1, <1>2, <1>3, <1>4, <1>5 DEF TPInv

-----------------------------------------------------------------------------
(* Types.                                                                  *)

\* Each move of the program ends at a point of the program.
LEMMA ProgramPoints ==
  ASSUME TPTypeOK, Program \/ Interrupt
  PROVE  tp' \in Points
  <1> USE DEF TPTypeOK, Step, StepAway, Moves, Sends, SendsBack, Points,
       UnregisterPoints, RegisterPoints, ProcessPoints, Ended
  <1>1. CASE Register
    BY <1>1 DEF Register, RegisterReady, RegisterSend, RegisterRefused,
       RegisterAllSent, RegisterAnswered, RegisterRejected,
       RegisterUnsupported, RegisterReturns, StopStream
  <1>2. CASE Dispatch
    BY <1>2 DEF Dispatch, CallReceive, Cancelled, ReconnectReceived,
       RegisterAgain, MessageReceived, DrainTimesOut, SendPong, PongRefused
  <1>3. CASE Process
    BY <1>3 DEF Process, NotApplied, Apply, StateRequest, HandlerDisconnected,
       StateAnswered, StateTimesOut, ApplyEnds, HandlerCrashes, Respond,
       ResponseRefused
  <1>4. CASE Unregister
    BY <1>4 DEF Unregister, UnregisterReady, UnregisterSend,
         UnregisterRefused,
       UnregisterAnswered, UnregisterTimesOut, DrainBegins
  <1>5. CASE InSendCall \/ SendReturns \/ NotDecoded
    BY <1>5 DEF InSendCall, SendReturns, NotDecoded, tpVars
  <1>6. CASE Interrupt
    BY <1>6 DEF Interrupt
  <1> QED BY <1>1, <1>2, <1>3, <1>4, <1>5, <1>6 DEF Program

\* What the steps that change more than the point do to the other variables.
LEMMA ProgramTypes ==
  ASSUME TypeOK, TPTypeOK, ToSendInv, Program \/ Interrupt
  PROVE  TPTypeOK'
  <1>1. tp' \in Points
    BY ProgramPoints
  <1>2. CASE /\ UNCHANGED <<draining, toSend, records>>
             /\ waitFor' \in {waitFor, <<>>}
    BY <1>1, <1>2, EmptyFacts DEF TPTypeOK, records
  <1>3. CASE RegisterSend
    <2>1. waitFor' \in Seq(Futures)
      BY <1>3, FreshFacts, AppendFacts DEF TPTypeOK, RegisterSend, Sends
    <2>2. toSend' \in 0 .. Registrations
      <3>1. /\ toSend \in 0 .. Registrations
            /\ toSend > 0
            /\ toSend' = toSend - 1
        BY <1>3 DEF TPTypeOK, ToSendInv, RegisterSend, Sends, Moves
      <3> QED BY <3>1, BoundFacts
    <2> QED BY <1>1, <1>3, <2>1, <2>2
      DEF TPTypeOK, RegisterSend, Sends, records
  <1>4. CASE RegisterAnswered
    <2>1. waitFor' \in Seq(Futures)
      BY <1>4, TailFacts DEF TPTypeOK, RegisterAnswered, Awaits
    <2> QED BY <1>1, <1>4, <2>1 DEF TPTypeOK, RegisterAnswered, records
  <1>5. CASE RegisterUnsupported
    BY <1>1, <1>5, EmptyFacts DEF TPTypeOK, RegisterUnsupported, records
  <1>6. CASE RegisterReturns
    <2>1. item[Main].epoch \in Nat
      BY MainFacts DEF TypeOK, Items
    <2> QED BY <1>1, <1>6, <2>1 DEF TPTypeOK, RegisterReturns
  <1>7. CASE ReconnectReceived
    BY <1>1, <1>7, BoundFacts
    DEF TPTypeOK, ReconnectReceived, RegisterAgain, Step, records
  <1>8. CASE Apply
    <2>1. applied' \in [1 .. MaxInbound -> Nat]
      <3>1. applied \in [1 .. MaxInbound -> Nat]
        BY DEF TPTypeOK
      <3>2. applied' = [applied EXCEPT ![item[Main].id] = @ + 1]
        BY <1>8 DEF Apply
      <3>3. ASSUME NEW n \in 1 .. MaxInbound
            PROVE  applied'[n] \in Nat
        BY <3>1, <3>2, applied'[n] \in {applied[n], applied[n] + 1}
      <3>4. /\ DOMAIN applied' = 1 .. MaxInbound
            /\ applied' = [n \in 1 .. MaxInbound |-> applied'[n]]
        BY <3>1, <3>2
      <3> QED BY <3>3, <3>4
    <2> QED BY <1>1, <1>8, <2>1 DEF TPTypeOK, Apply
  <1>9. CASE StateRequest
    <2>1. waitFor' \in Seq(Futures)
      BY <1>9, FreshFacts, AppendFacts DEF TPTypeOK, StateRequest, Sends
    <2>2. requests' \in Nat
      <3>1. requests \in Nat
        BY DEF TPTypeOK
      <3>2. requests' = requests + 1
        BY <1>9 DEF StateRequest
      <3> QED BY <3>1, <3>2
    <2> QED BY <1>1, <1>9, <2>1, <2>2 DEF TPTypeOK, StateRequest, Sends
  <1>10. CASE UnregisterSend
    <2>1. waitFor' \in Seq(Futures)
      BY <1>10, FreshFacts, AppendFacts DEF TPTypeOK, UnregisterSend, Sends
    <2> QED BY <1>1, <1>10, <2>1 DEF TPTypeOK, UnregisterSend, Sends, records
  <1>11. CASE Interrupt
    BY <1>1, <1>11, EmptyFacts DEF TPTypeOK, Interrupt
  <1>12. ASSUME ~RegisterSend, ~RegisterAnswered, ~RegisterUnsupported,
                ~RegisterReturns, ~ReconnectReceived, ~Apply, ~StateRequest,
                ~UnregisterSend, ~Interrupt
         PROVE  /\ UNCHANGED <<draining, toSend, records>>
                /\ waitFor' \in {waitFor, <<>>}
    <2> USE DEF Step, StepAway, SendsBack
    <2>1. CASE Register
      BY <2>1, <1>12 DEF Register, RegisterReady, RegisterRefused,
         RegisterAllSent, RegisterRejected, StopStream
    <2>2. CASE Dispatch
      BY <2>2, <1>12 DEF Dispatch, CallReceive, Cancelled, MessageReceived,
         DrainTimesOut, SendPong, PongRefused
    <2>3. CASE Process
      BY <2>3, <1>12 DEF Process, NotApplied, HandlerDisconnected,
         StateAnswered, StateTimesOut, ApplyEnds, HandlerCrashes, Respond,
         ResponseRefused
    <2>4. CASE Unregister
      BY <2>4, <1>12 DEF Unregister, UnregisterReady, UnregisterRefused,
         UnregisterAnswered, UnregisterTimesOut, DrainBegins
    <2>5. CASE InSendCall \/ SendReturns \/ NotDecoded
      BY <2>5 DEF InSendCall, SendReturns, NotDecoded, tpVars
    <2> QED BY <2>1, <2>2, <2>3, <2>4, <2>5, <1>12 DEF Program
  <1> QED BY <1>2, <1>3, <1>4, <1>5, <1>6, <1>7, <1>8, <1>9, <1>10, <1>11,
             <1>12

LEMMA TypesStep ==
  ASSUME TypeOK, TPTypeOK, ToSendInv, [TPNext]_allVars
  PROVE  TPTypeOK'
  <1>1. CASE UNCHANGED tpVars
    BY <1>1 DEF TPTypeOK, tpVars, records
  <1>2. CASE Program \/ Interrupt
    BY <1>2, ProgramTypes
  <1> QED BY <1>1, <1>2 DEF TPNext, allVars

-----------------------------------------------------------------------------
(* The queue, the callbacks and the last receive, at the steps of the loop. *)

LEMMA EventKeeps ==
  ASSUME EventInv, UNCHANGED <<recvQueue, epoch>>
  PROVE  EventInv'
  BY DEF EventInv

LEMMA GetKeeps ==
  ASSUME GetInv, UNCHANGED <<calls, receive>>
  PROVE  GetInv'
  BY DEF GetInv, AtMostOnce, Occurs

LEMMA GetAppend ==
  ASSUME TypeOK, GetInv, NEW k \in Calls, k # GetCall(Main),
         calls' = Append(calls, k), UNCHANGED receive
  PROVE  GetInv'
  <1>1. calls \in Seq(Calls)
    BY DEF TypeOK
  <1>2. AtMostOnce(Append(calls, k), {GetCall(Main)})
    BY <1>1, AtMostOnceAppend DEF GetInv
  <1>3. Occurs(Append(calls, k), GetCall(Main)) => Occurs(calls, GetCall(Main))
    BY <1>1, OccursAppend
  <1> QED BY <1>2, <1>3 DEF GetInv

LEMMA GetTail ==
  ASSUME TypeOK, GetInv, calls # <<>>, Head(calls) # GetCall(Main),
         calls' = Tail(calls), UNCHANGED receive
  PROVE  GetInv'
  <1>1. calls \in Seq(Calls)
    BY DEF TypeOK
  <1>2. AtMostOnce(Tail(calls), {GetCall(Main)})
    BY <1>1, AtMostOnceTail DEF GetInv
  <1>3. Occurs(Tail(calls), GetCall(Main)) => Occurs(calls, GetCall(Main))
    BY <1>1, OccursTail
  <1> QED BY <1>2, <1>3 DEF GetInv

LEMMA MainKeeps ==
  ASSUME NoneMissed, ReceiveInv,
         UNCHANGED <<tpVars, recvQueue, epoch, queuesUp, receive, item>>
  PROVE  NoneMissed' /\ ReceiveInv'
  BY DEF NoneMissed, ReceiveInv, tpVars, records, Working, Registering,
     Received, Announced

\* While start works, a receive is only outstanding at its wait.
LEMMA Outstanding ==
  ASSUME ReceiveInv, Working,
         receive[Main] \in {"called", "waiting", "cancelling"}
  PROVE  tp = "wait"
  BY DEF ReceiveInv, Working

EventInvs == EventInv /\ NoneMissed /\ GetInv /\ ReceiveInv

LEMMA ConnectEvents ==
  ASSUME TypeOK, EventInvs, Connect, UNCHANGED tpVars
  PROVE  EventInvs'
  <1> USE DEF EventInvs, Connect, tpVars, records
  <1>1. epoch \in Nat
    BY DEF TypeOK
  <1>2. EventInv'
    BY <1>1 DEF EventInv, ReconnectItem
  <1>3. GetInv'
    BY GetKeeps
  <1>4. ReceiveInv'
    BY <1>1 DEF ReceiveInv, Working, Received
  <1>5. NoneMissed'
    <2>1. CASE epoch = 0
      <3>1. epoch' = 1
        BY <2>1
      <3>2. Working => tp' = "register" /\ Announced' = 1
        BY <2>1 DEF ReceiveInv, Announced, NoItem
      <3>3. Working' => Working
        BY DEF Working
      <3> QED BY <3>1, <3>2, <3>3 DEF NoneMissed, Registering, RegisterPoints
    <2>2. CASE epoch # 0
      BY <2>2 DEF NoneMissed, ReconnectItem
    <2> QED BY <2>1, <2>2
  <1> QED BY <1>2, <1>3, <1>4, <1>5

LEMMA FailDoneEvents ==
  ASSUME TypeOK, EventInvs, FailDone, UNCHANGED tpVars
  PROVE  EventInvs'
  <1> USE DEF EventInvs, FailDone, tpVars, records
  <1>1. receive'[Main] = IF receive[Main] = "waiting" THEN "cancelling"
                         ELSE receive[Main]
    BY MainFacts
  <1>2. EventInv'
    BY DEF EventInv
  <1>3. GetInv'
    BY <1>1 DEF GetInv, AtMostOnce, Occurs
  <1>4. ReceiveInv'
    BY <1>1 DEF ReceiveInv, Working
  <1>5. NoneMissed'
    BY DEF NoneMissed
  <1> QED BY <1>2, <1>3, <1>4, <1>5

LEMMA RunPutEvents ==
  ASSUME TypeOK, EventInvs, RunPut, UNCHANGED tpVars
  PROVE  EventInvs'
  <1> USE DEF EventInvs, RunPut
  <1>1. Head(calls) # GetCall(Main)
    BY DEF GetCall
  <1> QED BY <1>1, GetTail, EventKeeps, MainKeeps

LEMMA RunShutdownEvents ==
  ASSUME TypeOK, EventInvs, RunShutdown, UNCHANGED tpVars
  PROVE  EventInvs'
  <1> USE DEF EventInvs, RunShutdown
  <1>1. Head(calls) # GetCall(Main)
    BY DEF GetCall
  <1> QED BY <1>1, GetTail, EventKeeps, MainKeeps

LEMMA RunGetEvents ==
  ASSUME TypeOK, EventInvs, RunGet, UNCHANGED tpVars
  PROVE  EventInvs'
  <1> USE DEF EventInvs, RunGet, tpVars, records
  <1>1. calls \in Seq(Calls)
    BY DEF TypeOK
  <1>2. Head(calls).client = Main /\ Head(calls) = GetCall(Main)
    BY <1>1, TailFacts, GetFacts, MainAssumption
  <1>3. receive[Main] = "called"
    BY <1>1, <1>2, OccursTail DEF GetInv
  <1>4. receive'[Main] = "waiting"
    BY <1>2, MainFacts DEF TypeOK
  <1>5. GetInv'
    BY <1>1, <1>2, AtMostOnceTail DEF GetInv
  <1>6. EventInv'
    BY EventKeeps
  <1>7. ReceiveInv' /\ NoneMissed'
    BY <1>3, <1>4, Outstanding
    DEF ReceiveInv, NoneMissed, Working, Registering, Received, Announced,
        RegisterPoints, ProcessPoints
  <1> QED BY <1>5, <1>6, <1>7

\* A receive that waits, or is cancelled, is cancelled.
LEMMA CancelEvents ==
  ASSUME TypeOK, EventInvs, NEW c \in Clients,
         receive[c] \in {"waiting", "cancelling"},
         receive' = [receive EXCEPT ![c] = "cancelled"],
         UNCHANGED <<tpVars, calls, recvQueue, epoch, queuesUp, item>>
  PROVE  EventInvs'
  <1> USE DEF EventInvs, tpVars, records
  <1>1. c = Main /\ receive'[Main] = "cancelled"
    BY MainAssumption DEF TypeOK
  <1>2. GetInv'
    BY <1>1 DEF GetInv, AtMostOnce, Occurs
  <1>3. EventInv'
    BY EventKeeps
  <1>4. ReceiveInv' /\ NoneMissed'
    BY <1>1, Outstanding
    DEF ReceiveInv, NoneMissed, Working, Registering, Received, Announced,
        RegisterPoints, ProcessPoints
  <1> QED BY <1>2, <1>3, <1>4

LEMMA GetterTakesEvents ==
  ASSUME TypeOK, QueuesWhileRunning, EventInvs, NEW c \in Clients,
         GetterTakes(c), UNCHANGED tpVars
  PROVE  EventInvs'
  <1> USE DEF EventInvs, GetterTakes, tpVars, records
  <1> DEFINE taken == Head(recvQueue)
  <1>1. recvQueue \in Seq(Items)
    BY DEF TypeOK
  <1>2. /\ taken = recvQueue[1]
        /\ 1 \in DOMAIN recvQueue
        /\ taken.epoch = epoch
    BY <1>1, TailFacts DEF EventInv
  <1>3. c = Main /\ receive'[Main] = "done" /\ item'[Main] = taken
    BY MainAssumption DEF TypeOK
  <1>4. \A n \in DOMAIN recvQueue' :
            recvQueue'[n].epoch = epoch /\ recvQueue'[n].kind # "reconnect"
    <2> SUFFICES ASSUME NEW n \in DOMAIN Tail(recvQueue)
                 PROVE  /\ Tail(recvQueue)[n].epoch = epoch
                        /\ Tail(recvQueue)[n].kind # "reconnect"
      OBVIOUS
    <2>1. /\ Tail(recvQueue)[n] = recvQueue[n + 1]
          /\ n + 1 \in DOMAIN recvQueue
          /\ n + 1 # 1
      BY <1>1, TailFacts
    <2> QED BY <2>1 DEF EventInv
  <1>5. EventInv'
    BY <1>4 DEF EventInv
  <1>6. GetInv'
    BY <1>3 DEF GetInv, AtMostOnce, Occurs
  <1>7. ASSUME Working PROVE tp = "wait"
    BY <1>3, <1>7, Outstanding
  <1>8. ASSUME Working, queuesUp, taken.kind # "reconnect"
        PROVE  registered = epoch
    BY <1>3, <1>7, <1>8 DEF NoneMissed, Registering, Received, RegisterPoints
  <1>9. ASSUME Working, queuesUp PROVE NoneMissed'
    <2>1. CASE taken.kind = "reconnect"
      BY <1>2, <1>3, <1>7, <1>9, <2>1
      DEF NoneMissed, Registering, Received, Announced
    <2>2. CASE taken.kind # "reconnect"
      BY <1>3, <1>7, <1>8, <1>9, <2>2
      DEF NoneMissed, Registering, Received, RegisterPoints
    <2> QED BY <2>1, <2>2
  <1>10. ReceiveInv'
    BY <1>2, <1>3, <1>7, <1>8
    DEF ReceiveInv, Working, RegisterPoints, ProcessPoints, QueuesWhileRunning
  <1>11. NoneMissed'
    BY <1>9 DEF NoneMissed, Working
  <1> QED BY <1>5, <1>6, <1>10, <1>11

\* What arrives is put behind what is there, and is no RECONNECT_EVENT.
LEMMA ArrivalEvents ==
  ASSUME TypeOK, EventInvs, NEW e \in Items,
         e.kind # "reconnect", e.epoch = epoch,
         recvQueue' = Append(recvQueue, e),
         UNCHANGED <<tpVars, calls, epoch, queuesUp, receive, item>>
  PROVE  EventInvs'
  <1> USE DEF EventInvs, tpVars, records
  <1>1. recvQueue \in Seq(Items)
    BY DEF TypeOK
  <1>2. EventInv'
    <2> SUFFICES ASSUME NEW n \in DOMAIN recvQueue'
                 PROVE  /\ recvQueue'[n].epoch = epoch
                        /\ recvQueue'[n].kind = "reconnect" => n = 1
      BY DEF EventInv
    <2>1. CASE n \in DOMAIN recvQueue
      BY <1>1, <2>1, AppendFacts DEF EventInv
    <2>2. CASE n = Len(recvQueue) + 1
      BY <1>1, <2>2, AppendFacts
    <2> QED BY <1>1, <2>1, <2>2, AppendFacts
  <1>3. recvQueue # <<>> =>
          recvQueue' # <<>> /\ Head(recvQueue') = Head(recvQueue)
    BY <1>1
  <1>4. NoneMissed'
    BY <1>3 DEF NoneMissed, Working, Registering, Received, Announced
  <1>5. ReceiveInv'
    BY DEF ReceiveInv, Working
  <1>6. GetInv'
    BY GetKeeps
  <1> QED BY <1>2, <1>4, <1>5, <1>6

\* Loop steps that leave all of it alone.
LEMMA QuietEvents ==
  ASSUME EventInvs,
         UNCHANGED <<tpVars, calls, recvQueue, epoch, queuesUp, receive, item>>
  PROVE  EventInvs'
  BY EventKeeps, GetKeeps, MainKeeps DEF EventInvs

LEMMA LoopEvents ==
  ASSUME TypeOK, QueuesWhileRunning, EventInvs, LoopNext, UNCHANGED tpVars
  PROVE  EventInvs'
  <1>1. CASE Connect
    BY <1>1, ConnectEvents
  <1>2. CASE FailDone
    BY <1>2, FailDoneEvents
  <1>3. CASE RunPut
    BY <1>3, RunPutEvents
  <1>4. CASE RunGet
    BY <1>4, RunGetEvents
  <1>5. CASE RunShutdown
    BY <1>5, RunShutdownEvents
  <1>6. CASE \E c \in Clients : ShutdownCancels(c) \/ DeliverCancel(c)
    BY <1>6, CancelEvents DEF ShutdownCancels, DeliverCancel
  <1>7. CASE \E c \in Clients : GetterTakes(c)
    BY <1>7, GetterTakesEvents
  <1>8. CASE \E i \in Futures : ReceiveAnswer(i)
    <2> PICK i \in Futures : ReceiveAnswer(i)
      BY <1>8
    <2>1. CASE i \in futures
      BY <2>1, QuietEvents DEF ReceiveAnswer
    <2>2. CASE i \notin futures
      <3>1. /\ StrayItem \in Items
            /\ StrayItem.kind # "reconnect"
            /\ StrayItem.epoch = epoch
        BY DEF StrayItem, Items, TypeOK
      <3> QED BY <2>2, <3>1, ArrivalEvents DEF ReceiveAnswer
    <2> QED BY <2>1, <2>2
  <1>9. CASE ReceiveInitial
    <2> PICK kind \in Kinds : recvQueue' = Append(recvQueue, InitialItem(kind))
      BY <1>9 DEF ReceiveInitial
    <2>1. /\ InitialItem(kind) \in Items
          /\ InitialItem(kind).kind # "reconnect"
          /\ InitialItem(kind).epoch = epoch
      BY KindsAssumption DEF InitialItem, Items, TypeOK
    <2> QED BY <1>9, <2>1, ArrivalEvents DEF ReceiveInitial
  <1>10. CASE \/ ConnectFails \/ RunReturns \/ MonitorDisconnect
              \/ \E i \in Futures : FailFuture(i)
              \/ IterationBroken \/ SendTask
    BY <1>10, QuietEvents
    DEF ConnectFails, RunReturns, MonitorDisconnect, FailFuture,
        IterationBroken, SendTask
  <1> QED BY <1>1, <1>2, <1>3, <1>4, <1>5, <1>6, <1>7, <1>8, <1>9, <1>10
    DEF LoopNext

-----------------------------------------------------------------------------
(* The same, at the steps of the main thread.                              *)

LEMMA CallingEvents ==
  ASSUME TypeOK, EventInv, GetInv, Calling
  PROVE  /\ UNCHANGED <<recvQueue, epoch, queuesUp, receive, item>>
         /\ EventInv' /\ GetInv'
  <1>1. UNCHANGED <<recvQueue, epoch, queuesUp, receive, item>>
    BY DEF Calling, SendBegin, PutFuture, SendBackBegin, PutReturns,
       PutPasses, Schedule, Close
  <1>2. CASE UNCHANGED calls
    BY <1>1, <1>2, EventKeeps, GetKeeps
  <1>3. CASE Schedule(Main)
    <2>1. PutCall(cur[Main]) \in Calls /\ PutCall(cur[Main]) # GetCall(Main)
      BY MainFacts, CallFacts DEF TypeOK
    <2> QED BY <1>1, <1>3, <2>1, EventKeeps, GetAppend DEF Schedule
  <1>4. CASE Close(Main)
    <2> DEFINE cs == {d \in Clients : receive[d] = "waiting"}
    <2>1. ShutdownCall(cs) \in Calls /\ ShutdownCall(cs) # GetCall(Main)
      BY CallFacts
    <2>2. calls' = Append(calls, ShutdownCall(cs))
      BY <1>4 DEF Close
    <2> QED BY <1>1, <2>1, <2>2, EventKeeps, GetAppend
  <1>5. ~Schedule(Main) /\ ~Close(Main) => UNCHANGED calls
    BY DEF Calling, SendBegin, PutFuture, SendBackBegin, PutReturns, PutPasses
  <1> QED BY <1>1, <1>2, <1>3, <1>4, <1>5

PointInvs == ToSendInv /\ DrainInv /\ NothingRegisteredAfterInterrupt

LEMMA CallReceiveEvents ==
  ASSUME TypeOK, TPInv, CallReceive
  PROVE  EventInvs' /\ PointInvs'
  <1> USE DEF TPInv, EventInvs, CallReceive, Receive, Moves, records
  <1>1. receive'[Main] = "called" /\ item'[Main] = NoItem
    BY MainFacts DEF TypeOK
  <1>2. EventInv'
    BY EventKeeps
  <1>3. GetInv'
    <2>1. calls \in Seq(Calls) /\ GetCall(Main) \in Calls
      BY MainFacts, CallFacts DEF TypeOK
    <2>2. ~Occurs(calls, GetCall(Main))
      BY DEF GetInv
    <2>3. AtMostOnce(calls', {GetCall(Main)})
      BY <2>1, <2>2, AtMostOnceAppend DEF GetInv
    <2> QED BY <1>1, <2>3 DEF GetInv
  <1>4. ReceiveInv'
    BY <1>1 DEF ReceiveInv, Working, RegisterPoints, ProcessPoints
  <1>5. NoneMissed'
    BY <1>1 DEF NoneMissed, Working, Registering, Received, RegisterPoints,
       ProcessPoints
  <1>6. PointInvs'
    BY DEF PointInvs, ToSendInv, DrainInv, UnregisterPoints,
       NothingRegisteredAfterInterrupt, RegisterPoints
  <1> QED BY <1>2, <1>3, <1>4, <1>5, <1>6

\* Moves of the program between points where the last receive is resolved.
MoveInvs == NoneMissed /\ ReceiveInv /\ PointInvs

LEMMA ProgramMoves ==
  ASSUME TypeOK, TPInv, Program, ~CallReceive,
         UNCHANGED <<recvQueue, epoch, queuesUp, receive, item>>
  PROVE  MoveInvs'
  <1>0. epoch > 0 => epoch # 0
    BY DEF TypeOK
  <1> USE DEF TPInv, MoveInvs, PointInvs, NoneMissed, ReceiveInv, ToSendInv,
       DrainInv, NothingRegisteredAfterInterrupt, Working, Registering,
       Received, Announced, RegisterPoints, ProcessPoints, UnregisterPoints,
       Ended, Step, StepAway, Moves, Sends, SendsBack, records
  <1>1. CASE Register
    <2>1. CASE RegisterReady
      <3>1. epoch # 0
        BY <1>0, <2>1 DEF RegisterReady
      <3>2. /\ Moves("register", "register send")
            /\ toSend' > 0
            /\ UNCHANGED <<draining, records>>
        BY <2>1 DEF RegisterReady
      <3> QED BY <3>1, <3>2
    <2>2. CASE RegisterSend
      BY <2>2 DEF RegisterSend
    <2>3. CASE RegisterRefused
      BY <2>3 DEF RegisterRefused
    <2>4. CASE RegisterAllSent
      <3>1. epoch # 0
        BY <1>0, <2>4 DEF RegisterAllSent
      <3>2. /\ Moves("register", "register await")
            /\ UNCHANGED <<draining, records>>
        BY <2>4 DEF RegisterAllSent
      <3> QED BY <3>1, <3>2
    <2>5. CASE RegisterAnswered
      BY <2>5 DEF RegisterAnswered
    <2>6. CASE RegisterRejected \/ RegisterUnsupported \/ StopStream
      BY <2>6 DEF RegisterRejected, RegisterUnsupported, StopStream
    <2>7. CASE RegisterReturns
      BY <2>7 DEF RegisterReturns
    <2> QED BY <1>1, <2>1, <2>2, <2>3, <2>4, <2>5, <2>6, <2>7 DEF Register
  <1>2. CASE Dispatch
    <2>1. CASE Cancelled
      BY <2>1 DEF Cancelled
    <2>2. CASE ReconnectReceived
      <3>1. CASE ~draining
        <4>1. /\ Moves("wait", "register")
              /\ Received("reconnect")
              /\ UNCHANGED <<draining, records>>
          BY <2>2, <3>1 DEF ReconnectReceived, RegisterAgain
        <4>2. NoneMissed'
          BY <4>1
        <4>3. ReceiveInv'
          BY <4>1
        <4>4. PointInvs'
          BY <3>1, <4>1
        <4> QED BY <4>2, <4>3, <4>4
      <3>2. CASE draining
        BY <2>2, <3>2, SMTT(30) DEF ReconnectReceived
      <3> QED BY <3>1, <3>2
    <2>3. CASE MessageReceived
      BY <2>3, TPKindsAssumption DEF MessageReceived
    <2>4. CASE DrainTimesOut \/ SendPong \/ PongRefused
      BY <2>4 DEF DrainTimesOut, SendPong, PongRefused
    <2> QED BY <1>2, <2>1, <2>2, <2>3, <2>4 DEF Dispatch
  <1>3. CASE Process
    <2>1. CASE NotApplied \/ Apply \/ StateRequest
      BY <2>1 DEF NotApplied, Apply, StateRequest
    <2>2. CASE HandlerDisconnected \/ StateAnswered \/ StateTimesOut
      BY <2>2 DEF HandlerDisconnected, StateAnswered, StateTimesOut
    <2>3. CASE ApplyEnds \/ HandlerCrashes \/ Respond \/ ResponseRefused
      BY <2>3 DEF ApplyEnds, HandlerCrashes, Respond, ResponseRefused
    <2> QED BY <1>3, <2>1, <2>2, <2>3 DEF Process
  <1>4. CASE Unregister
    <2>1. draining
      BY <1>4 DEF Unregister, UnregisterReady, UnregisterSend,
         UnregisterRefused, UnregisterAnswered, UnregisterTimesOut,
         DrainBegins
    <2>2. UNCHANGED draining /\ tp' \notin RegisterPoints
      BY <1>4 DEF Unregister, UnregisterReady, UnregisterSend,
         UnregisterRefused, UnregisterAnswered, UnregisterTimesOut,
         DrainBegins
    <2> QED BY <2>1, <2>2
  <1>5. CASE InSendCall
    BY <1>5 DEF InSendCall, tpVars
  <1>6. CASE SendReturns
    <2>1. CASE Step("register sends", "register")
      BY <2>1
    <2>2. CASE Step("unregister sends", "unregister await")
      BY <2>2
    <2>3. CASE Step("handler sends", "handler await")
      BY <2>3
    <2>4. CASE Step("responds", "loop") \/ Step("pongs", "loop")
      BY <2>4
    <2> QED BY <1>6, <2>1, <2>2, <2>3, <2>4 DEF SendReturns
  <1>7. CASE NotDecoded
    BY <1>7 DEF NotDecoded
  <1> QED BY <1>1, <1>2, <1>3, <1>4, <1>5, <1>6, <1>7 DEF Program

\* An interrupt ends the first loop, and with it what start was working on.
LEMMA InterruptMoves ==
  ASSUME TPInv, Interrupt
  PROVE  TPTypeOK' => TPInv'
  <1>1. UNCHANGED <<calls, recvQueue, epoch, queuesUp, receive, item>>
    BY DEF Interrupt, Interrupted, StopWaiting, vars
  <1>2. EventInv' /\ GetInv'
    BY <1>1, EventKeeps, GetKeeps DEF TPInv
  <1>3. NoneMissed' /\ ReceiveInv'
    BY DEF Interrupt, NoneMissed, ReceiveInv, Working
  <1>4. PointInvs'
    BY DEF Interrupt, PointInvs, ToSendInv, DrainInv, Ended,
       NothingRegisteredAfterInterrupt, RegisterPoints
  <1> QED BY <1>2, <1>3, <1>4 DEF TPInv, EventInvs, PointInvs

LEMMA TPNextInv ==
  ASSUME TypeOK, QueuesWhileRunning, TPInv, [TPNext]_allVars
  PROVE  TPInv'
  <1>1. TPTypeOK'
    BY TypesStep DEF TPInv
  <1>2. CASE LoopNext /\ UNCHANGED tpVars
    <2>1. EventInvs'
      BY <1>2, LoopEvents DEF TPInv, EventInvs
    <2>2. PointInvs'
      BY <1>2 DEF TPInv, PointInvs, ToSendInv, DrainInv,
         NothingRegisteredAfterInterrupt, tpVars
    <2> QED BY <1>1, <2>1, <2>2 DEF TPInv, EventInvs, PointInvs
  <1>3. CASE CallReceive
    BY <1>1, <1>3, CallReceiveEvents DEF TPInv, EventInvs, PointInvs
  <1>4. CASE Program /\ ~CallReceive
    <2>1. Calling \/ UNCHANGED vars
      BY <1>4, ProgramSteps
    <2>2. /\ UNCHANGED <<recvQueue, epoch, queuesUp, receive, item>>
          /\ EventInv' /\ GetInv'
      BY <2>1, CallingEvents, EventKeeps, GetKeeps DEF TPInv, vars
    <2>3. MoveInvs'
      BY <1>4, <2>2, ProgramMoves
    <2> QED BY <1>1, <2>2, <2>3 DEF TPInv, MoveInvs, PointInvs
  <1>5. CASE Interrupt
    BY <1>1, <1>5, InterruptMoves
  <1>6. CASE UNCHANGED allVars
    <2>1. EventInvs'
      BY <1>6, QuietEvents DEF allVars, vars, tpVars, TPInv, EventInvs
    <2>2. PointInvs'
      BY <1>6 DEF allVars, TPInv, PointInvs, ToSendInv, DrainInv,
         NothingRegisteredAfterInterrupt, tpVars
    <2> QED BY <1>1, <2>1, <2>2 DEF TPInv, EventInvs, PointInvs
  <1> QED BY <1>2, <1>3, <1>4, <1>5, <1>6 DEF TPNext

-----------------------------------------------------------------------------
(* The theorems.                                                           *)

\* The invariant of start: the RECONNECT_EVENT comes first, the loop is asked
\* for one message at a time, and what was registered with is known at each
\* point (core.py:227-250, 298-322).
THEOREM TPInvariant == TPSpec => []TPInv
  <1>1. TPInit => TPInv
    BY TPInitInv
  <1>2. TypeOK /\ QueuesWhileRunning /\ TPInv /\ [TPNext]_allVars => TPInv'
    BY TPNextInv
  <1>3. TPSpec => [](TypeOK /\ QueuesWhileRunning)
    BY UsesStream, TypeCorrect, QueuesFound, PTL
  <1> QED BY <1>1, <1>2, <1>3, PTL DEF TPSpec

\* The state of start has its type: it sends no more register requests than
\* it has handlers (core.py:255).
THEOREM TPTyped == TPSpec => []TPTypeOK
  <1>1. TPInv => TPTypeOK
    BY DEF TPInv
  <1> QED BY <1>1, TPInvariant, PTL

\* Every connection is registered with, or is about to be, until an interrupt
\* (core.py:235-239, stream.py:228-229).
THEOREM RegistersEach == TPSpec => []NoneMissed
  <1>1. TPInv => NoneMissed
    BY DEF TPInv
  <1> QED BY <1>1, TPInvariant, PTL

\* A request is processed only when the handlers were registered with the
\* connection it came over (core.py:235-239, 305).
THEOREM RegistersFirst == TPSpec => []RegisteredFirst
  <1>1. TPInv => RegisteredFirst
    BY DEF TPInv, ReceiveInv, Working, RegisteredFirst, ProcessPoints
  <1> QED BY <1>1, TPInvariant, PTL

\* Nothing is registered after an interrupt (core.py:236, 314).
THEOREM StopsRegistering == TPSpec => []NothingRegisteredAfterInterrupt
  <1>1. TPInv => NothingRegisteredAfterInterrupt
    BY DEF TPInv
  <1> QED BY <1>1, TPInvariant, PTL

-----------------------------------------------------------------------------
(* How often a request is applied.                                         *)

\* A step that applies nothing and changes neither queue nor item.
LEMMA FreshKeeps ==
  ASSUME FreshInv, UNCHANGED <<recvQueue, inbound, item, applied>>
  PROVE  FreshInv'
  BY DEF FreshInv

LEMMA OnceKeeps ==
  ASSUME AppliedOnce, UNCHANGED applied, draining => draining'
  PROVE  AppliedOnce'
  BY DEF AppliedOnce

LEMMA LoopKeeps ==
  ASSUME AppliedInv, UNCHANGED <<tpVars, recvQueue, inbound, item>>,
         receive[Main] = "done" => receive'[Main] = "done"
  PROVE  AppliedInv'
  <1> USE DEF AppliedInv, tpVars, records
  <1>1. FreshInv' /\ AppliedOnce'
    BY FreshKeeps, OnceKeeps
  <1>2. ItemInv'
    BY DEF ItemInv, NoneTwice
  <1>3. ~draining' \/ tp' \in UnregisterPoints => NoneTwice'
    BY DEF NoneTwice
  <1> QED BY <1>1, <1>2, <1>3

\* The queue is emptied, but for the event of a new connection.
LEMMA EmptiedApplied ==
  ASSUME AppliedInv, UNCHANGED <<tpVars, inbound, item>>,
         \A n \in DOMAIN recvQueue' : recvQueue'[n].kind # "process",
         receive[Main] = "done" => receive'[Main] = "done"
  PROVE  AppliedInv'
  <1> USE DEF AppliedInv, tpVars, records
  <1>1. FreshInv'
    BY DEF FreshInv
  <1>2. ItemInv'
    BY DEF ItemInv, NoneTwice
  <1>3. ~draining' \/ tp' \in UnregisterPoints => NoneTwice'
    BY DEF NoneTwice
  <1> QED BY <1>1, <1>2, <1>3, OnceKeeps

LEMMA GetterTakesApplied ==
  ASSUME TypeOK, AppliedInv, NEW c \in Clients, GetterTakes(c),
         UNCHANGED tpVars
  PROVE  AppliedInv'
  <1> USE DEF AppliedInv, tpVars, records
  <1> DEFINE h == Head(recvQueue)
  <1>1. recvQueue \in Seq(Items) /\ recvQueue # <<>>
        /\ recvQueue' = Tail(recvQueue) /\ inbound' = inbound
    BY DEF TypeOK, GetterTakes
  <1>2. c = Main /\ receive'[Main] = "done" /\ item'[Main] = h
    BY MainAssumption DEF GetterTakes, TypeOK
  <1>3. /\ h = recvQueue[1] /\ 1 \in DOMAIN recvQueue
        /\ \A n \in DOMAIN recvQueue' :
               /\ n \in Nat /\ n + 1 \in DOMAIN recvQueue /\ n + 1 # 1
               /\ recvQueue'[n] = recvQueue[n + 1]
    BY <1>1, TailFacts
  <1>4. ASSUME NEW n \in DOMAIN recvQueue', recvQueue'[n].kind = "process"
        PROVE  /\ recvQueue'[n].id \in 1 .. inbound
               /\ applied[recvQueue'[n].id] = 0
               /\ h.kind = "process" => h.id # recvQueue'[n].id
               /\ \A k \in DOMAIN recvQueue' :
                      recvQueue'[k].kind = "process" /\ k # n =>
                          recvQueue'[k].id # recvQueue'[n].id
    <2>1. \A k \in DOMAIN recvQueue' : k # n => k + 1 # n + 1
      BY <1>3
    <2>2. /\ recvQueue[n + 1].id \in 1 .. inbound
          /\ applied[recvQueue[n + 1].id] = 0
          /\ \A k \in DOMAIN recvQueue :
                 recvQueue[k].kind = "process" /\ k # n + 1 =>
                     recvQueue[k].id # recvQueue[n + 1].id
      BY <1>3, <1>4 DEF FreshInv
    <2> QED BY <1>3, <2>1, <2>2
  <1>5. FreshInv'
    BY <1>1, <1>2, <1>4 DEF FreshInv
  <1>6. h.kind = "process" => h.id \in 1 .. inbound /\ applied[h.id] = 0
    BY <1>3 DEF FreshInv
  <1>7. receive[Main] = "waiting"
    BY <1>2 DEF GetterTakes
  <1>8. ItemInv'
    BY <1>1, <1>2, <1>6, <1>7 DEF ItemInv
  <1>9. ~draining' \/ tp' \in UnregisterPoints => NoneTwice'
    BY DEF NoneTwice
  <1> QED BY <1>5, <1>8, <1>9, OnceKeeps

LEMMA ArrivalApplied ==
  ASSUME TypeOK, TPTypeOK, AppliedInv, ReceiveInitial, UNCHANGED tpVars
  PROVE  AppliedInv'
  <1> USE DEF AppliedInv, tpVars, records
  <1>1. PICK kind \in Kinds : recvQueue' = Append(recvQueue, InitialItem(kind))
    BY DEF ReceiveInitial
  <1> DEFINE e == InitialItem(kind)
  <1>2. /\ recvQueue \in Seq(Items) /\ e \in Items /\ e.id = inbound + 1
        /\ inbound \in Nat /\ inbound' = inbound + 1 /\ inbound < MaxInbound
        /\ MaxInbound \in Nat /\ UNCHANGED <<receive, item>>
    BY BoundFacts DEF TypeOK, InitialItem, Items, ReceiveInitial
  <1>3. \A n \in DOMAIN recvQueue' :
            \/ n \in DOMAIN recvQueue /\ recvQueue'[n] = recvQueue[n]
            \/ n = Len(recvQueue) + 1 /\ recvQueue'[n] = e
    BY <1>1, <1>2, AppendFacts
  <1>4. applied[inbound + 1] = 0
    <2>1. inbound + 1 \in 1 .. MaxInbound /\ ~(inbound + 1 <= inbound)
      BY <1>2
    <2> QED BY <2>1 DEF FreshInv
  <1>5. /\ inbound + 1 \in 1 .. inbound'
        /\ 1 .. inbound \subseteq 1 .. inbound'
        /\ inbound + 1 \notin 1 .. inbound
    BY <1>2
  <1>6. \A n \in 1 .. MaxInbound : applied[n] # 0 => n <= inbound'
    BY <1>2 DEF FreshInv
  <1>7. inbound' <= MaxInbound
    BY <1>2
  <1>8. ASSUME NEW n \in DOMAIN recvQueue', recvQueue'[n].kind = "process"
        PROVE  /\ recvQueue'[n].id \in 1 .. inbound'
               /\ applied[recvQueue'[n].id] = 0
               /\ item[Main].kind = "process" =>
                      item[Main].id # recvQueue'[n].id
               /\ \A k \in DOMAIN recvQueue' :
                      recvQueue'[k].kind = "process" /\ k # n =>
                          recvQueue'[k].id # recvQueue'[n].id
    <2>1. CASE n \in DOMAIN recvQueue /\ recvQueue'[n] = recvQueue[n]
      <3>1. recvQueue[n].id \in 1 .. inbound
        BY <1>8, <2>1 DEF FreshInv
      <3> QED BY <1>2, <1>3, <1>5, <1>8, <2>1, <3>1 DEF FreshInv
    <2>2. CASE n = Len(recvQueue) + 1 /\ recvQueue'[n] = e
      <3>1. item[Main].kind = "process" => item[Main].id \in 1 .. inbound
        BY DEF ItemInv
      <3>2. \A k \in DOMAIN recvQueue :
                recvQueue[k].kind = "process" => recvQueue[k].id \in 1 .. inbound
        BY DEF FreshInv
      <3> QED BY <1>2, <1>3, <1>4, <1>5, <2>2, <3>1, <3>2
    <2> QED BY <1>3, <2>1, <2>2
  <1>9. FreshInv'
    BY <1>2, <1>6, <1>7, <1>8 DEF FreshInv
  <1>10. ItemInv'
    BY <1>2, <1>5 DEF ItemInv, NoneTwice
  <1>11. ~draining' \/ tp' \in UnregisterPoints => NoneTwice'
    BY DEF NoneTwice
  <1> QED BY <1>9, <1>10, <1>11, OnceKeeps

LEMMA LoopApplied ==
  ASSUME IInv, TPTypeOK, GetInv, AppliedInv, LoopNext, UNCHANGED tpVars
  PROVE  AppliedInv'
  <1>0. TypeOK
    BY DEF IInv
  <1>1. CASE Connect
    <2>1. \A n \in DOMAIN recvQueue' : recvQueue'[n].kind # "process"
      BY <1>1 DEF Connect, ReconnectItem
    <2> QED BY <1>1, <2>1, EmptiedApplied DEF Connect
  <1>2. CASE FailDone
    <2>1. receive[Main] = "done" => receive'[Main] = "done"
      BY <1>2, MainFacts DEF FailDone
    <2> QED BY <1>2, <2>1, EmptiedApplied DEF FailDone
  <1>3. ASSUME NEW c \in Clients, GetterTakes(c) PROVE AppliedInv'
    BY <1>0, <1>3, GetterTakesApplied
  <1>4. CASE ReceiveInitial
    BY <1>0, <1>4, ArrivalApplied
  <1>5. ASSUME NEW i \in Futures, FailFuture(i) \/ ReceiveAnswer(i)
        PROVE  AppliedInv'
    <2>1. UNCHANGED <<recvQueue, inbound, receive, item>>
      BY <1>5 DEF FailFuture, ReceiveAnswer, IInv, PlaceInv
    <2> QED BY <2>1, LoopKeeps
  <1>6. CASE ConnectFails \/ RunReturns \/ MonitorDisconnect
                \/ IterationBroken
    BY <1>6, LoopKeeps DEF ConnectFails, RunReturns, MonitorDisconnect,
       IterationBroken
  <1>7. CASE RunPut \/ RunShutdown \/ SendTask
    BY <1>7, LoopKeeps DEF RunPut, RunShutdown, SendTask
  <1>8. CASE RunGet
    <2>1. calls \in Seq(Calls) /\ calls # <<>>
      BY <1>0, <1>8 DEF TypeOK, RunGet
    <2>2. Head(calls).client = Main /\ Head(calls) = GetCall(Main)
      BY <1>8, <2>1, TailFacts, GetFacts, MainAssumption DEF RunGet
    <2>3. receive[Main] = "called"
      BY <2>1, <2>2, OccursTail DEF GetInv
    <2> QED BY <1>8, <2>3, LoopKeeps DEF RunGet
  <1>9. ASSUME NEW c \in Clients, ShutdownCancels(c) \/ DeliverCancel(c)
        PROVE  AppliedInv'
    <2>1. receive[Main] # "done"
      BY <1>9, MainAssumption DEF ShutdownCancels, DeliverCancel
    <2> QED BY <1>9, <2>1, LoopKeeps DEF ShutdownCancels, DeliverCancel
  <1> QED BY <1>1, <1>2, <1>3, <1>4, <1>5, <1>6, <1>7, <1>8, <1>9
      DEF LoopNext

-----------------------------------------------------------------------------
(* The same, at the steps of the main thread.                              *)

LEMMA CallReceiveApplied ==
  ASSUME TypeOK, AppliedInv, CallReceive
  PROVE  AppliedInv'
  <1> USE DEF AppliedInv, CallReceive, Moves, records
  <1>1. item'[Main] = NoItem /\ NoItem.kind # "process"
    BY MainFacts DEF TypeOK, Receive, NoItem
  <1>2. UNCHANGED <<recvQueue, inbound, applied, draining>>
    BY DEF Receive
  <1>3. FreshInv'
    BY <1>1, <1>2 DEF FreshInv
  <1>4. ItemInv'
    BY <1>1 DEF ItemInv
  <1>5. ~draining' \/ tp' \in UnregisterPoints => NoneTwice'
    BY <1>2 DEF NoneTwice, UnregisterPoints
  <1> QED BY <1>2, <1>3, <1>4, <1>5, OnceKeeps

\* The one action that applies a request.
LEMMA ApplyApplied ==
  ASSUME TypeOK, TPTypeOK, AppliedInv, Apply
  PROVE  AppliedInv'
  <1>0. /\ FreshInv /\ ItemInv /\ AppliedOnce
        /\ ~draining \/ tp \in UnregisterPoints => NoneTwice
    BY DEF AppliedInv
  <1> DEFINE r == item[Main].id
  <1>1. /\ tp = "process" /\ tp' = "apply"
        /\ UNCHANGED <<recvQueue, inbound, receive, item, draining>>
        /\ item[Main].kind = "process"
    BY <1>0 DEF Apply, Moves, ItemInv, vars
  <1>2. r \in 1 .. inbound /\ receive[Main] = "done"
        /\ (applied[r] = 0 \/ (draining /\ NoneTwice))
    <2>1. tp \in {"wait", "process"}
      BY <1>1
    <2>2. r \in 1 .. inbound /\ receive[Main] = "done"
      BY <1>0, <1>1 DEF ItemInv
    <2>3. applied[r] = 0 \/ (draining /\ NoneTwice)
      BY <1>0, <1>1, <2>1 DEF ItemInv
    <2> QED BY <2>2, <2>3
  <1>3. inbound <= MaxInbound /\ MaxInbound \in Nat /\ inbound \in Nat
    <2>1. inbound <= MaxInbound
      BY <1>0 DEF FreshInv
    <2>2. inbound \in Nat
      BY DEF TypeOK
    <2> QED BY <2>1, <2>2, BoundFacts
  <1>4. r \in 1 .. MaxInbound
    BY <1>2, <1>3
  <1>5. /\ \A n \in 1 .. MaxInbound : applied[n] \in Nat
        /\ applied'[r] = applied[r] + 1
        /\ \A n \in 1 .. MaxInbound : n # r => applied'[n] = applied[n]
    BY <1>4 DEF Apply, TPTypeOK
  <1>6. FreshInv'
    <2>1. \A n \in 1 .. MaxInbound : applied'[n] # 0 => n <= inbound'
      <3>1. \A n \in 1 .. MaxInbound : applied[n] # 0 => n <= inbound
        BY <1>0 DEF FreshInv
      <3>2. r <= inbound
        BY <1>2, <1>3
      <3> QED BY <1>1, <1>5, <3>1, <3>2
    <2>2. \A n \in DOMAIN recvQueue : recvQueue[n].kind = "process" =>
              /\ recvQueue[n].id \in 1 .. MaxInbound /\ recvQueue[n].id # r
              /\ applied[recvQueue[n].id] = 0
      <3>1. 1 .. inbound \subseteq 1 .. MaxInbound
        BY <1>3
      <3> QED BY <1>0, <1>1, <3>1 DEF FreshInv
    <2>3. \A n \in DOMAIN recvQueue : recvQueue[n].kind = "process" =>
              applied'[recvQueue[n].id] = 0
      BY <1>5, <2>2
    <2> QED BY <1>0, <1>1, <2>1, <2>3 DEF FreshInv
  <1>7. ItemInv'
    BY <1>1, <1>2 DEF ItemInv
  <1>8. ~draining' \/ tp' \in UnregisterPoints => NoneTwice'
    <2>1. ASSUME ~draining, NEW n \in 1 .. MaxInbound
          PROVE  applied'[n] <= 1
      BY <1>0, <1>2, <1>4, <1>5, <2>1 DEF NoneTwice
    <2> QED BY <1>1, <2>1 DEF NoneTwice, UnregisterPoints
  <1>9. AppliedOnce'
    <2>1. CASE applied[r] = 0
      BY <1>0, <1>1, <1>4, <1>5, <2>1 DEF AppliedOnce
    <2>2. CASE draining /\ NoneTwice
      BY <1>0, <1>1, <1>4, <1>5, <2>2 DEF AppliedOnce, NoneTwice
    <2> QED BY <1>2, <2>1, <2>2
  <1> QED BY <1>6, <1>7, <1>8, <1>9 DEF AppliedInv

\* The other moves: they must not begin to process, to wait or to drain
\* without cause.
Harmless ==
    /\ draining => draining'
    /\ tp' = "process" =>
           tp = "process" \/ (tp = "wait" /\ item[Main].kind = "process")
    /\ tp' = "wait" => tp = "wait" \/ (draining /\ tp \in UnregisterPoints)
    /\ tp' \in UnregisterPoints => ~draining \/ tp \in UnregisterPoints

LEMMA MoveApplied ==
  ASSUME AppliedInv, UNCHANGED <<recvQueue, inbound, item, receive, applied>>,
         Harmless
  PROVE  AppliedInv'
  <1> USE DEF AppliedInv, Harmless
  <1>1. FreshInv' /\ AppliedOnce'
    BY FreshKeeps, OnceKeeps
  <1>2. NoneTwice => NoneTwice'
    BY DEF NoneTwice
  <1>3. ItemInv'
    <2>1. tp' = "process" => item'[Main].kind = "process"
      BY DEF ItemInv
    <2>2. ASSUME item[Main].kind = "process", tp' \in {"wait", "process"}
          PROVE  applied'[item'[Main].id] = 0 \/ (draining' /\ NoneTwice')
      BY <1>2, <2>2 DEF ItemInv, UnregisterPoints
    <2> QED BY <2>1, <2>2 DEF ItemInv
  <1>4. ~draining' \/ tp' \in UnregisterPoints => NoneTwice'
    BY <1>2
  <1> QED BY <1>1, <1>3, <1>4

\* Where nothing is begun.
Elsewhere == Points \ ({"wait", "process"} \union UnregisterPoints)

LEMMA PlainMove ==
  ASSUME UNCHANGED draining, tp' \in Elsewhere \/ tp' = tp
  PROVE  Harmless
  <1>1. CASE tp' \in Elsewhere
    BY <1>1 DEF Harmless, Elsewhere
  <1>2. CASE tp' = tp /\ tp # "wait"
    <2>1. tp' \in UnregisterPoints => tp \in UnregisterPoints
      BY <1>2
    <2> QED BY <1>2, <2>1 DEF Harmless
  <1>3. CASE tp' = tp /\ tp = "wait"
    BY <1>3 DEF Harmless, UnregisterPoints
  <1> QED BY <1>1, <1>2, <1>3

LEMMA PlainPlaces ==
  {"register", "register send", "register sends", "register await", "loop",
   "stop", "stopped", "connection", "ping", "pongs", "done", "timeout",
   "crashed", "apply", "handler sends", "handler await", "respond",
   "responds"} \subseteq Elsewhere
  BY DEF Elsewhere, Points, RegisterPoints, ProcessPoints, UnregisterPoints,
     Ended

LEMMA ProgramHarmless ==
  ASSUME TPInv, AppliedInv, Program, ~CallReceive, ~Apply
  PROVE  UNCHANGED applied /\ Harmless
  <1> USE DEF Step, StepAway, Moves, Sends, SendsBack, records
  <1>1. CASE Register
    <2>1. CASE RegisterReady \/ RegisterSend \/ RegisterRefused
      <3>1. /\ UNCHANGED <<applied, draining>>
            /\ tp' \in {"register send", "register sends", "connection"}
        BY <2>1 DEF RegisterReady, RegisterSend, RegisterRefused
      <3> QED BY <3>1, PlainMove, PlainPlaces
    <2>2. CASE RegisterAllSent \/ RegisterRejected
      <3>1. /\ UNCHANGED <<applied, draining>>
            /\ tp' \in {"register await", "stop"}
        BY <2>2 DEF RegisterAllSent, RegisterRejected
      <3> QED BY <3>1, PlainMove, PlainPlaces
    <2>3. CASE RegisterAnswered
      <3>1. UNCHANGED <<applied, draining, tp>>
        BY <2>3 DEF RegisterAnswered
      <3> QED BY <3>1, PlainMove
    <2>4. CASE RegisterUnsupported
      <3>1. tp = "register await" /\ tp' = "unregister" /\ draining'
            /\ UNCHANGED applied
        BY <2>4 DEF RegisterUnsupported
      <3>2. ~draining
        BY <3>1 DEF RegisterPoints, TPInv, NothingRegisteredAfterInterrupt
      <3> QED BY <3>1, <3>2 DEF Harmless
    <2>5. CASE RegisterReturns \/ StopStream
      <3>1. UNCHANGED <<applied, draining>> /\ tp' \in {"loop", "stopped"}
        BY <2>5 DEF RegisterReturns, StopStream
      <3> QED BY <3>1, PlainMove, PlainPlaces
    <2> QED BY <1>1, <2>1, <2>2, <2>3, <2>4, <2>5 DEF Register
  <1>2. CASE Dispatch
    <2>1. CASE Cancelled \/ DrainTimesOut \/ SendPong \/ PongRefused
      <3>1. /\ UNCHANGED <<applied, draining>>
            /\ tp' \in {"loop", "done", "pongs", "connection"}
        BY <2>1 DEF Cancelled, DrainTimesOut, SendPong, PongRefused
      <3> QED BY <3>1, PlainMove, PlainPlaces
    <2>2. CASE ReconnectReceived
      <3>1. UNCHANGED <<applied, draining>> /\ tp' \in {"loop", "register"}
        BY <2>2 DEF ReconnectReceived, RegisterAgain
      <3> QED BY <3>1, PlainMove, PlainPlaces
    <2>3. CASE Received("process") /\ Step("wait", "process")
      <3>1. /\ UNCHANGED <<applied, draining>> /\ tp = "wait"
            /\ tp' = "process" /\ item[Main].kind = "process"
        BY <2>3 DEF Received
      <3>2. tp' # "wait" /\ tp' \notin UnregisterPoints
        BY <3>1 DEF UnregisterPoints
      <3> QED BY <3>1, <3>2 DEF Harmless
    <2>4. CASE \/ Received("ping") /\ Step("wait", "ping")
               \/ Received("other") /\ Step("wait", "loop")
      <3>1. UNCHANGED <<applied, draining>> /\ tp' \in {"ping", "loop"}
        BY <2>4
      <3> QED BY <3>1, PlainMove, PlainPlaces
    <2> QED BY <1>2, <2>1, <2>2, <2>3, <2>4 DEF Dispatch, MessageReceived
  <1>3. CASE Process
    <2>1. CASE NotApplied \/ StateRequest \/ HandlerDisconnected
      <3>1. UNCHANGED <<applied, draining>> /\ tp' \in {"loop", "handler sends"}
        BY <2>1 DEF NotApplied, StateRequest, HandlerDisconnected
      <3> QED BY <3>1, PlainMove, PlainPlaces
    <2>2. CASE StateAnswered \/ StateTimesOut
      <3>1. /\ UNCHANGED <<applied, draining>>
            /\ tp' \in {"apply", "respond", "done", "timeout"}
        BY <2>2 DEF StateAnswered, StateTimesOut
      <3> QED BY <3>1, PlainMove, PlainPlaces
    <2>3. CASE ApplyEnds \/ HandlerCrashes \/ Respond \/ ResponseRefused
      <3>1. /\ UNCHANGED <<applied, draining>>
            /\ tp' \in {"respond", "crashed", "stop", "responds", "loop"}
        BY <2>3 DEF ApplyEnds, HandlerCrashes, Respond, ResponseRefused
      <3> QED BY <3>1, PlainMove, PlainPlaces
    <2> QED BY <1>3, <2>1, <2>2, <2>3 DEF Process
  <1>4. CASE Unregister
    <2>1. CASE UnregisterReady \/ UnregisterSend \/ UnregisterAnswered
      <3>1. /\ UNCHANGED <<applied, draining>> /\ tp \in UnregisterPoints
            /\ tp' \in {"unregister send", "unregister sends", "drain"}
        BY <2>1 DEF UnregisterReady, UnregisterSend, UnregisterAnswered,
           UnregisterPoints
      <3> QED BY <3>1 DEF Harmless
    <2>2. CASE UnregisterRefused \/ UnregisterTimesOut
      <3>1. UNCHANGED <<applied, draining>> /\ tp' \in {"connection", "done"}
        BY <2>2 DEF UnregisterRefused, UnregisterTimesOut
      <3> QED BY <3>1, PlainMove, PlainPlaces
    <2>3. CASE DrainBegins
      <3>1. /\ UNCHANGED <<applied, draining>>
            /\ tp = "drain" /\ tp' = "wait"
        BY <2>3 DEF DrainBegins
      <3>2. tp \in UnregisterPoints /\ tp' \notin UnregisterPoints
        BY <3>1 DEF UnregisterPoints
      <3>3. draining
        BY <3>2 DEF TPInv, DrainInv
      <3> QED BY <3>1, <3>2, <3>3 DEF Harmless
    <2> QED BY <1>4, <2>1, <2>2, <2>3 DEF Unregister
  <1>5. CASE InSendCall
    <2>1. UNCHANGED <<applied, draining, tp>>
      BY <1>5 DEF InSendCall, tpVars
    <2> QED BY <2>1, PlainMove
  <1>6. CASE SendReturns
    <2>1. CASE Step("unregister sends", "unregister await")
      <3>1. /\ UNCHANGED <<applied, draining>> /\ tp \in UnregisterPoints
            /\ tp' = "unregister await"
        BY <2>1 DEF UnregisterPoints
      <3> QED BY <3>1 DEF Harmless
    <2>2. CASE ~Step("unregister sends", "unregister await")
      <3>1. /\ UNCHANGED <<applied, draining>>
            /\ tp' \in {"register", "handler await", "loop"}
        BY <1>6, <2>2 DEF SendReturns
      <3> QED BY <3>1, PlainMove, PlainPlaces
    <2> QED BY <2>1, <2>2
  <1>7. CASE NotDecoded
    <2>1. UNCHANGED <<applied, draining>> /\ tp' = "crashed"
      BY <1>7 DEF NotDecoded
    <2> QED BY <2>1, PlainMove, PlainPlaces
  <1> QED BY <1>1, <1>2, <1>3, <1>4, <1>5, <1>6, <1>7 DEF Program

LEMMA ProgramApplied ==
  ASSUME TypeOK, TPInv, AppliedInv, Program
  PROVE  AppliedInv'
  <1>1. CASE CallReceive
    BY <1>1, CallReceiveApplied DEF TPInv
  <1>2. CASE Apply
    BY <1>2, ApplyApplied DEF TPInv
  <1>3. CASE ~CallReceive /\ ~Apply
    <2>1. UNCHANGED <<recvQueue, inbound, item, receive>>
      BY <1>3, ProgramSteps DEF Calling, SendBegin, PutFuture, SendBackBegin,
         PutReturns, PutPasses, Schedule, Close, vars
    <2>2. UNCHANGED applied /\ Harmless
      BY <1>3, ProgramHarmless
    <2> QED BY <2>1, <2>2, MoveApplied
  <1> QED BY <1>1, <1>2, <1>3

LEMMA InterruptApplied ==
  ASSUME AppliedInv, Interrupt
  PROVE  AppliedInv'
  <1>1. UNCHANGED <<recvQueue, inbound, item, receive, applied>>
    BY DEF Interrupt, Interrupted, StopWaiting, vars
  <1>2. /\ draining' /\ tp' \in {"interrupted", "unregister"}
        /\ tp' = "unregister" => ~draining
    BY DEF Interrupt
  <1>3. Harmless
    BY <1>2 DEF Harmless, UnregisterPoints
  <1> QED BY <1>1, <1>3, MoveApplied

LEMMA AppliedStep ==
  ASSUME IInv, TPInv, AppliedInv, [TPNext]_allVars
  PROVE  AppliedInv'
  <1>0. TypeOK
    BY DEF IInv
  <1>1. CASE LoopNext /\ UNCHANGED tpVars
    BY <1>1, LoopApplied DEF TPInv
  <1>2. CASE Program
    BY <1>0, <1>2, ProgramApplied
  <1>3. CASE Interrupt
    BY <1>3, InterruptApplied
  <1>4. CASE UNCHANGED allVars
    BY <1>4, LoopKeeps DEF allVars, vars
  <1> QED BY <1>1, <1>2, <1>3, <1>4 DEF TPNext

LEMMA AppliedInit == TPInit => AppliedInv
  <1> SUFFICES ASSUME TPInit PROVE AppliedInv
    OBVIOUS
  <1>1. /\ inbound = 0 /\ recvQueue = <<>> /\ item[Main].kind = "none"
        /\ tp = "register" /\ ~draining
        /\ \A n \in 1 .. MaxInbound : applied[n] = 0
    BY MainFacts DEF TPInit, Init, NoItem
  <1>2. FreshInv
    BY <1>1, BoundFacts DEF FreshInv
  <1>3. ItemInv /\ NoneTwice /\ AppliedOnce
    BY <1>1 DEF ItemInv, NoneTwice, AppliedOnce
  <1> QED BY <1>2, <1>3 DEF AppliedInv

\* The handler is called once for a request, the last one before an interrupt
\* apart, whatever the connection does (core.py:310, 322).
THEOREM AppliesOnce == TPSpec => []AppliedOnce
  <1>1. TPInit => AppliedInv
    BY AppliedInit
  <1>2. IInv /\ TPInv /\ AppliedInv /\ [TPNext]_allVars => AppliedInv'
    BY AppliedStep
  <1>3. TPSpec => []IInv
    BY UsesStream, Invariant, PTL
  <1>4. AppliedInv => AppliedOnce
    BY DEF AppliedInv
  <1> QED BY <1>1, <1>2, <1>3, <1>4, TPInvariant, PTL DEF TPSpec
=============================================================================
