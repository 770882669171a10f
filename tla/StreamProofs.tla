---------------------------- MODULE StreamProofs ----------------------------
(***************************************************************************)
(* Proofs about Stream for any clients, futures and bounds: the inductive  *)
(* invariant IInv, the safety properties it implies, and that Stream       *)
(* implements RequestReply.                                                *)
(***************************************************************************)
EXTENDS Stream, TLAPS

USE DEF threadVars, queueVars, futureVars, sweepVars, clientVars, receiveVars,
        worldVars

-----------------------------------------------------------------------------
(* Sequences used as queues.                                               *)

\* What Append does to a sequence (a queue's put).
LEMMA AppendFacts ==
  ASSUME NEW S, NEW s \in Seq(S), NEW e \in S
  PROVE  /\ Append(s, e) \in Seq(S)
         /\ DOMAIN s = 1 .. Len(s)
         /\ Len(s) \in Nat
         /\ DOMAIN Append(s, e) = 1 .. (Len(s) + 1)
         /\ \A n \in DOMAIN s : Append(s, e)[n] = s[n]
         /\ Append(s, e)[Len(s) + 1] = e
  OBVIOUS

\* What Tail leaves of a sequence (a queue's get).
LEMMA TailFacts ==
  ASSUME NEW S, NEW s \in Seq(S), s # <<>>
  PROVE  /\ Tail(s) \in Seq(S)
         /\ Head(s) \in S
         /\ Head(s) = s[1]
         /\ Len(s) \in Nat \ {0}
         /\ DOMAIN s = 1 .. Len(s)
         /\ DOMAIN Tail(s) = 1 .. (Len(s) - 1)
         /\ \A n \in DOMAIN Tail(s) : Tail(s)[n] = s[n + 1]
  OBVIOUS

\* An element of a queue after a put is an old one or the new one.
LEMMA OccursAppend ==
  ASSUME NEW S, NEW s \in Seq(S), NEW e \in S, NEW x
  PROVE  Occurs(Append(s, e), x) <=> Occurs(s, x) \/ x = e
  <1>1. Occurs(s, x) => Occurs(Append(s, e), x)
    BY AppendFacts DEF Occurs
  <1>2. x = e => Occurs(Append(s, e), x)
    BY AppendFacts DEF Occurs
  <1>3. Occurs(Append(s, e), x) => Occurs(s, x) \/ x = e
    BY AppendFacts DEF Occurs
  <1> QED BY <1>1, <1>2, <1>3

\* A get takes an element that was there, and adds none.
LEMMA OccursTail ==
  ASSUME NEW S, NEW s \in Seq(S), s # <<>>
  PROVE  /\ Occurs(s, Head(s))
         /\ \A x : Occurs(Tail(s), x) => Occurs(s, x)
         /\ \A x : Occurs(s, x) => x = Head(s) \/ Occurs(Tail(s), x)
  <1>1. Occurs(s, Head(s)) /\ \A x : Occurs(Tail(s), x) => Occurs(s, x)
    BY TailFacts DEF Occurs
  <1>2. ASSUME NEW x, Occurs(s, x), x # Head(s)
        PROVE  Occurs(Tail(s), x)
    <2>1. PICK n \in DOMAIN s : s[n] = x
      BY <1>2 DEF Occurs
    <2>2. n # 1 /\ n - 1 \in DOMAIN Tail(s) /\ Tail(s)[n - 1] = x
      BY <2>1, <1>2, TailFacts
    <2> QED BY <2>2 DEF Occurs
  <1> QED BY <1>1, <1>2

\* Putting what is not there yet keeps elements single.
LEMMA AtMostOnceAppend ==
  ASSUME NEW S, NEW s \in Seq(S), NEW e \in S, NEW E,
         AtMostOnce(s, E), e \in E => ~Occurs(s, e)
  PROVE  AtMostOnce(Append(s, e), E)
  BY AppendFacts DEF AtMostOnce, Occurs

\* Taking a single element leaves no other copy of it.
LEMMA AtMostOnceTail ==
  ASSUME NEW S, NEW s \in Seq(S), s # <<>>, NEW E, AtMostOnce(s, E)
  PROVE  /\ AtMostOnce(Tail(s), E)
         /\ Head(s) \in E => ~Occurs(Tail(s), Head(s))
  BY TailFacts DEF AtMostOnce, Occurs

\* The empty queue.
LEMMA EmptyFacts ==
  ASSUME NEW S
  PROVE  /\ <<>> \in Seq(S)
         /\ \A x : ~Occurs(<<>>, x)
         /\ \A E : AtMostOnce(<<>>, E)
  BY DEF Occurs, AtMostOnce

\* The callbacks given to the loop are told apart by kind and message.
LEMMA CallFacts ==
  /\ \A m \in Messages : PutCall(m) \in Calls
  /\ \A c \in Clients : GetCall(c) \in Calls
  /\ \A cs \in SUBSET Clients : ShutdownCall(cs) \in Calls
  /\ \A m, n : PutCall(m) = PutCall(n) => m = n
  /\ \A m, c : PutCall(m) # GetCall(c)
  /\ \A m, cs : PutCall(m) # ShutdownCall(cs)
  /\ \A c, cs : GetCall(c) # ShutdownCall(cs)
  <1> USE DEF Messages, Calls, PutCall, GetCall, ShutdownCall
  <1>1. /\ \A m \in Messages : PutCall(m) \in Calls
        /\ \A c \in Clients : GetCall(c) \in Calls
        /\ \A cs \in SUBSET Clients : ShutdownCall(cs) \in Calls
    OBVIOUS
  <1>2. /\ \A m, n : PutCall(m) = PutCall(n) => m = n
        /\ \A m, c : PutCall(m) # GetCall(c)
        /\ \A m, cs : PutCall(m) # ShutdownCall(cs)
        /\ \A c, cs : GetCall(c) # ShutdownCall(cs)
    <2>1. \A m, n : PutCall(m) = PutCall(n) => m = n
      <3> SUFFICES ASSUME NEW m, NEW n, PutCall(m) = PutCall(n) PROVE m = n
        OBVIOUS
      <3>1. PutCall(m).message = m /\ PutCall(n).message = n
        OBVIOUS
      <3> QED BY <3>1
    <2>2. \A m, c : PutCall(m).kind # GetCall(c).kind
      OBVIOUS
    <2>3. \A m, cs : PutCall(m).kind # ShutdownCall(cs).kind
      OBVIOUS
    <2>4. \A c, cs : GetCall(c).kind # ShutdownCall(cs).kind
      OBVIOUS
    <2> QED BY <2>1, <2>2, <2>3, <2>4
  <1> QED BY <1>1, <1>2

\* A callback is one of the three kinds, with what that kind carries.
LEMMA PutFacts ==
  ASSUME NEW k \in Calls, k.kind = "put"
  PROVE  k.message \in Messages /\ k = PutCall(k.message)
  BY DEF Calls, PutCall

LEMMA GetFacts ==
  ASSUME NEW k \in Calls, k.kind = "get"
  PROVE  k.client \in Clients /\ k = GetCall(k.client)
  BY DEF Calls, GetCall

LEMMA ShutdownFacts ==
  ASSUME NEW k \in Calls, k.kind = "shutdown"
  PROVE  k.getters \in SUBSET Clients /\ k = ShutdownCall(k.getters)
  BY DEF Calls, ShutdownCall

-----------------------------------------------------------------------------
(* The initial states.                                                     *)

\* The invariant holds before the first connection.
LEMMA InitIInv == Init => IInv
  <1> SUFFICES ASSUME Init PROVE IInv
    OBVIOUS
  <1> USE DEF Init
  <1>1. TypeOK
    BY EmptyFacts DEF TypeOK, LoopStates, Messages, ClientStates,
       ReceiveStates, Items, NoItem
  <1>2. LoopInv /\ CloseInv /\ SweepInv /\ FutureInv
    BY EmptyFacts DEF LoopInv, CloseInv, SweepInv, FutureInv
  <1>3. SendInv /\ PlaceInv /\ NoStrayAnswer /\ CallsKept
    BY EmptyFacts DEF SendInv, PlaceInv, NoStrayAnswer, Sending, InCalls,
       InSendQueue, NoItem, CallsKept, Shutdown
  <1> QED BY <1>1, <1>2, <1>3 DEF IInv

-----------------------------------------------------------------------------
(* The steps of the background thread and of the clients.                  *)

\* New queues: nothing is under way in them.
LEMMA ConnectStep ==
  ASSUME IInv, Connect
  PROVE  IInv'
  <1> USE DEF IInv, Connect
  <1>a. sendQueue' = sendQueue
    BY DEF LoopInv
  <1>b. ReconnectItem \in Items
    BY DEF TypeOK, Items, ReconnectItem
  <1>q. sendQueue' = sendQueue /\ recvQueue' \in Seq(Items)
    BY <1>a, <1>b, EmptyFacts
  <1>1. TypeOK'
    BY <1>q DEF TypeOK, LoopStates, Items
  <1>2. LoopInv'
    BY DEF LoopInv, Shutdown, TypeOK
  <1>3. SweepInv'
    BY DEF SweepInv, LoopInv
  <1>4. SendInv'
    BY <1>q DEF SendInv, Sending, InCalls, InSendQueue
  <1>5. PlaceInv'
    BY <1>q DEF PlaceInv, InCalls, InSendQueue
  <1>6. NoStrayAnswer'
    BY DEF NoStrayAnswer, ReconnectItem
  <1>7. CloseInv' /\ FutureInv'
    BY DEF CloseInv, Shutdown, FutureInv
  <1>g. CallsKept'
    BY DEF CallsKept, Shutdown
  <1> QED BY <1>1, <1>2, <1>3, <1>4, <1>5, <1>6, <1>7, <1>g

\* ConnectFails preserves the invariant.
LEMMA ConnectFailsStep ==
  ASSUME IInv, ConnectFails
  PROVE  IInv'
  <1> USE DEF IInv, ConnectFails
  <1>1. TypeOK'
    BY DEF TypeOK, LoopStates
  <1>2. LoopInv'
    BY DEF LoopInv, Shutdown
  <1>3. SweepInv'
    BY DEF SweepInv
  <1>4. CloseInv' /\ FutureInv' /\ SendInv' /\ PlaceInv' /\ NoStrayAnswer'
    BY DEF CloseInv, Shutdown, FutureInv, SendInv, Sending, InCalls,
       InSendQueue, PlaceInv, NoStrayAnswer
  <1>g. CallsKept'
    BY DEF CallsKept, Shutdown
  <1> QED BY <1>1, <1>2, <1>3, <1>4, <1>g

\* RunReturns preserves the invariant.
LEMMA RunReturnsStep ==
  ASSUME IInv, RunReturns
  PROVE  IInv'
  <1> USE DEF IInv, RunReturns
  <1>1. TypeOK'
    BY DEF TypeOK, LoopStates
  <1>2. LoopInv'
    BY DEF LoopInv, Shutdown
  <1>3. SweepInv'
    BY DEF SweepInv
  <1>4. CloseInv' /\ FutureInv' /\ SendInv' /\ PlaceInv' /\ NoStrayAnswer'
    BY DEF CloseInv, Shutdown, FutureInv, SendInv, Sending, InCalls,
       InSendQueue, PlaceInv, NoStrayAnswer
  <1>g. CallsKept'
    BY DEF CallsKept, Shutdown
  <1> QED BY <1>1, <1>2, <1>3, <1>4, <1>g

\* The sweep begins with the whole collection.
LEMMA MonitorDisconnectStep ==
  ASSUME IInv, MonitorDisconnect
  PROVE  IInv'
  <1> USE DEF IInv, MonitorDisconnect
  <1>1. TypeOK'
    BY DEF TypeOK, LoopStates
  <1>2. LoopInv'
    BY DEF LoopInv
  <1>3. SweepInv'
    BY DEF SweepInv
  <1>4. SendInv'
    BY DEF SendInv, Sending, InCalls, InSendQueue
  <1>5. PlaceInv'
    BY DEF PlaceInv, InCalls, InSendQueue
  <1>6. CloseInv' /\ FutureInv' /\ NoStrayAnswer'
    BY DEF CloseInv, Shutdown, FutureInv, NoStrayAnswer
  <1>g. CallsKept'
    BY DEF CallsKept, Shutdown
  <1> QED BY <1>1, <1>2, <1>3, <1>4, <1>5, <1>6, <1>g

\* A future of the collection, which has no answer, is failed.
LEMMA FailFutureStep ==
  ASSUME NEW i \in Futures, IInv, FailFuture(i)
  PROVE  IInv'
  <1> USE DEF IInv, FailFuture
  <1>1. TypeOK'
    BY DEF TypeOK
  <1>2. SweepInv'
    BY DEF TypeOK, SweepInv
  <1>3. FutureInv'
    BY DEF TypeOK, FutureInv, SweepInv
  <1>4. SendInv'
    BY DEF TypeOK, SendInv, Sending, SweepInv, InCalls, InSendQueue
  <1>5. LoopInv' /\ CloseInv' /\ PlaceInv' /\ NoStrayAnswer'
    BY DEF LoopInv, Shutdown, CloseInv, PlaceInv, InCalls, InSendQueue,
       NoStrayAnswer
  <1>g. CallsKept'
    BY DEF CallsKept, Shutdown
  <1> QED BY <1>1, <1>2, <1>3, <1>4, <1>5, <1>g

\* IterationBroken preserves the invariant.
LEMMA IterationBrokenStep ==
  ASSUME IInv, IterationBroken
  PROVE  IInv'
  <1> USE DEF IInv, IterationBroken
  <1>1. TypeOK'
    BY DEF TypeOK, LoopStates
  <1>2. LoopInv'
    BY DEF LoopInv
  <1>3. SweepInv'
    BY DEF SweepInv
  <1>4. CloseInv' /\ FutureInv' /\ SendInv' /\ PlaceInv' /\ NoStrayAnswer'
    BY DEF CloseInv, Shutdown, FutureInv, SendInv, Sending, InCalls,
       InSendQueue, PlaceInv, NoStrayAnswer
  <1>g. CallsKept'
    BY DEF CallsKept, Shutdown
  <1> QED BY <1>1, <1>2, <1>3, <1>4, <1>g

\* The requests in the send queue are dropped.
LEMMA FailDoneStep ==
  ASSUME IInv, FailDone
  PROVE  IInv'
  <1> USE DEF IInv, FailDone
  <1>1. TypeOK'
    BY EmptyFacts DEF TypeOK, LoopStates, ReceiveStates
  <1>2. LoopInv'
    BY DEF LoopInv
  <1>3. SweepInv'
    BY DEF SweepInv
  <1>4. SendInv'
    BY EmptyFacts DEF SendInv, Sending, InCalls, InSendQueue
  <1>5. PlaceInv'
    BY EmptyFacts DEF PlaceInv, InCalls, InSendQueue
  <1>6. NoStrayAnswer'
    BY DEF NoStrayAnswer
  <1>7. CloseInv' /\ FutureInv'
    BY DEF CloseInv, Shutdown, FutureInv
  <1>g. CallsKept'
    BY DEF TypeOK, CallsKept, Shutdown
  <1> QED BY <1>1, <1>2, <1>3, <1>4, <1>5, <1>6, <1>7, <1>g

\* A request moves from the callbacks to the send queue.
LEMMA RunPutStep ==
  ASSUME IInv, RunPut
  PROVE  IInv'
  <1> USE DEF IInv, RunPut
  <1>q. /\ calls \in Seq(Calls) /\ sendQueue \in Seq(Messages)
        /\ Head(calls) \in Calls /\ Tail(calls) \in Seq(Calls)
    BY TailFacts DEF TypeOK
  <1> DEFINE m == Head(calls).message
  <1>m. m \in Messages /\ Head(calls) = PutCall(m)
    BY <1>q, PutFacts
  <1>c. /\ \A i : InCalls(i)' => InCalls(i)
        /\ InCalls(m)
    BY <1>q, <1>m, OccursTail DEF InCalls
  <1>s. \A i : InSendQueue(i)' <=> InSendQueue(i) \/ i = m
    BY <1>q, <1>m, OccursAppend DEF InSendQueue
  <1>d. /\ AtMostOnce(calls', PutCalls)
        /\ \A i \in Futures : InCalls(i)' => i # m
    BY <1>q, <1>m, AtMostOnceTail DEF PlaceInv, PutCalls, InCalls
  <1>e. AtMostOnce(sendQueue', Futures)
    <2>1. m \in Futures => ~Occurs(sendQueue, m)
      BY <1>c DEF PlaceInv, InSendQueue
    <2> QED BY <2>1, <1>q, <1>m, AtMostOnceAppend DEF PlaceInv
  <1>k. \A e : Occurs(calls', e) => Occurs(calls, e)
    BY <1>q, OccursTail
  <1>1. TypeOK'
    BY <1>q, <1>m, AppendFacts DEF TypeOK
  <1>2. LoopInv'
    BY DEF LoopInv, LoopRuns
  <1>3. CloseInv'
    BY <1>k DEF CloseInv, Shutdown
  <1>4. SendInv'
    BY <1>m, <1>c, <1>s DEF SendInv, Sending
  <1>5. PlaceInv'
    BY <1>c, <1>s, <1>d, <1>e DEF PlaceInv
  <1>6. SweepInv' /\ FutureInv' /\ NoStrayAnswer'
    BY DEF SweepInv, FutureInv, NoStrayAnswer
  <1>g. CallsKept'
    <2>1. \A e : Occurs(calls, e) => e = Head(calls) \/ Occurs(calls', e)
      BY <1>q, OccursTail
    <2>2. /\ \A cs \in SUBSET Clients : Head(calls) # ShutdownCall(cs)
          /\ \A c \in Clients : Head(calls) # GetCall(c)
      BY <1>m, CallFacts
    <2> QED BY <2>1, <2>2 DEF CallsKept, Shutdown
  <1> QED BY <1>1, <1>2, <1>3, <1>4, <1>5, <1>6, <1>g

\* RunGet preserves the invariant.
LEMMA RunGetStep ==
  ASSUME IInv, RunGet
  PROVE  IInv'
  <1> USE DEF IInv, RunGet
  <1>q. /\ calls \in Seq(Calls) /\ sendQueue \in Seq(Messages)
        /\ Head(calls) \in Calls /\ Tail(calls) \in Seq(Calls)
    BY TailFacts DEF TypeOK
  <1>c. \A i : InCalls(i)' => InCalls(i)
    BY <1>q, OccursTail DEF InCalls
  <1>k. \A e : Occurs(calls', e) => Occurs(calls, e)
    BY <1>q, OccursTail
  <1>1. TypeOK'
    BY <1>q, GetFacts DEF TypeOK, ReceiveStates
  <1>2. CloseInv'
    BY <1>k DEF CloseInv, Shutdown
  <1>3. SendInv'
    BY <1>c DEF SendInv, Sending, InSendQueue
  <1>4. PlaceInv'
    BY <1>q, <1>c, AtMostOnceTail DEF PlaceInv, InSendQueue
  <1>5. LoopInv' /\ SweepInv' /\ FutureInv' /\ NoStrayAnswer'
    BY DEF LoopInv, Shutdown, SweepInv, FutureInv, NoStrayAnswer
  <1>g. CallsKept'
    <2>1. \A e : Occurs(calls, e) => e = Head(calls) \/ Occurs(calls', e)
      BY <1>q, OccursTail
    <2> DEFINE d == Head(calls).client
    <2>2. d \in Clients /\ Head(calls) = GetCall(d)
      BY <1>q, GetFacts
    <2>3. /\ \A cs \in SUBSET Clients : Head(calls) # ShutdownCall(cs)
          /\ \A c \in Clients \ {d} : Head(calls) # GetCall(c)
      <3>1. \A c : GetCall(c).client = c
        BY DEF GetCall
      <3> QED BY <2>2, <3>1, CallFacts
    <2>4. /\ receive'[d] = "waiting"
          /\ \A c \in Clients \ {d} : receive'[c] = receive[c]
      BY <2>2 DEF TypeOK
    <2>5. loop' \in {"running", "wedged"}
      BY DEF LoopRuns
    <2> QED BY <2>1, <2>3, <2>4, <2>5 DEF CallsKept, Shutdown
  <1> QED BY <1>1, <1>2, <1>3, <1>4, <1>5, <1>g

\* ShutdownCancels preserves the invariant.
LEMMA ShutdownCancelsStep ==
  ASSUME NEW c \in Clients, IInv, ShutdownCancels(c)
  PROVE  IInv'
  <1> USE DEF IInv, ShutdownCancels
  <1>1. TypeOK'
    BY DEF TypeOK, ReceiveStates
  <1>2. /\ LoopInv'
        /\ CloseInv'
        /\ SweepInv'
        /\ FutureInv'
        /\ SendInv'
        /\ PlaceInv'
        /\ NoStrayAnswer'
    BY DEF LoopInv, Shutdown, CloseInv, SweepInv, FutureInv, SendInv,
       Sending, InCalls, InSendQueue, PlaceInv, NoStrayAnswer
  <1>g. CallsKept'
    BY DEF TypeOK, CallsKept, Shutdown
  <1> QED BY <1>1, <1>2, <1>g

\* A close is under way: this is what entitles the thread to end.
LEMMA RunShutdownStep ==
  ASSUME IInv, RunShutdown
  PROVE  IInv'
  <1> USE DEF IInv, RunShutdown
  <1>q. /\ calls \in Seq(Calls) /\ sendQueue \in Seq(Messages)
        /\ Head(calls) \in Calls /\ Tail(calls) \in Seq(Calls)
    BY TailFacts DEF TypeOK
  <1>c. \A i : InCalls(i)' => InCalls(i)
    BY <1>q, OccursTail DEF InCalls
  <1>k. \A e : Occurs(calls', e) => Occurs(calls, e)
    BY <1>q, OccursTail
  <1>b. Occurs(calls, Head(calls)) /\ Head(calls) \in Calls
    BY <1>q, OccursTail
  <1>h. epoch \in Nat /\ closes \in Nat /\ Shutdown
    BY <1>b, ShutdownFacts DEF TypeOK, CloseInv
  <1>1. TypeOK'
    BY <1>q DEF TypeOK, LoopStates
  <1>2. LoopInv'
    BY <1>h DEF LoopInv, LoopRuns, TypeOK, Shutdown
  <1>3. CloseInv'
    BY <1>k DEF CloseInv, Shutdown
  <1>4. SweepInv'
    BY DEF SweepInv, LoopRuns
  <1>5. SendInv'
    BY <1>c DEF SendInv, Sending, InSendQueue
  <1>6. PlaceInv'
    BY <1>q, <1>c, AtMostOnceTail DEF PlaceInv, InSendQueue
  <1>7. FutureInv' /\ NoStrayAnswer'
    BY DEF FutureInv, NoStrayAnswer
  <1>g. CallsKept'
    <2>1. \A e : Occurs(calls, e) => e = Head(calls) \/ Occurs(calls', e)
      BY <1>q, OccursTail
    <2>2. \A c \in Clients : Head(calls) # GetCall(c)
      BY <1>q, ShutdownFacts, CallFacts
    <2> QED BY <1>h, <2>1, <2>2 DEF CallsKept, Shutdown
  <1> QED BY <1>1, <1>2, <1>3, <1>4, <1>5, <1>6, <1>7, <1>g

\* GetterTakes preserves the invariant.
LEMMA GetterTakesStep ==
  ASSUME NEW c \in Clients, IInv, GetterTakes(c)
  PROVE  IInv'
  <1> USE DEF IInv, GetterTakes
  <1>q. /\ recvQueue \in Seq(Items)
        /\ Head(recvQueue) \in Items /\ Tail(recvQueue) \in Seq(Items)
    BY TailFacts DEF TypeOK
  <1>1. TypeOK'
    BY <1>q DEF TypeOK, ReceiveStates
  <1>2. NoStrayAnswer'
    BY <1>q, TailFacts DEF NoStrayAnswer, TypeOK
  <1>3. /\ LoopInv'
        /\ CloseInv'
        /\ SweepInv'
        /\ FutureInv'
        /\ SendInv'
        /\ PlaceInv'
    BY DEF LoopInv, Shutdown, CloseInv, SweepInv, FutureInv, SendInv,
       Sending, InCalls, InSendQueue, PlaceInv
  <1>g. CallsKept'
    BY DEF TypeOK, CallsKept, Shutdown
  <1> QED BY <1>1, <1>2, <1>3, <1>g

\* DeliverCancel preserves the invariant.
LEMMA DeliverCancelStep ==
  ASSUME NEW c \in Clients, IInv, DeliverCancel(c)
  PROVE  IInv'
  <1> USE DEF IInv, DeliverCancel
  <1>1. TypeOK'
    BY DEF TypeOK, ReceiveStates
  <1>2. /\ LoopInv'
        /\ CloseInv'
        /\ SweepInv'
        /\ FutureInv'
        /\ SendInv'
        /\ PlaceInv'
        /\ NoStrayAnswer'
    BY DEF LoopInv, Shutdown, CloseInv, SweepInv, FutureInv, SendInv,
       Sending, InCalls, InSendQueue, PlaceInv, NoStrayAnswer
  <1>g. CallsKept'
    BY DEF TypeOK, CallsKept, Shutdown
  <1> QED BY <1>1, <1>2, <1>g

\* A request moves from the send queue to the validator.
LEMMA SendTaskStep ==
  ASSUME IInv, SendTask
  PROVE  IInv'
  <1> USE DEF IInv, SendTask
  <1>q. /\ sendQueue \in Seq(Messages)
        /\ Head(sendQueue) \in Messages /\ Tail(sendQueue) \in Seq(Messages)
    BY TailFacts DEF TypeOK
  <1>s. /\ \A i : InSendQueue(i)' => InSendQueue(i)
        /\ InSendQueue(Head(sendQueue))
    BY <1>q, OccursTail DEF InSendQueue
  <1>d. /\ AtMostOnce(sendQueue', Futures)
        /\ \A i \in Futures : InSendQueue(i)' => i # Head(sendQueue)
    BY <1>q, AtMostOnceTail DEF PlaceInv, InSendQueue
  <1>1. TypeOK'
    BY <1>q DEF TypeOK, Messages
  <1>2. LoopInv'
    BY DEF LoopInv
  <1>3. SendInv'
    BY <1>s DEF SendInv, Sending, InCalls
  <1>4. PlaceInv'
    BY <1>s, <1>d DEF PlaceInv, InCalls
  <1>5. CloseInv' /\ SweepInv' /\ FutureInv' /\ NoStrayAnswer'
    BY DEF CloseInv, Shutdown, SweepInv, FutureInv, NoStrayAnswer
  <1>g. CallsKept'
    BY DEF CallsKept, Shutdown
  <1> QED BY <1>1, <1>2, <1>3, <1>4, <1>5, <1>g

\* The answered request was nowhere but at the validator.
LEMMA ReceiveAnswerStep ==
  ASSUME NEW i \in Futures, IInv, ReceiveAnswer(i)
  PROVE  IInv'
  <1> USE DEF IInv, ReceiveAnswer
  <1>q. i \in futures
    BY DEF PlaceInv
  <1>1. TypeOK'
    BY <1>q DEF TypeOK
  <1>2. SweepInv'
    BY DEF SweepInv
  <1>3. FutureInv'
    BY DEF TypeOK, FutureInv
  <1>4. SendInv'
    BY DEF TypeOK, SendInv, Sending, InCalls, InSendQueue
  <1>5. PlaceInv'
    BY DEF PlaceInv, InCalls, InSendQueue
  <1>6. NoStrayAnswer'
    BY DEF NoStrayAnswer, PlaceInv
  <1>7. LoopInv' /\ CloseInv'
    BY DEF LoopInv, Shutdown, CloseInv
  <1>g. CallsKept'
    BY DEF CallsKept, Shutdown
  <1> QED BY <1>1, <1>2, <1>3, <1>4, <1>5, <1>6, <1>7, <1>g

\* ReceiveInitial preserves the invariant.
LEMMA ReceiveInitialStep ==
  ASSUME IInv, ReceiveInitial
  PROVE  IInv'
  <1> USE DEF IInv, ReceiveInitial
  <1>n. PICK kind \in Kinds : recvQueue' = Append(recvQueue, InitialItem(kind))
    OBVIOUS
  <1>q. InitialItem(kind) \in Items /\ InitialItem(kind).kind # "stray"
    BY KindsAssumption DEF InitialItem, Items, TypeOK
  <1>1. TypeOK'
    BY <1>q, <1>n, AppendFacts DEF TypeOK
  <1>2. NoStrayAnswer'
    BY <1>q, <1>n, AppendFacts DEF NoStrayAnswer, TypeOK
  <1>3. /\ LoopInv'
        /\ CloseInv'
        /\ SweepInv'
        /\ FutureInv'
        /\ SendInv'
        /\ PlaceInv'
    BY DEF LoopInv, Shutdown, CloseInv, SweepInv, FutureInv, SendInv,
       Sending, InCalls, InSendQueue, PlaceInv
  <1>g. CallsKept'
    BY DEF CallsKept, Shutdown
  <1> QED BY <1>1, <1>2, <1>3, <1>g

\* A request is created, and is nowhere yet.
LEMMA SendBeginStep ==
  ASSUME NEW c \in Clients, NEW i \in Futures, IInv, SendBegin(c, i)
  PROVE  IInv'
  <1> USE DEF IInv, SendBegin
  <1>q. /\ i \notin futures /\ i \notin atValidator
        /\ ~InCalls(i) /\ ~InSendQueue(i)
        /\ result[i] = "none"
    BY DEF FutureInv, PlaceInv
  <1>1. TypeOK'
    BY DEF TypeOK, Messages, ClientStates
  <1>2. FutureInv'
    BY FuturesAssumption DEF TypeOK, FutureInv
  <1>3. SendInv'
    BY <1>q, FuturesAssumption DEF TypeOK, SendInv, Sending, InCalls,
       InSendQueue
  <1>4. LoopInv' /\ CloseInv' /\ SweepInv' /\ PlaceInv' /\ NoStrayAnswer'
    BY DEF LoopInv, Shutdown, CloseInv, SweepInv, PlaceInv, InCalls,
       InSendQueue, NoStrayAnswer
  <1>g. CallsKept'
    BY DEF CallsKept, Shutdown
  <1> QED BY <1>1, <1>2, <1>3, <1>4, <1>g

\* The owner registers its request, before anything can send it.
LEMMA PutFutureStep ==
  ASSUME NEW c \in Clients, IInv, PutFuture(c)
  PROVE  IInv'
  <1> USE DEF IInv, PutFuture
  <1>q. /\ cur[c] \in Futures
        /\ owner[cur[c]] = c
        /\ result[cur[c]] = "none"
        /\ c # NoOne
    BY FuturesAssumption DEF SendInv, Sending
  <1>1. TypeOK'
    BY <1>q DEF TypeOK, ClientStates
  <1>2. SweepInv'
    BY DEF SweepInv
  <1>3. FutureInv'
    BY <1>q DEF FutureInv
  <1>4. SendInv'
    BY <1>q DEF TypeOK, SendInv, Sending, InCalls, InSendQueue
  <1>5. PlaceInv'
    BY <1>q DEF PlaceInv, InCalls, InSendQueue
  <1>6. LoopInv' /\ CloseInv' /\ NoStrayAnswer'
    BY DEF LoopInv, Shutdown, CloseInv, NoStrayAnswer
  <1>g. CallsKept'
    BY DEF CallsKept, Shutdown
  <1> QED BY <1>1, <1>2, <1>3, <1>4, <1>5, <1>6, <1>g

\* SendBackBegin preserves the invariant.
LEMMA SendBackBeginStep ==
  ASSUME NEW c \in Clients, IInv, SendBackBegin(c)
  PROVE  IInv'
  <1> USE DEF IInv, SendBackBegin
  <1>1. TypeOK'
    BY DEF TypeOK, Messages, ClientStates
  <1>2. SendInv'
    BY FuturesAssumption DEF TypeOK, SendInv, Sending, InCalls,
       InSendQueue
  <1>3. /\ LoopInv'
        /\ CloseInv'
        /\ SweepInv'
        /\ FutureInv'
        /\ PlaceInv'
        /\ NoStrayAnswer'
    BY DEF LoopInv, Shutdown, CloseInv, SweepInv, FutureInv, PlaceInv,
       InCalls, InSendQueue, NoStrayAnswer
  <1>g. CallsKept'
    BY DEF CallsKept, Shutdown
  <1> QED BY <1>1, <1>2, <1>3, <1>g

\* PutReturns preserves the invariant.
LEMMA PutReturnsStep ==
  ASSUME NEW c \in Clients, IInv, PutReturns(c)
  PROVE  IInv'
  <1> USE DEF IInv, PutReturns
  <1>1. TypeOK'
    BY DEF TypeOK, Messages, ClientStates
  <1>2. SendInv'
    BY FuturesAssumption DEF TypeOK, SendInv, Sending, InCalls,
       InSendQueue
  <1>3. /\ LoopInv'
        /\ CloseInv'
        /\ SweepInv'
        /\ FutureInv'
        /\ PlaceInv'
        /\ NoStrayAnswer'
    BY DEF LoopInv, Shutdown, CloseInv, SweepInv, FutureInv, PlaceInv,
       InCalls, InSendQueue, NoStrayAnswer
  <1>g. CallsKept'
    BY DEF CallsKept, Shutdown
  <1> QED BY <1>1, <1>2, <1>3, <1>g

\* PutPasses preserves the invariant.
LEMMA PutPassesStep ==
  ASSUME NEW c \in Clients, IInv, PutPasses(c)
  PROVE  IInv'
  <1> USE DEF IInv, PutPasses
  <1>1. TypeOK'
    BY DEF TypeOK, Messages, ClientStates
  <1>2. SendInv'
    BY FuturesAssumption DEF TypeOK, SendInv, Sending, InCalls,
       InSendQueue
  <1>3. /\ LoopInv'
        /\ CloseInv'
        /\ SweepInv'
        /\ FutureInv'
        /\ PlaceInv'
        /\ NoStrayAnswer'
    BY DEF LoopInv, Shutdown, CloseInv, SweepInv, FutureInv, PlaceInv,
       InCalls, InSendQueue, NoStrayAnswer
  <1>g. CallsKept'
    BY DEF CallsKept, Shutdown
  <1> QED BY <1>1, <1>2, <1>3, <1>g

\* A request moves from its owner to the callbacks.
LEMMA ScheduleStep ==
  ASSUME NEW c \in Clients, IInv, Schedule(c)
  PROVE  IInv'
  <1> USE DEF IInv, Schedule
  <1>q. /\ calls \in Seq(Calls)
        /\ PutCall(cur[c]) \in Calls
    BY CallFacts DEF TypeOK
  <1>c. \A i : InCalls(i)' <=> InCalls(i) \/ i = cur[c]
    BY <1>q, OccursAppend, CallFacts DEF InCalls
  <1>o. cur[c] \in Futures =>
          /\ owner[cur[c]] = c
          /\ ~InCalls(cur[c])
          /\ ~InSendQueue(cur[c])
          /\ cur[c] \in futures
          /\ cur[c] \notin atValidator
    BY DEF SendInv, Sending
  <1>d. AtMostOnce(calls', PutCalls)
    <2>1. PutCall(cur[c]) \in PutCalls => ~Occurs(calls, PutCall(cur[c]))
      BY <1>o, CallFacts DEF PutCalls, InCalls
    <2> QED BY <2>1, <1>q, AtMostOnceAppend DEF PlaceInv
  <1>k. \A cs \in SUBSET Clients :
          Occurs(calls', ShutdownCall(cs)) => Occurs(calls, ShutdownCall(cs))
    BY <1>q, OccursAppend, CallFacts
  <1>1. TypeOK'
    BY <1>q, AppendFacts DEF TypeOK, Messages, ClientStates
  <1>2. CloseInv'
    BY <1>k DEF CloseInv, Shutdown
  <1>3. SendInv'
    BY <1>q, <1>c, <1>o, FuturesAssumption DEF TypeOK, SendInv, Sending,
       InSendQueue
  <1>4. PlaceInv'
    BY <1>q, <1>c, <1>o, <1>d DEF PlaceInv, InSendQueue
  <1>5. LoopInv' /\ SweepInv' /\ FutureInv' /\ NoStrayAnswer'
    BY DEF LoopInv, Shutdown, SweepInv, FutureInv, NoStrayAnswer
  <1>g. CallsKept'
    <2>1. \A e : Occurs(calls, e) => Occurs(calls', e)
      BY <1>q, OccursAppend
    <2> QED BY <2>1 DEF CallsKept, Shutdown
  <1> QED BY <1>1, <1>2, <1>3, <1>4, <1>5, <1>g

\* Await preserves the invariant.
LEMMA AwaitStep ==
  ASSUME NEW c \in Clients, NEW i \in Futures, IInv, Await(c, i)
  PROVE  IInv'
  <1> USE DEF IInv, Await
  <1>1. TypeOK'
    BY DEF TypeOK, Messages, ClientStates
  <1>2. SendInv'
    BY FuturesAssumption DEF TypeOK, SendInv, Sending, InCalls,
       InSendQueue
  <1>3. /\ LoopInv'
        /\ CloseInv'
        /\ SweepInv'
        /\ FutureInv'
        /\ PlaceInv'
        /\ NoStrayAnswer'
    BY DEF LoopInv, Shutdown, CloseInv, SweepInv, FutureInv, PlaceInv,
       InCalls, InSendQueue, NoStrayAnswer
  <1>g. CallsKept'
    BY DEF CallsKept, Shutdown
  <1> QED BY <1>1, <1>2, <1>3, <1>g

\* Wake preserves the invariant.
LEMMA WakeStep ==
  ASSUME NEW c \in Clients, IInv, Wake(c)
  PROVE  IInv'
  <1> USE DEF IInv, Wake, StopWaiting
  <1>1. TypeOK'
    BY DEF TypeOK, Messages, ClientStates
  <1>2. SendInv'
    BY FuturesAssumption DEF TypeOK, SendInv, Sending, InCalls,
       InSendQueue
  <1>3. /\ LoopInv'
        /\ CloseInv'
        /\ SweepInv'
        /\ FutureInv'
        /\ PlaceInv'
        /\ NoStrayAnswer'
    BY DEF LoopInv, Shutdown, CloseInv, SweepInv, FutureInv, PlaceInv,
       InCalls, InSendQueue, NoStrayAnswer
  <1>g. CallsKept'
    BY DEF CallsKept, Shutdown
  <1> QED BY <1>1, <1>2, <1>3, <1>g

\* TimeOut preserves the invariant.
LEMMA TimeOutStep ==
  ASSUME NEW c \in Clients, IInv, TimeOut(c)
  PROVE  IInv'
  <1> USE DEF IInv, TimeOut, StopWaiting
  <1>1. TypeOK'
    BY DEF TypeOK, Messages, ClientStates
  <1>2. SendInv'
    BY FuturesAssumption DEF TypeOK, SendInv, Sending, InCalls,
       InSendQueue
  <1>3. /\ LoopInv'
        /\ CloseInv'
        /\ SweepInv'
        /\ FutureInv'
        /\ PlaceInv'
        /\ NoStrayAnswer'
    BY DEF LoopInv, Shutdown, CloseInv, SweepInv, FutureInv, PlaceInv,
       InCalls, InSendQueue, NoStrayAnswer
  <1>g. CallsKept'
    BY DEF CallsKept, Shutdown
  <1> QED BY <1>1, <1>2, <1>3, <1>g

\* Interrupted preserves the invariant.
LEMMA InterruptedStep ==
  ASSUME NEW c \in Clients, IInv, Interrupted(c)
  PROVE  IInv'
  <1> USE DEF IInv, Interrupted, StopWaiting
  <1>1. TypeOK'
    BY DEF TypeOK, Messages, ClientStates
  <1>2. SendInv'
    BY FuturesAssumption DEF TypeOK, SendInv, Sending, InCalls,
       InSendQueue
  <1>3. /\ LoopInv'
        /\ CloseInv'
        /\ SweepInv'
        /\ FutureInv'
        /\ PlaceInv'
        /\ NoStrayAnswer'
    BY DEF LoopInv, Shutdown, CloseInv, SweepInv, FutureInv, PlaceInv,
       InCalls, InSendQueue, NoStrayAnswer
  <1>g. CallsKept'
    BY DEF CallsKept, Shutdown
  <1> QED BY <1>1, <1>2, <1>3, <1>g

\* Receive preserves the invariant.
LEMMA ReceiveStep ==
  ASSUME NEW c \in Clients, IInv, Receive(c)
  PROVE  IInv'
  <1> USE DEF IInv, Receive
  <1>q. /\ calls \in Seq(Calls)
        /\ GetCall(c) \in Calls
        /\ GetCall(c) \notin PutCalls
    BY CallFacts DEF TypeOK, PutCalls
  <1>c. \A i \in Futures : InCalls(i)' <=> InCalls(i)
    BY <1>q, OccursAppend DEF InCalls, PutCalls
  <1>d. AtMostOnce(calls', PutCalls)
    BY <1>q, AtMostOnceAppend DEF PlaceInv
  <1>k. \A cs \in SUBSET Clients :
          Occurs(calls', ShutdownCall(cs)) => Occurs(calls, ShutdownCall(cs))
    BY <1>q, OccursAppend, CallFacts
  <1>1. TypeOK'
    BY <1>q, AppendFacts DEF TypeOK, ReceiveStates, Items, NoItem
  <1>2. CloseInv'
    BY <1>k DEF CloseInv, Shutdown
  <1>3. SendInv'
    BY <1>c DEF SendInv, Sending, InSendQueue
  <1>4. PlaceInv'
    BY <1>c, <1>d DEF PlaceInv, InSendQueue
  <1>5. NoStrayAnswer'
    BY DEF NoStrayAnswer, NoItem, TypeOK
  <1>6. LoopInv' /\ SweepInv' /\ FutureInv'
    BY DEF LoopInv, Shutdown, SweepInv, FutureInv
  <1>g. CallsKept'
    <2>1. \A e : Occurs(calls, e) => Occurs(calls', e)
      BY <1>q, OccursAppend
    <2>2. Occurs(calls', GetCall(c))
      BY <1>q, OccursAppend
    <2> QED BY <2>1, <2>2 DEF TypeOK, CallsKept, Shutdown
  <1> QED BY <1>1, <1>2, <1>3, <1>4, <1>5, <1>6, <1>g

\* Close preserves the invariant.
LEMMA CloseStep ==
  ASSUME NEW c \in Clients, IInv, Close(c)
  PROVE  IInv'
  <1> USE DEF IInv, Close
  <1> DEFINE k == ShutdownCall({d \in Clients : receive[d] = "waiting"})
  <1>e. calls' = Append(calls, k)
    OBVIOUS
  <1>q. /\ calls \in Seq(Calls)
        /\ k \in Calls
        /\ k \notin PutCalls
        /\ \A i : k # PutCall(i)
    BY CallFacts DEF TypeOK, PutCalls
  <1> HIDE DEF k
  <1>c. \A i \in Futures : InCalls(i)' <=> InCalls(i)
    BY <1>e, <1>q, OccursAppend DEF InCalls
  <1>d. AtMostOnce(calls', PutCalls)
    BY <1>e, <1>q, AtMostOnceAppend DEF PlaceInv
  <1>1. TypeOK'
    BY <1>e, <1>q, AppendFacts DEF TypeOK
  <1>2. LoopInv'
    BY DEF LoopInv, Shutdown, TypeOK
  <1>3. CloseInv'
    BY DEF CloseInv, Shutdown, TypeOK
  <1>4. SendInv'
    BY <1>c DEF SendInv, Sending, InSendQueue
  <1>5. PlaceInv'
    BY <1>c, <1>d DEF PlaceInv, InSendQueue
  <1>6. SweepInv' /\ FutureInv' /\ NoStrayAnswer'
    BY DEF SweepInv, FutureInv, NoStrayAnswer
  <1>g. CallsKept'
    <2>1. \A e : Occurs(calls, e) => Occurs(calls', e)
      BY <1>e, <1>q, OccursAppend
    <2>2. Occurs(calls', k)
      BY <1>e, <1>q, OccursAppend
    <2>3. \E cs \in SUBSET Clients : Occurs(calls', ShutdownCall(cs))
      BY <2>2 DEF k
    <2>4. Shutdown'
      BY DEF Shutdown, TypeOK
    <2> QED BY <2>1, <2>3, <2>4 DEF CallsKept, Shutdown
  <1> QED BY <1>1, <1>2, <1>3, <1>4, <1>5, <1>6, <1>g

-----------------------------------------------------------------------------
(* The invariant, and what follows from it.                                *)

\* Every step preserves the invariant.
LEMMA NextIInv == IInv /\ [Next]_vars => IInv'
  <1> SUFFICES ASSUME IInv, [Next]_vars PROVE IInv'
    OBVIOUS
  <1>1. CASE LoopNext
    <2>1. CASE Connect
      BY <2>1, ConnectStep
    <2>2. CASE ConnectFails
      BY <2>2, ConnectFailsStep
    <2>3. CASE RunReturns
      BY <2>3, RunReturnsStep
    <2>4. CASE MonitorDisconnect
      BY <2>4, MonitorDisconnectStep
    <2>5. ASSUME NEW i \in Futures, FailFuture(i) PROVE IInv'
      BY <2>5, FailFutureStep
    <2>6. CASE IterationBroken
      BY <2>6, IterationBrokenStep
    <2>7. CASE FailDone
      BY <2>7, FailDoneStep
    <2>8. CASE RunPut
      BY <2>8, RunPutStep
    <2>9. CASE RunGet
      BY <2>9, RunGetStep
    <2>10. ASSUME NEW c \in Clients, ShutdownCancels(c) PROVE IInv'
      BY <2>10, ShutdownCancelsStep
    <2>11. CASE RunShutdown
      BY <2>11, RunShutdownStep
    <2>12. ASSUME NEW c \in Clients, GetterTakes(c) PROVE IInv'
      BY <2>12, GetterTakesStep
    <2>13. ASSUME NEW c \in Clients, DeliverCancel(c) PROVE IInv'
      BY <2>13, DeliverCancelStep
    <2>14. CASE SendTask
      BY <2>14, SendTaskStep
    <2>15. ASSUME NEW i \in Futures, ReceiveAnswer(i) PROVE IInv'
      BY <2>15, ReceiveAnswerStep
    <2>16. CASE ReceiveInitial
      BY <2>16, ReceiveInitialStep
    <2> QED BY <1>1, <2>1, <2>2, <2>3, <2>4, <2>5, <2>6, <2>7, <2>8, <2>9,
           <2>10, <2>11, <2>12, <2>13, <2>14, <2>15, <2>16 DEF LoopNext
  <1>2. ASSUME NEW c \in Clients, ClientNext(c) PROVE IInv'
    <2>1. ASSUME NEW i \in Futures, SendBegin(c, i) PROVE IInv'
      BY <2>1, SendBeginStep
    <2>2. CASE PutFuture(c)
      BY <2>2, PutFutureStep
    <2>3. CASE SendBackBegin(c)
      BY <2>3, SendBackBeginStep
    <2>4. CASE PutReturns(c)
      BY <2>4, PutReturnsStep
    <2>5. CASE PutPasses(c)
      BY <2>5, PutPassesStep
    <2>6. CASE Schedule(c)
      BY <2>6, ScheduleStep
    <2>7. ASSUME NEW i \in Futures, Await(c, i) PROVE IInv'
      BY <2>7, AwaitStep
    <2>8. CASE Wake(c)
      BY <2>8, WakeStep
    <2>9. CASE TimeOut(c)
      BY <2>9, TimeOutStep
    <2>10. CASE Interrupted(c)
      BY <2>10, InterruptedStep
    <2>11. CASE Receive(c)
      BY <2>11, ReceiveStep
    <2>12. CASE Close(c)
      BY <2>12, CloseStep
    <2> QED BY <1>2, <2>1, <2>2, <2>3, <2>4, <2>5, <2>6, <2>7, <2>8, <2>9,
           <2>10, <2>11, <2>12 DEF ClientNext
  <1>3. CASE UNCHANGED vars
    BY <1>3 DEF vars, IInv, TypeOK, LoopInv, CloseInv, SweepInv, FutureInv,
                SendInv, PlaceInv, NoStrayAnswer, CallsKept, Shutdown, Sending,
                InCalls, InSendQueue
  <1> QED BY <1>1, <1>2, <1>3 DEF Next

\* The invariant holds in every reachable state.
THEOREM Invariant == Spec => []IInv
  BY InitIInv, NextIInv, PTL DEF Spec

\* Every variable keeps its type.
THEOREM TypeCorrect == Spec => []TypeOK
  <1>1. IInv => TypeOK
    BY DEF IInv
  <1> QED BY <1>1, Invariant, PTL

\* The callbacks of put_message and get_message find the queues
\* (stream.py:122, 129-130).
THEOREM QueuesFound == Spec => []QueuesWhileRunning
  <1>1. IInv => QueuesWhileRunning
    BY DEF IInv, LoopInv, QueuesWhileRunning, LoopRuns
  <1> QED BY <1>1, Invariant, PTL

\* A stream that says it is ready is connected (stream.py:294, 314).
THEOREM ReadyIsConnected == Spec => []ReadyMeansConnected
  <1>1. IInv => ReadyMeansConnected
    BY DEF IInv, TypeOK, LoopStates, LoopInv, ReadyMeansConnected
  <1> QED BY <1>1, Invariant, PTL

\* An answer never reaches a client as a request (stream.py:93-103).
THEOREM NoStray == Spec => []NoStrayAnswer
  <1>1. IInv => NoStrayAnswer
    BY DEF IInv
  <1> QED BY <1>1, Invariant, PTL

\* A close is never dropped, a receive is queued, begun or released, and no
\* task of get_message outlives its loop (stream.py:149-152, 187-195).
THEOREM KeepsCalls == Spec => []CallsKept
  <1>1. IInv => CallsKept
    BY DEF IInv
  <1> QED BY <1>1, Invariant, PTL

-----------------------------------------------------------------------------
(* Stream implements RequestReply.                                         *)

\* The abstract outcomes, as the refinement mapping gives them.
OutcomeOf == [i \in Futures |-> Outcome(i)]

\* Nothing a caller can observe changes.
LEMMA Stutters ==
  ASSUME UNCHANGED <<readyEvent, result, owner, atValidator>>, Queued' = Queued
  PROVE  UNCHANGED Promise!vars
  BY DEF Promise!vars, Outcome

\* A request whose outcome changes, alone.
LEMMA OutcomeChange ==
  ASSUME NEW i \in Futures, NEW o, Outcome(i)' = o,
         \A j \in Futures \ {i} : Outcome(j)' = Outcome(j)
  PROVE  OutcomeOf' = [OutcomeOf EXCEPT ![i] = o]
  BY DEF OutcomeOf

\* Before any call nothing is sent.
LEMMA RefineInit == Init => Promise!Init
  <1> SUFFICES ASSUME Init PROVE Promise!Init
    OBVIOUS
  <1>1. \A i \in Futures : Outcome(i) = "unsent"
    BY DEF Init, Outcome
  <1>2. Queued = {}
    BY EmptyFacts DEF Init, Queued, InSend, Sending, InCalls, InSendQueue
  <1> QED BY <1>1, <1>2 DEF Init, Promise!Init


\* The first connection is there from the start; the others reconnect.
LEMMA ConnectRefines ==
  ASSUME IInv, Connect
  PROVE  [Promise!Next]_(Promise!vars)
  <1>1. Queued' = Queued
    BY DEF IInv, LoopInv, Connect, Queued, InSend, Sending, InCalls,
           InSendQueue
  <1>2. CASE readyEvent
    BY <1>1, <1>2, Stutters DEF Connect
  <1>3. CASE ~readyEvent
    BY <1>1, <1>3 DEF Connect, Promise!Next, Promise!Reconnect, Outcome
  <1> QED BY <1>2, <1>3

\* The connection is lost.
LEMMA MonitorDisconnectRefines ==
  ASSUME IInv, MonitorDisconnect
  PROVE  [Promise!Next]_(Promise!vars)
  <1>1. Queued' = Queued
    BY DEF MonitorDisconnect, Queued, InSend, Sending, InCalls, InSendQueue
  <1> QED BY <1>1 DEF IInv, LoopInv, MonitorDisconnect, Promise!Next,
                      Promise!Disconnect, Outcome

\* A future is failed, while there is no connection.
LEMMA FailFutureRefines ==
  ASSUME NEW i \in Futures, IInv, FailFuture(i)
  PROVE  [Promise!Next]_(Promise!vars)
  <1>1. Queued' = Queued
    BY DEF FailFuture, Queued, InSend, Sending, InCalls, InSendQueue
  <1>2. i \in futures /\ ~readyEvent
    BY DEF IInv, SweepInv, LoopInv, FailFuture
  <1>3. Outcome(i) \in {"pending", "error"}
    BY <1>2 DEF IInv, TypeOK, FutureInv, Outcome
  <1>4. /\ Outcome(i)' = "error"
        /\ \A j \in Futures \ {i} : Outcome(j)' = Outcome(j)
    BY DEF IInv, TypeOK, FailFuture, Outcome
  <1>5. OutcomeOf' = [OutcomeOf EXCEPT ![i] = "error"]
    BY <1>4, OutcomeChange
  <1>6. Promise!Fail(i)
    BY <1>1, <1>2, <1>3, <1>5 DEF FailFuture, Promise!Fail, OutcomeOf
  <1> QED BY <1>6 DEF Promise!Next

\* What is in the send queue is dropped.
LEMMA FailDoneRefines ==
  ASSUME IInv, FailDone
  PROVE  [Promise!Next]_(Promise!vars)
  <1>1. Queued' \subseteq Queued
    BY EmptyFacts DEF FailDone, Queued, InSend, Sending, InCalls, InSendQueue
  <1> QED BY <1>1 DEF IInv, LoopInv, FailDone, Promise!Next, Promise!Discard,
                      Outcome

\* A request moves on, and stays queued.
LEMMA RunPutRefines ==
  ASSUME IInv, RunPut
  PROVE  [Promise!Next]_(Promise!vars)
  <1>q. /\ calls \in Seq(Calls) /\ sendQueue \in Seq(Messages)
        /\ Head(calls) \in Calls /\ Tail(calls) \in Seq(Calls)
    BY TailFacts DEF IInv, TypeOK, RunPut
  <1> DEFINE m == Head(calls).message
  <1>m. m \in Messages /\ Head(calls) = PutCall(m)
    BY <1>q, PutFacts DEF RunPut
  <1>1. \A i : InSendQueue(i)' <=> InSendQueue(i) \/ i = m
    BY <1>q, <1>m, OccursAppend DEF RunPut, InSendQueue
  <1>2. \A i : InCalls(i) => InCalls(i)' \/ i = m
    BY <1>q, <1>m, OccursTail, CallFacts DEF RunPut, InCalls
  <1>3. /\ \A i : InCalls(i)' => InCalls(i)
        /\ InCalls(m)
    BY <1>q, <1>m, OccursTail DEF RunPut, InCalls
  <1>4. Queued' = Queued
    BY <1>1, <1>2, <1>3 DEF RunPut, Queued, InSend, Sending
  <1> QED BY <1>4, Stutters DEF RunPut

\* Taking this callback moves no request.
LEMMA RunGetRefines ==
  ASSUME IInv, RunGet
  PROVE  [Promise!Next]_(Promise!vars)
  <1>q. /\ calls \in Seq(Calls) /\ Head(calls) \in Calls
    BY TailFacts DEF IInv, TypeOK, RunGet
  <1>1. \A i : PutCall(i) # Head(calls)
    BY <1>q, GetFacts, CallFacts DEF RunGet
  <1>2. \A i : InCalls(i)' <=> InCalls(i)
    BY <1>q, <1>1, OccursTail DEF RunGet, InCalls
  <1>3. Queued' = Queued
    BY <1>2 DEF RunGet, Queued, InSend, Sending, InSendQueue
  <1> QED BY <1>3, Stutters DEF RunGet

\* Taking this callback moves no request.
LEMMA RunShutdownRefines ==
  ASSUME IInv, RunShutdown
  PROVE  [Promise!Next]_(Promise!vars)
  <1>q. /\ calls \in Seq(Calls) /\ Head(calls) \in Calls
    BY TailFacts DEF IInv, TypeOK, RunShutdown
  <1>1. \A i : PutCall(i) # Head(calls)
    BY <1>q, ShutdownFacts, CallFacts DEF RunShutdown
  <1>2. \A i : InCalls(i)' <=> InCalls(i)
    BY <1>q, <1>1, OccursTail DEF RunShutdown, InCalls
  <1>3. Queued' = Queued
    BY <1>2 DEF RunShutdown, Queued, InSend, Sending, InSendQueue
  <1> QED BY <1>3, Stutters DEF RunShutdown

\* The head of the send queue is transmitted.
LEMMA SendTaskRefines ==
  ASSUME IInv, SendTask
  PROVE  [Promise!Next]_(Promise!vars)
  <1>q. /\ sendQueue \in Seq(Messages) /\ Head(sendQueue) \in Messages
    BY TailFacts DEF IInv, TypeOK, SendTask
  <1> DEFINE h == Head(sendQueue)
  <1>1. \A i : InSendQueue(i)' => InSendQueue(i)
    BY <1>q, OccursTail DEF SendTask, InSendQueue
  <1>2. \A i : InSendQueue(i) => InSendQueue(i)' \/ i = h
    BY <1>q, OccursTail DEF SendTask, InSendQueue
  <1>3. CASE h = NoFuture
    <2>1. Queued' = Queued
      BY <1>1, <1>2, <1>3, FuturesAssumption
         DEF SendTask, Queued, InSend, Sending, InCalls
    <2> QED BY <2>1, <1>3, Stutters DEF SendTask
  <1>4. CASE h # NoFuture
    <2>1. h \in Futures /\ InSendQueue(h)
      BY <1>q, <1>4, OccursTail DEF SendTask, InSendQueue, Messages
    <2>2. \A i \in Futures : InSendQueue(i)' => i # h
      BY <1>q, <2>1, AtMostOnceTail DEF IInv, PlaceInv, SendTask, InSendQueue
    <2>3. ~InSend(h) /\ ~InCalls(h)
      BY <2>1 DEF IInv, SendInv, PlaceInv, InSend
    <2>4. Queued' = Queued \ {h}
      BY <1>1, <1>2, <2>1, <2>2, <2>3 DEF SendTask, Queued, InSend, Sending,
                                          InCalls
    <2>5. h \in Queued
      BY <2>1 DEF Queued
    <2>6. atValidator' = atValidator \union {h}
      BY <1>4 DEF SendTask
    <2>7. Promise!Transmit(h)
      BY <2>4, <2>5, <2>6 DEF IInv, LoopInv, SendTask, Promise!Transmit,
                              Outcome
    <2> QED BY <2>1, <2>7 DEF Promise!Next
  <1> QED BY <1>3, <1>4

\* The answer arrives, for a future that is waiting for it.
LEMMA ReceiveAnswerRefines ==
  ASSUME NEW i \in Futures, IInv, ReceiveAnswer(i)
  PROVE  [Promise!Next]_(Promise!vars)
  <1>1. Queued' = Queued
    BY DEF ReceiveAnswer, Queued, InSend, Sending, InCalls, InSendQueue
  <1>2. i \in futures /\ readyEvent
    BY DEF IInv, PlaceInv, LoopInv, ReceiveAnswer
  <1>3. /\ Outcome(i)' = "answer"
        /\ \A j \in Futures \ {i} : Outcome(j)' = Outcome(j)
    BY <1>2 DEF IInv, TypeOK, ReceiveAnswer, Outcome
  <1>4. OutcomeOf' = [OutcomeOf EXCEPT ![i] = "answer"]
    BY <1>3, OutcomeChange
  <1>5. Promise!Answer(i)
    BY <1>1, <1>2, <1>4 DEF ReceiveAnswer, Promise!Answer, OutcomeOf
  <1> QED BY <1>5 DEF Promise!Next

\* A client creates a request.
LEMMA SendBeginRefines ==
  ASSUME NEW c \in Clients, NEW i \in Futures, IInv, SendBegin(c, i)
  PROVE  [Promise!Next]_(Promise!vars)
  <1>1. owner[i] = NoOne /\ c # NoOne /\ ~Sending(c)
    BY FuturesAssumption DEF SendBegin, Idle, Sending
  <1>2. \A d \in Clients : Sending(d)' <=> Sending(d) \/ d = c
    BY DEF IInv, TypeOK, SendBegin, Idle, Sending
  <1>3. \A j \in Futures : InSend(j)' <=> InSend(j) \/ j = i
    BY <1>1, <1>2 DEF IInv, TypeOK, SendBegin, InSend
  <1>4. Queued' = Queued \union {i}
    BY <1>3 DEF SendBegin, Queued, InCalls, InSendQueue
  <1>5. Outcome(i) = "unsent" /\ Outcome(i)' = "pending"
    BY <1>1 DEF IInv, TypeOK, FutureInv, SendBegin, Outcome
  <1>6. \A j \in Futures \ {i} : Outcome(j)' = Outcome(j)
    BY DEF IInv, TypeOK, SendBegin, Outcome
  <1>7. OutcomeOf' = [OutcomeOf EXCEPT ![i] = "pending"]
    BY <1>5, <1>6, OutcomeChange
  <1>8. Promise!Request(i)
    BY <1>4, <1>5, <1>7 DEF SendBegin, Promise!Request, OutcomeOf
  <1> QED BY <1>8 DEF Promise!Next

\* The request the client was sending is dropped.
LEMMA PutReturnsRefines ==
  ASSUME NEW c \in Clients, IInv, PutReturns(c)
  PROVE  [Promise!Next]_(Promise!vars)
  <1>1. \A i : InSend(i)' => InSend(i)
    BY DEF IInv, TypeOK, PutReturns, InSend, Sending
  <1>2. Queued' \subseteq Queued
    BY <1>1 DEF PutReturns, Queued, InCalls, InSendQueue
  <1> QED BY <1>2 DEF PutReturns, Promise!Next, Promise!Discard, Outcome

\* A request moves on, and stays queued.
LEMMA ScheduleRefines ==
  ASSUME NEW c \in Clients, IInv, Schedule(c)
  PROVE  [Promise!Next]_(Promise!vars)
  <1>q. calls \in Seq(Calls) /\ PutCall(cur[c]) \in Calls
    BY CallFacts DEF IInv, TypeOK
  <1>1. \A i : InCalls(i)' <=> InCalls(i) \/ i = cur[c]
    BY <1>q, OccursAppend, CallFacts DEF Schedule, InCalls
  <1>2. \A i : InSend(i)' => InSend(i)
    BY DEF IInv, TypeOK, Schedule, InSend, Sending
  <1>3. \A i : InSend(i) => InSend(i)' \/ i = cur[c]
    BY DEF IInv, TypeOK, Schedule, InSend, Sending
  <1>4. InSend(cur[c])
    BY DEF Schedule, InSend, Sending
  <1>5. Queued' = Queued
    BY <1>1, <1>2, <1>3, <1>4 DEF Schedule, Queued, InSendQueue
  <1> QED BY <1>5, Stutters DEF Schedule

\* Queueing this callback moves no request.
LEMMA ReceiveRefines ==
  ASSUME NEW c \in Clients, IInv, Receive(c)
  PROVE  [Promise!Next]_(Promise!vars)
  <1>q. /\ calls \in Seq(Calls)
        /\ GetCall(c) \in Calls
        /\ \A i : PutCall(i) # GetCall(c)
    BY CallFacts DEF IInv, TypeOK
  <1>1. \A i : InCalls(i)' <=> InCalls(i)
    BY <1>q, OccursAppend DEF Receive, InCalls
  <1>2. Queued' = Queued
    BY <1>1 DEF Receive, Queued, InSend, Sending, InSendQueue
  <1> QED BY <1>2, Stutters DEF Receive

\* Queueing this callback moves no request.
LEMMA CloseRefines ==
  ASSUME NEW c \in Clients, IInv, Close(c)
  PROVE  [Promise!Next]_(Promise!vars)
  <1> DEFINE k == ShutdownCall({d \in Clients : receive[d] = "waiting"})
  <1>q. calls \in Seq(Calls) /\ k \in Calls /\ \A i : k # PutCall(i)
    BY CallFacts DEF IInv, TypeOK
  <1>e. calls' = Append(calls, k)
    BY DEF Close
  <1> HIDE DEF k
  <1>1. \A i : InCalls(i)' <=> InCalls(i)
    BY <1>e, <1>q, OccursAppend DEF InCalls
  <1>2. Queued' = Queued
    BY <1>1 DEF Close, Queued, InSend, Sending, InSendQueue
  <1> QED BY <1>2, Stutters DEF Close

\* The client is sending before and after, or what it sends is no request.
LEMMA PutFutureRefines ==
  ASSUME NEW c \in Clients, IInv, PutFuture(c)
  PROVE  [Promise!Next]_(Promise!vars)
  <1>1. \A i \in Futures : InSend(i)' <=> InSend(i)
    BY FuturesAssumption DEF IInv, TypeOK, PutFuture, Idle, InSend, Sending
  <1>2. Queued' = Queued
    BY <1>1 DEF PutFuture, Queued, InCalls, InSendQueue
  <1> QED BY <1>2, Stutters DEF PutFuture

\* The client is sending before and after, or what it sends is no request.
LEMMA SendBackBeginRefines ==
  ASSUME NEW c \in Clients, IInv, SendBackBegin(c)
  PROVE  [Promise!Next]_(Promise!vars)
  <1>1. \A i \in Futures : InSend(i)' <=> InSend(i)
    BY FuturesAssumption DEF IInv, TypeOK, SendBackBegin, Idle, InSend,
         Sending
  <1>2. Queued' = Queued
    BY <1>1 DEF SendBackBegin, Queued, InCalls, InSendQueue
  <1> QED BY <1>2, Stutters DEF SendBackBegin

\* The client is sending before and after, or what it sends is no request.
LEMMA PutPassesRefines ==
  ASSUME NEW c \in Clients, IInv, PutPasses(c)
  PROVE  [Promise!Next]_(Promise!vars)
  <1>1. \A i \in Futures : InSend(i)' <=> InSend(i)
    BY FuturesAssumption DEF IInv, TypeOK, PutPasses, Idle, InSend, Sending
  <1>2. Queued' = Queued
    BY <1>1 DEF PutPasses, Queued, InCalls, InSendQueue
  <1> QED BY <1>2, Stutters DEF PutPasses

\* A client that awaits a result sends nothing.
LEMMA AwaitRefines ==
  ASSUME NEW c \in Clients, NEW i \in Futures, IInv, Await(c, i)
  PROVE  [Promise!Next]_(Promise!vars)
  <1>1. \A j : InSend(j)' <=> InSend(j)
    BY DEF IInv, TypeOK, Await, StopWaiting, InSend, Sending
  <1>2. Queued' = Queued
    BY <1>1 DEF Await, StopWaiting, Queued, InCalls, InSendQueue
  <1> QED BY <1>2, Stutters DEF Await, StopWaiting

\* A client that awaits a result sends nothing.
LEMMA WakeRefines ==
  ASSUME NEW c \in Clients, IInv, Wake(c)
  PROVE  [Promise!Next]_(Promise!vars)
  <1>1. \A j : InSend(j)' <=> InSend(j)
    BY DEF IInv, TypeOK, Wake, StopWaiting, InSend, Sending
  <1>2. Queued' = Queued
    BY <1>1 DEF Wake, StopWaiting, Queued, InCalls, InSendQueue
  <1> QED BY <1>2, Stutters DEF Wake, StopWaiting

\* A client that awaits a result sends nothing.
LEMMA TimeOutRefines ==
  ASSUME NEW c \in Clients, IInv, TimeOut(c)
  PROVE  [Promise!Next]_(Promise!vars)
  <1>1. \A j : InSend(j)' <=> InSend(j)
    BY DEF IInv, TypeOK, TimeOut, StopWaiting, InSend, Sending
  <1>2. Queued' = Queued
    BY <1>1 DEF TimeOut, StopWaiting, Queued, InCalls, InSendQueue
  <1> QED BY <1>2, Stutters DEF TimeOut, StopWaiting

\* The request the client was sending, if any, is withdrawn.
LEMMA InterruptedRefines ==
  ASSUME NEW c \in Clients, IInv, Interrupted(c)
  PROVE  [Promise!Next]_(Promise!vars)
  <1>1. UNCHANGED <<readyEvent, atValidator, calls, sendQueue, result, owner>>
    BY DEF Interrupted, StopWaiting
  <1>2. \A i : InSend(i)' => InSend(i)
    BY DEF IInv, TypeOK, Interrupted, StopWaiting, InSend, Sending
  <1>3. \A i : InSend(i) => InSend(i)' \/ (Sending(c) /\ i = cur[c])
    BY DEF IInv, TypeOK, Interrupted, StopWaiting, InSend, Sending
  <1>4. CASE Sending(c) /\ cur[c] \in Futures
    <2>1. ~InCalls(cur[c]) /\ ~InSendQueue(cur[c]) /\ owner[cur[c]] = c
      BY <1>4 DEF IInv, SendInv
    <2>2. \A d \in Clients : Sending(d) /\ cur[d] = cur[c] => d = c
      BY <1>4, <2>1 DEF IInv, SendInv
    <2>3. \A i : InSend(i)' => i # cur[c]
      BY <2>2 DEF IInv, TypeOK, Interrupted, StopWaiting, InSend, Sending
    <2>4. Queued' = Queued \ {cur[c]}
      BY <1>1, <1>2, <1>3, <2>1, <2>3, <1>4 DEF Queued, InCalls, InSendQueue
    <2>5. cur[c] \in Queued
      BY <1>4 DEF Queued, InSend
    <2>6. Promise!Withdraw(cur[c])
      BY <1>1, <2>4, <2>5 DEF Promise!Withdraw, Outcome
    <2> QED BY <1>4, <2>6 DEF Promise!Next
  <1>5. CASE ~(Sending(c) /\ cur[c] \in Futures)
    <2>1. Queued' = Queued
      BY <1>1, <1>2, <1>3, <1>5 DEF Queued, InCalls, InSendQueue
    <2> QED BY <1>1, <2>1, Stutters
  <1> QED BY <1>4, <1>5

\* The remaining steps touch nothing the mapping reads.
LEMMA OtherRefines ==
  ASSUME UNCHANGED <<readyEvent, result, owner, atValidator, calls, sendQueue,
                     pc, cur>>
  PROVE  [Promise!Next]_(Promise!vars)
  <1>1. Queued' = Queued
    BY DEF Queued, InSend, Sending, InCalls, InSendQueue
  <1> QED BY <1>1, Stutters

\* Every step is a step of RequestReply or leaves its variables alone.
LEMMA RefineNext == IInv /\ [Next]_vars => [Promise!Next]_(Promise!vars)
  <1> SUFFICES ASSUME IInv, [Next]_vars PROVE [Promise!Next]_(Promise!vars)
    OBVIOUS
  <1>1. CASE LoopNext
    <2>1. CASE Connect
      BY <2>1, ConnectRefines
    <2>2. CASE ConnectFails
      BY <2>2, OtherRefines DEF ConnectFails
    <2>3. CASE RunReturns
      BY <2>3, OtherRefines DEF RunReturns
    <2>4. CASE MonitorDisconnect
      BY <2>4, MonitorDisconnectRefines
    <2>5. ASSUME NEW i \in Futures, FailFuture(i)
          PROVE  [Promise!Next]_(Promise!vars)
      BY <2>5, FailFutureRefines
    <2>6. CASE IterationBroken
      BY <2>6, OtherRefines DEF IterationBroken
    <2>7. CASE FailDone
      BY <2>7, FailDoneRefines
    <2>8. CASE RunPut
      BY <2>8, RunPutRefines
    <2>9. CASE RunGet
      BY <2>9, RunGetRefines
    <2>10. ASSUME NEW c \in Clients, ShutdownCancels(c)
          PROVE  [Promise!Next]_(Promise!vars)
      BY <2>10, OtherRefines DEF ShutdownCancels
    <2>11. CASE RunShutdown
      BY <2>11, RunShutdownRefines
    <2>12. ASSUME NEW c \in Clients, GetterTakes(c)
          PROVE  [Promise!Next]_(Promise!vars)
      BY <2>12, OtherRefines DEF GetterTakes
    <2>13. ASSUME NEW c \in Clients, DeliverCancel(c)
          PROVE  [Promise!Next]_(Promise!vars)
      BY <2>13, OtherRefines DEF DeliverCancel
    <2>14. CASE SendTask
      BY <2>14, SendTaskRefines
    <2>15. ASSUME NEW i \in Futures, ReceiveAnswer(i)
          PROVE  [Promise!Next]_(Promise!vars)
      BY <2>15, ReceiveAnswerRefines
    <2>16. CASE ReceiveInitial
      BY <2>16, OtherRefines DEF ReceiveInitial
    <2> QED BY <1>1, <2>1, <2>2, <2>3, <2>4, <2>5, <2>6, <2>7, <2>8, <2>9,
           <2>10, <2>11, <2>12, <2>13, <2>14, <2>15, <2>16 DEF LoopNext
  <1>2. ASSUME NEW c \in Clients, ClientNext(c)
        PROVE  [Promise!Next]_(Promise!vars)
    <2>1. ASSUME NEW i \in Futures, SendBegin(c, i)
          PROVE  [Promise!Next]_(Promise!vars)
      BY <2>1, SendBeginRefines
    <2>2. CASE PutFuture(c)
      BY <2>2, PutFutureRefines
    <2>3. CASE SendBackBegin(c)
      BY <2>3, SendBackBeginRefines
    <2>4. CASE PutReturns(c)
      BY <2>4, PutReturnsRefines
    <2>5. CASE PutPasses(c)
      BY <2>5, PutPassesRefines
    <2>6. CASE Schedule(c)
      BY <2>6, ScheduleRefines
    <2>7. ASSUME NEW i \in Futures, Await(c, i)
          PROVE  [Promise!Next]_(Promise!vars)
      BY <2>7, AwaitRefines
    <2>8. CASE Wake(c)
      BY <2>8, WakeRefines
    <2>9. CASE TimeOut(c)
      BY <2>9, TimeOutRefines
    <2>10. CASE Interrupted(c)
      BY <2>10, InterruptedRefines
    <2>11. CASE Receive(c)
      BY <2>11, ReceiveRefines
    <2>12. CASE Close(c)
      BY <2>12, CloseRefines
    <2> QED BY <1>2, <2>1, <2>2, <2>3, <2>4, <2>5, <2>6, <2>7, <2>8, <2>9,
           <2>10, <2>11, <2>12 DEF ClientNext
  <1>3. CASE UNCHANGED vars
    BY <1>3, OtherRefines DEF vars
  <1> QED BY <1>1, <1>2, <1>3 DEF Next

\* Stream implements RequestReply: each request is transmitted at most once,
\* failed only while disconnected, and answered for good.
THEOREM Refinement == Spec => KeepsPromise
  BY RefineInit, RefineNext, Invariant, PTL
     DEF Spec, KeepsPromise, Promise!Spec

-----------------------------------------------------------------------------
(* Results, and the requests that wait for one.                            *)

\* Only the sweep and an answer touch a result.
LEMMA ResultChanges ==
  ASSUME [Next]_vars
  PROVE  \/ \E j \in Futures : FailFuture(j) \/ ReceiveAnswer(j)
         \/ UNCHANGED result
  <1>1. LoopNext => \/ \E j \in Futures : FailFuture(j) \/ ReceiveAnswer(j)
                    \/ UNCHANGED result
    BY DEF LoopNext, Connect, ConnectFails, RunReturns, MonitorDisconnect,
       IterationBroken, FailDone, RunPut, RunGet, ShutdownCancels,
       RunShutdown, GetterTakes, DeliverCancel, SendTask, ReceiveInitial
  <1>2. ASSUME NEW c \in Clients, ClientNext(c) PROVE UNCHANGED result
    BY <1>2 DEF ClientNext, StopWaiting, SendBegin, PutFuture,
       SendBackBegin, PutReturns, PutPasses, Schedule, Await, Wake, TimeOut,
       Interrupted, Receive, Close
  <1> QED BY <1>1, <1>2 DEF Next, vars

\* Nothing replaces an answer (stream.py:94-98, 147-148).
THEOREM AnswersAreFinal == Spec => AnswerFinal
  <1>1. IInv /\ [Next]_vars =>
          [\A i \in Futures :
              result[i] = "answer" => result'[i] = "answer"]_vars
    <2> SUFFICES ASSUME IInv, [Next]_vars, NEW i \in Futures,
                        result[i] = "answer"
                 PROVE  result'[i] = "answer"
      OBVIOUS
    <2>1. ASSUME NEW j \in Futures, FailFuture(j) PROVE result'[i] = "answer"
      BY <2>1 DEF IInv, TypeOK, FutureInv, SweepInv, FailFuture
    <2>2. ASSUME NEW j \in Futures, ReceiveAnswer(j)
          PROVE  result'[i] = "answer"
      BY <2>2 DEF IInv, TypeOK, ReceiveAnswer
    <2> QED BY <2>1, <2>2, ResultChanges
  <1> QED BY <1>1, Invariant, PTL DEF Spec, AnswerFinal

\* A request with a result keeps one.
LEMMA ResultStays ==
  ASSUME NEW i \in Futures, IInv, [Next]_vars, result[i] # "none"
  PROVE  result'[i] # "none"
  <1>1. ASSUME NEW j \in Futures, FailFuture(j) PROVE result'[i] # "none"
    BY <1>1 DEF IInv, TypeOK, FailFuture
  <1>2. ASSUME NEW j \in Futures, ReceiveAnswer(j) PROVE result'[i] # "none"
    BY <1>2 DEF IInv, TypeOK, ReceiveAnswer
  <1> QED BY <1>1, <1>2, ResultChanges

\* The callback that stops the loop was queued by a close.
LEMMA CloseStops == IInv /\ RunShutdown => Shutdown
  <1> SUFFICES ASSUME IInv, RunShutdown PROVE Shutdown
    OBVIOUS
  <1>1. Occurs(calls, Head(calls)) /\ Head(calls) \in Calls
    BY OccursTail, TailFacts DEF IInv, TypeOK, RunShutdown
  <1> QED BY <1>1, ShutdownFacts DEF IInv, CloseInv, RunShutdown

\* Nobody takes a close back.
LEMMA ShutdownStays == IInv /\ [Next]_vars /\ Shutdown => Shutdown'
  <1> SUFFICES ASSUME IInv, [Next]_vars, Shutdown PROVE Shutdown'
    OBVIOUS
  <1>1. closes' \in {closes, closes + 1}
    <2>1. LoopNext => UNCHANGED closes
      BY DEF LoopNext, Connect, ConnectFails, RunReturns, MonitorDisconnect,
         FailFuture, IterationBroken, FailDone, RunPut, RunGet,
         ShutdownCancels, RunShutdown, GetterTakes, DeliverCancel, SendTask,
         ReceiveAnswer, ReceiveInitial
    <2>2. ASSUME NEW c \in Clients, ClientNext(c)
          PROVE  closes' \in {closes, closes + 1}
      BY <2>2 DEF ClientNext, StopWaiting, SendBegin, PutFuture,
         SendBackBegin, PutReturns, PutPasses, Schedule, Await, Wake,
         TimeOut, Interrupted, Receive, Close
    <2> QED BY <2>1, <2>2 DEF Next, vars
  <1> QED BY <1>1 DEF IInv, TypeOK, Shutdown

\* A loop whose monitor died goes on until a close ends it.
LEMMA WedgedStays ==
  IInv /\ [Next]_vars /\ loop = "wedged" => loop' = "wedged" \/ Shutdown'
  <1> SUFFICES ASSUME IInv, [Next]_vars, loop = "wedged"
               PROVE  loop' = "wedged" \/ Shutdown'
    OBVIOUS
  <1>1. LoopNext => UNCHANGED loop \/ RunShutdown
    BY DEF LoopNext, Connect, ConnectFails, RunReturns, MonitorDisconnect,
       FailFuture, IterationBroken, FailDone, RunPut, RunGet,
       ShutdownCancels, GetterTakes, DeliverCancel, SendTask,
       ReceiveAnswer, ReceiveInitial
  <1>2. ASSUME NEW c \in Clients, ClientNext(c) PROVE UNCHANGED loop
    BY <1>2 DEF ClientNext, StopWaiting, SendBegin, PutFuture,
       SendBackBegin, PutReturns, PutPasses, Schedule, Await, Wake,
       TimeOut, Interrupted, Receive, Close
  <1>3. RunShutdown => Shutdown'
    BY CloseStops, ShutdownStays DEF Next, LoopNext
  <1> QED BY <1>1, <1>2, <1>3 DEF Next, vars

\* A step of the background thread leaves a request that is under way, or
\* about to be failed, under way, about to be failed, or with a result; else
\* the monitor died or a close stopped the loop.
LEMMA LoopAccounts ==
  ASSUME NEW i \in Futures, IInv, LoopNext, OnItsWay(i) \/ i \in todo
  PROVE  Accounted(i)'
  <1> USE DEF Accounted, OnItsWay
  <1>q. calls \in Seq(Calls) /\ sendQueue \in Seq(Messages)
    BY DEF IInv, TypeOK
  <1>t. i \in todo => loop = "failing"
    BY DEF IInv, SweepInv
  <1>f. OnItsWay(i) => i \in futures
    BY DEF IInv, PlaceInv
  <1>1. CASE Connect
    <2>1. sendQueue' = sendQueue
      BY <1>1 DEF IInv, LoopInv, Connect
    <2> QED BY <1>1, <2>1 DEF Connect, InCalls, InSendQueue
  <1>2. CASE UNCHANGED <<calls, sendQueue, atValidator, todo>>
    BY <1>2 DEF InCalls, InSendQueue
  <1>3. CASE MonitorDisconnect
    BY <1>3, <1>t, <1>f DEF MonitorDisconnect
  <1>4. ASSUME NEW j \in Futures, FailFuture(j) PROVE Accounted(i)'
    BY <1>4 DEF IInv, TypeOK, FailFuture, InCalls, InSendQueue
  <1>5. CASE IterationBroken
    BY <1>5 DEF IterationBroken
  <1>6. CASE FailDone
    BY <1>6, <1>f DEF IInv, SweepInv, FailDone
  <1>7. CASE RunPut
    <2> DEFINE m == Head(calls).message
    <2>1. m \in Messages /\ Head(calls) = PutCall(m)
      BY <1>7, <1>q, TailFacts, PutFacts DEF RunPut
    <2>2. InCalls(i) => InCalls(i)' \/ i = m
      BY <1>7, <1>q, <2>1, OccursTail, CallFacts DEF RunPut, InCalls
    <2>3. InSendQueue(i) \/ i = m => InSendQueue(i)'
      BY <1>7, <1>q, <2>1, OccursAppend DEF RunPut, InSendQueue
    <2> QED BY <1>7, <2>2, <2>3 DEF RunPut
  <1>8. CASE RunGet
    <2>1. PutCall(i) # Head(calls)
      BY <1>8, <1>q, TailFacts, GetFacts, CallFacts DEF RunGet
    <2>2. InCalls(i) => InCalls(i)'
      BY <1>8, <1>q, <2>1, OccursTail DEF RunGet, InCalls
    <2> QED BY <1>8, <2>2 DEF RunGet, InSendQueue
  <1>9. CASE RunShutdown
    BY <1>9, CloseStops, ShutdownStays DEF Next
  <1>10. CASE SendTask
    <2>1. InSendQueue(i) => InSendQueue(i)' \/ i = Head(sendQueue)
      BY <1>10, <1>q, OccursTail DEF SendTask, InSendQueue
    <2> QED BY <1>10, <2>1, FuturesAssumption DEF SendTask, InCalls
  <1>11. ASSUME NEW j \in Futures, ReceiveAnswer(j) PROVE Accounted(i)'
    BY <1>11, <1>f DEF IInv, TypeOK, ReceiveAnswer, InCalls, InSendQueue
  <1> QED
    <2>1. UNCHANGED <<calls, sendQueue, atValidator, todo>>
            \/ Connect \/ MonitorDisconnect
            \/ (\E j \in Futures : FailFuture(j)) \/ IterationBroken
            \/ FailDone \/ RunPut \/ RunGet \/ RunShutdown \/ SendTask
            \/ (\E j \in Futures : ReceiveAnswer(j))
      BY DEF LoopNext, ConnectFails, RunReturns, ShutdownCancels,
         GetterTakes, DeliverCancel, ReceiveInitial
    <2> QED BY <2>1, <1>1, <1>2, <1>3, <1>4, <1>5, <1>6, <1>7, <1>8, <1>9,
               <1>10, <1>11

\* A client only adds to the calls.
LEMMA ClientAccounts ==
  ASSUME NEW i \in Futures, NEW c \in Clients, IInv, ClientNext(c),
         OnItsWay(i) \/ i \in todo
  PROVE  Accounted(i)'
  <1> USE DEF Accounted, OnItsWay
  <1>1. UNCHANGED <<sendQueue, atValidator, todo>>
    BY DEF ClientNext, StopWaiting, SendBegin, PutFuture,
       SendBackBegin, PutReturns, PutPasses, Schedule, Await, Wake,
       TimeOut, Interrupted, Receive, Close
  <1>2. UNCHANGED calls \/ \E k \in Calls : calls' = Append(calls, k)
    <2>1. UNCHANGED calls \/ Schedule(c) \/ Receive(c) \/ Close(c)
      BY DEF ClientNext, StopWaiting, SendBegin, PutFuture,
         SendBackBegin, PutReturns, PutPasses, Await, Wake,
         TimeOut, Interrupted
    <2>2. PutCall(cur[c]) \in Calls /\ GetCall(c) \in Calls
      BY CallFacts DEF IInv, TypeOK
    <2>3. ShutdownCall({d \in Clients : receive[d] = "waiting"}) \in Calls
      BY CallFacts
    <2> QED BY <2>1, <2>2, <2>3 DEF Schedule, Receive, Close
  <1>3. InCalls(i) => InCalls(i)'
    <2>1. ASSUME NEW k \in Calls, calls' = Append(calls, k)
          PROVE  InCalls(i) => InCalls(i)'
      <3>1. calls \in Seq(Calls)
        BY DEF IInv, TypeOK
      <3> QED BY <2>1, <3>1, OccursAppend DEF InCalls
    <2>2. UNCHANGED calls => (InCalls(i) => InCalls(i)')
      BY DEF InCalls
    <2> QED BY <1>2, <2>1, <2>2
  <1> QED BY <1>1, <1>3 DEF InSendQueue

\* No step loses a request that was handed over (stream.py:147-154, 226-229).
THEOREM NoneForgotten == Spec => NeverForgotten
  <1>1. IInv /\ [Next]_vars =>
          [\A i \in Futures : Accounted(i) => Accounted(i)']_vars
    <2> SUFFICES ASSUME IInv, [Next]_vars, NEW i \in Futures, Accounted(i)
                 PROVE  Accounted(i)'
      OBVIOUS
    <2>1. CASE result[i] # "none"
      BY <2>1, ResultStays DEF Accounted
    <2>2. CASE loop = "wedged" \/ Shutdown
      BY <2>2, WedgedStays, ShutdownStays DEF Accounted
    <2>3. CASE OnItsWay(i) \/ i \in todo
      <3>1. CASE UNCHANGED vars
        BY <2>3, <3>1 DEF vars, Accounted, OnItsWay, InCalls, InSendQueue
      <3> QED BY <2>3, <3>1, LoopAccounts, ClientAccounts DEF Next
    <2> QED BY <2>1, <2>2, <2>3 DEF Accounted
  <1> QED BY <1>1, Invariant, PTL DEF Spec, NeverForgotten
=============================================================================
