--------------------------- MODULE WorkloadProofs ---------------------------
(***************************************************************************)
(* Proofs about Workload: its inductive invariant, for any number of       *)
(* tasks, validators and names.                                            *)
(***************************************************************************)
EXTENDS Workload, SequenceTheorems, TLAPS

USE DEF Points, Statuses, Batches, PendingBatches, States, NewStates

\* The queue is a sequence of batches with the url of their validator.
LEMMA QueueItems ==
    ASSUME TypeOK
    PROVE  /\ Len(queue) \in Nat
           /\ DOMAIN queue = 1 .. Len(queue)
           /\ \A i \in DOMAIN queue :
                  queue[i] \in PendingBatches /\ queue[i].id.name \in Names
  <1>1. queue \in Seq(PendingBatches)
    BY DEF TypeOK
  <1>2. Len(queue) \in Nat /\ DOMAIN queue = 1 .. Len(queue)
    BY <1>1, LenProperties
  <1>3. \A i \in DOMAIN queue : queue[i] \in PendingBatches
    BY <1>1, <1>2, ElementOfSeq
  <1> QED BY <1>2, <1>3

\* What the steps of the tasks have in common: c moves on, and may let go of
\* its batch, or of its key, or choose to create a new key.
LEMMA TaskStep ==
    ASSUME WorkloadInv, NEW c \in Checkers, NEW p \in Points,
           NEW h \in {held[c], NoBatch}, NEW k \in NewStates \cup {NoKey},
           UNCHANGED <<log, queue, urls, keys>>,
           running' \in BOOLEAN, validators' \in SUBSET Urls,
           over' \in SUBSET Batches,
           at' = [at EXCEPT ![c] = p],
           held' = [held EXCEPT ![c] = h],
           key' = [key EXCEPT ![c] = k],
           \/ k = NoKey /\ p \notin {"post", "enter", "tell"}
           \/ k # NoKey /\ k.name = NoName /\ k.value = 0 /\ p = "post",
           p = "idle" => h = NoBatch,
           p \in {"status", "delist", "removed", "committed", "back"} =>
               h # NoBatch,
           p = "committed" => StatusOf(h.id) = "COMMITTED"
    PROVE  WorkloadInv'
  <1> USE NamesAssumption, NothingAssumption DEF WorkloadInv
  <1>1. TypeOK'
    BY DEF TypeOK
  <1>2. \A d \in Checkers, n \in Names : Carries(d, n)' => Carries(d, n)
    BY DEF TypeOK, Carries
  <1>3. OnePlace'
    <2>1. QueuedOnce' /\ CarriedByOne'
      BY <1>2 DEF OnePlace, QueuedOnce, CarriedByOne
    <2>2. QueuedOrCarried'
      BY <1>2, QueueItems DEF OnePlace, QueuedOrCarried
    <2>3. CarriedOnce'
      BY DEF OnePlace, CarriedOnce, TypeOK
    <2> QED BY <2>1, <2>2, <2>3 DEF OnePlace
  <1>4. OneUnderWay'
    BY DEF OneUnderWay
  <1>5. KeyKnown'
    BY DEF TypeOK, KeyKnown, QueuedKnown, HeldKnown, Recorded
  <1>6. InHand'
    BY DEF TypeOK, InHand, StatusOf
  <1>7. LastOfName'
    <2>1. QueuedLast'
      BY DEF LastOfName, QueuedLast
    <2>2. ASSUME NEW d \in Checkers \ {c}
          PROVE  at'[d] = at[d] /\ key'[d] = key[d]
      BY DEF TypeOK
    <2>3. /\ at'[c] = p /\ key'[c] = k
          /\ p \notin {"enter", "tell"}
      BY DEF TypeOK
    <2>4. KeyLast'
      <3>1. ASSUME NEW d \in Checkers
            PROVE  KeyToPost(d)' /\ KeyPosted(d)' /\ KeyEntered(d)'
        <4>1. CASE d = c
          BY <2>3, <4>1 DEF KeyToPost, KeyPosted, KeyEntered
        <4>2. CASE d # c
          <5>1. KeyToPost(d) /\ KeyPosted(d) /\ KeyEntered(d)
            BY DEF LastOfName, KeyLast
          <5> QED BY <2>2, <4>2, <5>1
              DEF KeyToPost, KeyPosted, KeyEntered, New, Recorded, AllCommitted
        <4> QED BY <4>1, <4>2
      <3> QED BY <3>1 DEF KeyLast
    <2>5. KeysRight'
      BY DEF LastOfName, KeysRight
    <2> QED BY <2>1, <2>4, <2>5 DEF LastOfName
  <1> QED BY <1>1, <1>3, <1>4, <1>5, <1>6, <1>7

\* The batch first in the queue gets into the hands of a task.
LEMMA TickWithBatchKeeps ==
    ASSUME WorkloadInv, NEW c \in Checkers, TickWithBatch(c)
    PROVE  WorkloadInv'
  <1> USE NothingAssumption DEF WorkloadInv
  <1>1. /\ queue \in Seq(PendingBatches) /\ queue # <<>>
        /\ Len(queue) \in Nat /\ 1 \in DOMAIN queue
        /\ DOMAIN queue = 1 .. Len(queue)
    BY EmptySeq, LenProperties DEF TypeOK, TickWithBatch
  <1>2. /\ queue' \in Seq(PendingBatches)
        /\ DOMAIN queue' = 1 .. Len(queue) - 1
        /\ \A i \in DOMAIN queue' :
               i \in Nat /\ i + 1 \in DOMAIN queue /\ queue'[i] = queue[i + 1]
    <2>1. /\ Tail(queue) \in Seq(PendingBatches)
          /\ Len(Tail(queue)) = Len(queue) - 1
          /\ \A i \in 1 .. Len(Tail(queue)) : Tail(queue)[i] = queue[i + 1]
      BY <1>1, HeadTailProperties
    <2>2. DOMAIN Tail(queue) = 1 .. Len(queue) - 1
      BY <2>1, LenProperties
    <2> QED BY <1>1, <2>1, <2>2 DEF TickWithBatch
  <1>3. /\ held'[c] = queue[1] /\ queue[1] \in PendingBatches
        /\ queue[1] # NoBatch
        /\ \A d \in Checkers \ {c} : held'[d] = held[d]
        /\ held[c] = NoBatch /\ key[c] = NoKey
    <2>1. Head(queue) = queue[1] /\ queue[1] \in PendingBatches
      BY <1>1, QueueItems
    <2> QED BY <2>1 DEF TypeOK, InHand, TickWithBatch, Goes
  <1>4. TypeOK'
    BY <1>1, <1>2, <1>3 DEF TypeOK, TickWithBatch, Goes, generator, workload
  <1>5. OnePlace'
    <2>1. \A d \in Checkers, n \in Names :
              Carries(d, n)' <=> IF d = c THEN n = queue[1].id.name ELSE Carries(d, n)
      BY <1>1, <1>3 DEF Carries, TickWithBatch
    <2>2. QueuedOnce'
      <3>1. ASSUME NEW i \in DOMAIN queue', NEW j \in DOMAIN queue',
                   queue'[i].id.name = queue'[j].id.name
            PROVE  i = j
        <4>1. i + 1 = j + 1
          BY <1>2, <3>1 DEF OnePlace, QueuedOnce
        <4> QED BY <1>2, <4>1
      <3> QED BY <3>1 DEF QueuedOnce
    <2>3. QueuedOrCarried'
      <3>1. ASSUME NEW i \in DOMAIN queue', NEW d \in Checkers
            PROVE  ~Carries(d, queue[i].id.name)'
        <4>1. /\ i + 1 \in DOMAIN queue /\ i + 1 # 1
              /\ queue'[i] = queue[i + 1]
          BY <1>1, <1>2
        <4>2. queue[i + 1].id.name # queue[1].id.name
          BY <1>1, <4>1 DEF OnePlace, QueuedOnce
        <4>3. ~Carries(d, queue[i + 1].id.name)
          BY <4>1 DEF OnePlace, QueuedOrCarried
        <4> QED BY <1>3, <4>1, <4>2, <4>3 DEF Carries, TickWithBatch
      <3> QED BY <3>1 DEF QueuedOrCarried
    <2>4. CarriedByOne'
      <3>1. \A d \in Checkers : ~Carries(d, queue[1].id.name)
        BY <1>1 DEF OnePlace, QueuedOrCarried
      <3> QED BY <2>1, <3>1 DEF OnePlace, CarriedByOne
    <2>5. CarriedOnce'
      BY <1>3 DEF OnePlace, CarriedOnce, TickWithBatch
    <2> QED BY <2>2, <2>3, <2>4, <2>5 DEF OnePlace
  <1>6. OneUnderWay'
    BY DEF OneUnderWay, TickWithBatch
  <1>7. KeyKnown'
    <2>1. QueuedKnown'
      <3>1. ASSUME NEW i \in DOMAIN queue', queue'[i].url \in urls
            PROVE  Recorded(queue'[i].id, queue'[i].url)
        <4>1. i + 1 \in DOMAIN queue /\ queue'[i] = queue[i + 1]
          BY <1>2
        <4> QED BY <3>1, <4>1 DEF KeyKnown, QueuedKnown
      <3>2. UNCHANGED <<urls, keys>>
        BY DEF TickWithBatch, workload
      <3> QED BY <3>1, <3>2 DEF QueuedKnown, Recorded
    <2>2. HeldKnown'
      <3>1. queue[1].url \in urls => Recorded(queue[1].id, queue[1].url)
        BY <1>1 DEF KeyKnown, QueuedKnown
      <3>2. ASSUME NEW d \in Checkers, held'[d] # NoBatch, held'[d].url \in urls
            PROVE  Recorded(held'[d].id, held'[d].url)
        <4>1. CASE d = c
          BY <1>3, <3>1, <3>2, <4>1
        <4>2. CASE d # c
          BY <1>3, <3>2, <4>2 DEF KeyKnown, HeldKnown
        <4> QED BY <4>1, <4>2
      <3>3. UNCHANGED <<urls, keys>>
        BY DEF TickWithBatch, workload
      <3> QED BY <3>2, <3>3 DEF HeldKnown, Recorded
    <2> QED BY <2>1, <2>2 DEF KeyKnown
  <1>8. InHand'
    <2>1. queue[1].id.serial = Len(log[queue[1].id.name])
      BY <1>1 DEF LastOfName, QueuedLast
    <2> QED BY <1>3, <2>1 DEF TypeOK, InHand, TickWithBatch, Goes, StatusOf
  <1>9. LastOfName'
    <2>1. QueuedLast'
      BY <1>2 DEF LastOfName, QueuedLast, TickWithBatch
    <2>2. KeyLast'
      BY DEF TypeOK, LastOfName, KeyLast, KeyToPost, KeyPosted, KeyEntered, AllCommitted,
             TickWithBatch, Goes, New, Recorded, workload
    <2>3. KeysRight'
      BY DEF LastOfName, KeysRight, TickWithBatch, workload
    <2> QED BY <2>1, <2>2, <2>3 DEF LastOfName
  <1> QED BY <1>4, <1>5, <1>6, <1>7, <1>8, <1>9

\* A pending batch returns to the front of the queue.
LEMMA PutBackKeeps ==
    ASSUME WorkloadInv, NEW c \in Checkers, PutBack(c)
    PROVE  WorkloadInv'
  <1> USE NothingAssumption DEF WorkloadInv
  <1>1. /\ held[c] \in PendingBatches /\ held[c] # NoBatch /\ key[c] = NoKey
        /\ held'[c] = NoBatch /\ \A d \in Checkers \ {c} : held'[d] = held[d]
    BY DEF TypeOK, InHand, PutBack, Goes, Drop
  <1>2. queue \in Seq(PendingBatches)
    BY DEF TypeOK
  <1>3. /\ queue' \in Seq(PendingBatches)
        /\ DOMAIN queue' = 1 .. Len(queue) + 1
        /\ queue'[1] = held[c]
        /\ \A i \in DOMAIN queue' \ {1} :
               i \in Nat /\ i - 1 \in DOMAIN queue /\ queue'[i] = queue[i - 1]
    <2>1. <<held[c]>> \in Seq(PendingBatches) /\ Len(<<held[c]>>) = 1
      BY <1>1
    <2>2. /\ queue' \in Seq(PendingBatches)
          /\ Len(queue') = 1 + Len(queue)
          /\ \A i \in 1 .. 1 + Len(queue) :
                 queue'[i] = IF i <= 1 THEN <<held[c]>>[i] ELSE queue[i - 1]
      BY <1>2, <2>1, ConcatProperties DEF PutBack
    <2>3. DOMAIN queue' = 1 .. Len(queue) + 1
      BY QueueItems, <2>2, LenProperties
    <2> QED BY QueueItems, <2>2, <2>3
  <1>4. TypeOK'
    BY <1>3 DEF TypeOK, PutBack, Goes, Drop, workload
  <1>5. OnePlace'
    <2>1. \A d \in Checkers, n \in Names : Carries(d, n)' => d # c /\ Carries(d, n)
      BY <1>1 DEF Carries, PutBack
    <2>2. Carries(c, held[c].id.name)
      BY <1>1 DEF Carries
    <2>3. \A i \in DOMAIN queue : queue[i].id.name # held[c].id.name
      BY <2>2 DEF OnePlace, QueuedOrCarried
    <2>4. QueuedOnce'
      <3>1. ASSUME NEW i \in DOMAIN queue', NEW j \in DOMAIN queue',
                   queue'[i].id.name = queue'[j].id.name
            PROVE  i = j
        <4>1. CASE i = 1 \/ j = 1
          BY <1>3, <2>3, <3>1, <4>1
        <4>2. CASE i # 1 /\ j # 1
          <5>1. i - 1 = j - 1
            BY <1>3, <3>1, <4>2 DEF OnePlace, QueuedOnce
          <5> QED BY <1>3, <4>2, <5>1
        <4> QED BY <4>1, <4>2
      <3> QED BY <3>1 DEF QueuedOnce
    <2>5. QueuedOrCarried'
      <3>1. ASSUME NEW i \in DOMAIN queue', NEW d \in Checkers
            PROVE  ~Carries(d, queue[i].id.name)'
        <4>1. CASE i = 1
          <5>1. d # c => ~Carries(d, held[c].id.name)
            BY <1>1, <2>2 DEF OnePlace, CarriedByOne
          <5> QED BY <1>1, <1>3, <4>1, <5>1 DEF Carries, PutBack
        <4>2. CASE i # 1
          <5>1. i - 1 \in DOMAIN queue /\ queue'[i] = queue[i - 1]
            BY <1>3, <4>2
          <5>2. ~Carries(d, queue[i - 1].id.name)
            BY <5>1 DEF OnePlace, QueuedOrCarried
          <5> QED BY <1>1, <5>1, <5>2 DEF Carries, PutBack
        <4> QED BY <4>1, <4>2
      <3> QED BY <3>1 DEF QueuedOrCarried
    <2>6. CarriedByOne' /\ CarriedOnce'
      BY <1>1, <2>1 DEF OnePlace, CarriedByOne, CarriedOnce, PutBack
    <2> QED BY <2>4, <2>5, <2>6 DEF OnePlace
  <1>6. OneUnderWay'
    BY DEF OneUnderWay, PutBack
  <1>7. KeyKnown'
    <2>1. QueuedKnown'
      BY <1>1, <1>3
      DEF KeyKnown, QueuedKnown, HeldKnown, Recorded, PutBack, workload
    <2>2. HeldKnown'
      BY <1>1 DEF KeyKnown, HeldKnown, Recorded, PutBack, workload
    <2> QED BY <2>1, <2>2 DEF KeyKnown
  <1>8. InHand'
    BY <1>1 DEF TypeOK, InHand, PutBack, Goes, StatusOf
  <1>9. LastOfName'
    <2>1. QueuedLast'
      <3>1. held[c].id.serial = Len(log[held[c].id.name])
        BY <1>1 DEF InHand
      <3> QED BY <1>3, <3>1 DEF LastOfName, QueuedLast, PutBack
    <2>2. KeyLast'
      BY DEF TypeOK, LastOfName, KeyLast, KeyToPost, KeyPosted, KeyEntered, AllCommitted,
             PutBack, Goes, New, Recorded, workload
    <2>3. KeysRight'
      BY DEF LastOfName, KeysRight, PutBack, workload
    <2> QED BY <2>1, <2>2, <2>3 DEF LastOfName
  <1> QED BY <1>4, <1>5, <1>6, <1>7, <1>8, <1>9

\* The steps of a check that change the task only.
LEMMA CheckOnBatchKeeps ==
    ASSUME WorkloadInv, NEW c \in Checkers,
           \/ TickWithout(c) \/ FindsCommitted(c) \/ FindsPending(c)
           \/ FindsOther(c) \/ Unresponsive(c) \/ RemoveFromList(c)
           \/ RemoveTwice(c) \/ KeyGone(c)
    PROVE  WorkloadInv'
  <1> USE NothingAssumption DEF generator, workload
  <1>1. /\ at \in [Checkers -> Points] /\ at[c] \in Points
        /\ held[c] \in PendingBatches \cup {NoBatch}
        /\ key[c] \in NewStates \cup {NoKey}
        /\ key = [key EXCEPT ![c] = key[c]]
        /\ held = [held EXCEPT ![c] = held[c]]
        /\ at[c] \notin {"post", "enter", "tell"} => key[c] = NoKey
        /\ at[c] = "idle" => held[c] = NoBatch
        /\ at[c] \in {"status", "delist", "committed"} =>
               held[c] # NoBatch /\ held[c].id \in Batches
        /\ running \in BOOLEAN /\ validators \in SUBSET Urls
        /\ over \in SUBSET Batches
    BY DEF WorkloadInv, TypeOK, InHand
  <1>a. at[c] = "status" => over \cup {held[c].id} \in SUBSET Batches
    BY <1>1
  <1>2. CASE TickWithout(c)
    BY <1>1, <1>2, TaskStep DEF TickWithout, Goes
  <1>3. CASE FindsCommitted(c)
    BY <1>1, <1>a, <1>3, TaskStep DEF FindsCommitted, Goes
  <1>4. CASE FindsPending(c)
    BY <1>1, <1>4, TaskStep DEF FindsPending, Goes
  <1>5. CASE FindsOther(c)
    BY <1>1, <1>a, <1>5, TaskStep DEF FindsOther, Goes, Drop
  <1>6. CASE Unresponsive(c)
    BY <1>1, <1>a, <1>6, TaskStep DEF Unresponsive
  <1>7. CASE RemoveFromList(c)
    BY <1>1, <1>7, TaskStep DEF RemoveFromList, Goes
  <1>8. CASE RemoveTwice(c)
    BY <1>1, <1>8, TaskStep DEF RemoveTwice, Raise, Drop
  <1>9. CASE KeyGone(c)
    BY <1>1, <1>9, TaskStep DEF KeyGone, Raise, Drop
  <1> QED BY <1>2, <1>3, <1>4, <1>5, <1>6, <1>7, <1>8, <1>9

\* A task chooses to set a new key, or is through with that.
LEMMA CreateKeeps ==
    ASSUME WorkloadInv, NEW c \in Checkers,
           CreateNewKey(c) \/ NoUrls(c) \/ PostRefused(c)
    PROVE  WorkloadInv'
  <1> USE NothingAssumption DEF generator, workload
  <1>1. /\ held[c] \in PendingBatches \cup {NoBatch}
        /\ held = [held EXCEPT ![c] = held[c]]
        /\ running \in BOOLEAN /\ validators \in SUBSET Urls
        /\ over \in SUBSET Batches
        /\ urls \in SUBSET Urls
    BY DEF WorkloadInv, TypeOK
  <1>2. CASE CreateNewKey(c)
    <2>1. PICK url \in urls :
              key' = [key EXCEPT ![c] =
                         [name |-> NoName, url |-> url, value |-> 0]]
      BY <1>2 DEF CreateNewKey
    <2>2. [name |-> NoName, url |-> url, value |-> 0] \in NewStates
      BY <1>1, MaxValueAssumption
    <2> QED BY <1>1, <1>2, <2>1, <2>2, TaskStep DEF CreateNewKey, Goes
  <1>3. CASE NoUrls(c) \/ PostRefused(c)
    BY <1>1, <1>3, TaskStep DEF NoUrls, PostRefused, Finish
  <1> QED BY <1>2, <1>3

\* The workload forgets the keys of a removed validator, which the invariant does
\* not speak of.
LEMMA OnValidatorRemovedKeeps ==
    ASSUME WorkloadInv, NEW c \in Checkers, OnValidatorRemoved(c)
    PROVE  WorkloadInv'
  <1> USE NothingAssumption DEF WorkloadInv
  <1>1. \A b \in DOMAIN keys : keys[b].url # held[c].url =>
            b \in DOMAIN keys' /\ keys'[b] = keys[b]
    BY DEF OnValidatorRemoved, Without
  <1>2. \A b, url : Recorded(b, url) /\ url \in urls' => Recorded(b, url)'
    BY <1>1 DEF Recorded, OnValidatorRemoved
  <1>3. TypeOK'
    <2>1. /\ DOMAIN keys' \subseteq DOMAIN keys
          /\ \A b \in DOMAIN keys' : keys'[b] = keys[b]
          /\ keys' = [b \in DOMAIN keys' |-> keys'[b]]
      BY DEF TypeOK, OnValidatorRemoved, Without
    <2> QED BY <2>1 DEF TypeOK, OnValidatorRemoved, Goes, Drop, generator
  <1>4. /\ \A d \in Checkers :
               held'[d] # NoBatch => d # c /\ held'[d] = held[d]
        /\ \A d \in Checkers, n \in Names : Carries(d, n)' => Carries(d, n)
    BY DEF TypeOK, Carries, OnValidatorRemoved, Drop
  <1>5. OnePlace'
    <2>1. QueuedOnce' /\ CarriedByOne' /\ CarriedOnce'
      BY <1>4 DEF OnePlace, QueuedOnce, CarriedByOne, CarriedOnce,
                  OnValidatorRemoved, generator
    <2>2. QueuedOrCarried'
      BY <1>4, QueueItems DEF OnePlace, QueuedOrCarried, OnValidatorRemoved, generator
    <2> QED BY <2>1, <2>2 DEF OnePlace
  <1>6. OneUnderWay'
    BY DEF OneUnderWay, OnValidatorRemoved
  <1>7. KeyKnown'
    BY <1>2, <1>4 DEF KeyKnown, QueuedKnown, HeldKnown, OnValidatorRemoved, generator
  <1>8. InHand'
    BY DEF TypeOK, InHand, OnValidatorRemoved, Goes, Drop, StatusOf
  <1>9. LastOfName'
    <2>1. QueuedLast'
      BY DEF LastOfName, QueuedLast, OnValidatorRemoved, generator
    <2>2. \A d \in Checkers : New(d)' = New(d)
      BY DEF New, OnValidatorRemoved
    <2>3. /\ UNCHANGED <<log, key>> /\ at'[c] = "create"
          /\ \A d \in Checkers \ {c} : at'[d] = at[d]
      BY DEF TypeOK, OnValidatorRemoved, Goes
    <2>4. \A d \in Checkers : at'[d] = "tell" /\ key'[d].url \in urls' =>
              Recorded(New(d), key[d].url)'
      <3>1. urls' \subseteq urls
        BY DEF OnValidatorRemoved
      <3>2. ASSUME NEW d \in Checkers, at'[d] = "tell", key'[d].url \in urls'
            PROVE  Recorded(New(d), key[d].url)'
        <4>1. Recorded(New(d), key[d].url)
          BY <2>3, <3>1, <3>2 DEF LastOfName, KeyLast, KeyEntered
        <4> QED BY <1>2, <2>2, <2>3, <3>2, <4>1
      <3> QED BY <3>2
    <2>5. KeyLast'
      BY <2>3, <2>4
      DEF LastOfName, KeyLast, KeyToPost, KeyPosted, KeyEntered, AllCommitted
    <2>6. KeysRight'
      BY DEF LastOfName, KeysRight, OnValidatorRemoved, Without
    <2> QED BY <2>1, <2>5, <2>6 DEF LastOfName
  <1> QED BY <1>3, <1>5, <1>6, <1>7, <1>8, <1>9

\* A batch whose key is popped is nowhere else.
LEMMA PoppedOnce ==
    ASSUME WorkloadInv, NEW c \in Checkers, at[c] = "committed"
    PROVE  /\ held[c] \in PendingBatches /\ held[c] # NoBatch
           /\ key[c] = NoKey
           /\ \A i \in DOMAIN queue : queue[i].id # held[c].id
           /\ \A d \in Checkers \ {c} : held[d] # NoBatch => held[d].id # held[c].id
           /\ \A d \in Checkers \ {c} : at[d] \in {"enter", "tell"} =>
                  New(d) # held[c].id
  <1>1. held[c] \in PendingBatches /\ held[c] # NoBatch /\ key[c] = NoKey
    BY NothingAssumption DEF WorkloadInv, TypeOK, InHand
  <1>2. Carries(c, held[c].id.name) /\ held[c].id.name \in Names
    BY <1>1 DEF Carries
  <1>3. \A i \in DOMAIN queue : queue[i].id # held[c].id
    BY <1>2 DEF WorkloadInv, OnePlace, QueuedOrCarried
  <1>4. \A d \in Checkers \ {c} : ~Carries(d, held[c].id.name)
    BY <1>2 DEF WorkloadInv, OnePlace, CarriedByOne
  <1> QED BY <1>1, <1>3, <1>4 DEF WorkloadInv, InHand, Carries, New

\* A key goes from a committed batch to its next increment, or ends.
LEMMA PopKeeps ==
    ASSUME WorkloadInv, NEW c \in Checkers, OnBatchCommitted(c) \/ KeyDone(c)
    PROVE  WorkloadInv'
  <1> USE NothingAssumption, NamesAssumption DEF WorkloadInv
  <1> DEFINE b == held[c].id
  <1>1. /\ at[c] = "committed"
        /\ UNCHANGED <<log, running, queue, validators, urls, over>>
        /\ Pop(b)
        /\ b \in DOMAIN keys
        /\ \A d \in Checkers \ {c} :
               at'[d] = at[d] /\ held'[d] = held[d] /\ key'[d] = key[d]
        /\ held'[c] = NoBatch
        /\ held' \in [Checkers -> PendingBatches \cup {NoBatch}]
    BY DEF TypeOK, OnBatchCommitted, KeyDone, Goes, Drop, generator
  <1>2. \A d, url : Recorded(d, url) /\ d # b => Recorded(d, url)'
    BY <1>1 DEF Recorded, Pop
  <1>3. b \in Batches /\ b.serial = Len(log[b.name]) /\ key[c] = NoKey
    BY <1>1, PoppedOnce DEF InHand
  <1>4. /\ keys[b] \in States
        /\ keys[b].name = b.name /\ keys[b].value = b.serial - 1
    BY <1>1 DEF TypeOK, LastOfName, KeysRight
  <1>5. \/ at'[c] = "idle" /\ key'[c] = NoKey
        \/ /\ at'[c] = "post" /\ key'[c] \in NewStates
           /\ key'[c].name = b.name
           /\ key'[c].value = b.serial
    <2>1. CASE OnBatchCommitted(c)
      <3>1. /\ at'[c] = "post" /\ keys[b].value < MaxValue
            /\ key'[c] = [keys[b] EXCEPT !.value = @ + 1]
        BY <2>1 DEF TypeOK, OnBatchCommitted, Goes
      <3> QED BY <1>3, <1>4, <3>1, MaxValueAssumption
    <2>2. CASE KeyDone(c)
      BY <1>3, <2>2 DEF TypeOK, KeyDone, Goes
    <2> QED BY <2>1, <2>2
  <1>6. TypeOK'
    <2>1. /\ DOMAIN keys' \subseteq DOMAIN keys
          /\ \A d \in DOMAIN keys' : keys'[d] = keys[d]
          /\ keys' = [d \in DOMAIN keys' |-> keys'[d]]
      BY <1>1 DEF Pop
    <2>2. at' \in [Checkers -> Points]
      BY DEF TypeOK, OnBatchCommitted, KeyDone, Goes
    <2>3. key' \in [Checkers -> NewStates \cup {NoKey}]
      <3>1. /\ key' = [key EXCEPT ![c] = key'[c]]
            /\ key'[c] \in NewStates \cup {NoKey}
        BY <1>5 DEF TypeOK, OnBatchCommitted, KeyDone
      <3> QED BY <3>1 DEF TypeOK
    <2> QED BY <1>1, <2>1, <2>2, <2>3 DEF TypeOK
  <1>7. \A d \in Checkers : \A n : Carries(d, n)' => Carries(d, n)
    BY <1>1, <1>3, <1>5, PoppedOnce DEF Carries
  <1>8. OnePlace'
    BY <1>1, <1>7
    DEF OnePlace, QueuedOnce, QueuedOrCarried, CarriedByOne, CarriedOnce
  <1>9. OneUnderWay'
    BY <1>1 DEF OneUnderWay
  <1>10. KeyKnown'
    <2>1. QueuedKnown'
      BY <1>1, <1>2, PoppedOnce DEF KeyKnown, QueuedKnown
    <2>2. HeldKnown'
      BY <1>1, <1>2, PoppedOnce DEF KeyKnown, HeldKnown
    <2> QED BY <2>1, <2>2 DEF KeyKnown
  <1>11. InHand'
    BY <1>1, <1>5 DEF InHand, StatusOf
  <1>12. LastOfName'
    <2>1. QueuedLast' /\ KeysRight'
      BY <1>1 DEF LastOfName, QueuedLast, KeysRight, Pop
    <2>2. \A d \in Checkers \ {c} : New(d)' = New(d)
      BY <1>1 DEF New
    <2>3. \A d \in Checkers : at'[d] = "tell" /\ key'[d].url \in urls' =>
              Recorded(New(d), key[d].url)'
      <3>1. ASSUME NEW d \in Checkers, at'[d] = "tell", key'[d].url \in urls'
            PROVE  Recorded(New(d), key[d].url)'
        <4>1. d # c /\ Recorded(New(d), key[d].url) /\ New(d) # b
          BY <1>1, <1>5, <3>1, PoppedOnce DEF LastOfName, KeyLast, KeyEntered
        <4> QED BY <1>1, <1>2, <2>2, <4>1
      <3> QED BY <3>1
    <2>4. AllCommitted(b.name)
      <3>1. log[b.name][b.serial] = "COMMITTED"
        BY <1>1 DEF InHand, StatusOf
      <3>2. DOMAIN log[b.name] = 1 .. Len(log[b.name])
        BY <1>3, LenProperties DEF TypeOK
      <3> QED BY <1>3, <3>1, <3>2 DEF OneUnderWay, AllCommitted
    <2>5. KeyLast'
      <3>1. ASSUME NEW d \in Checkers
            PROVE  KeyToPost(d)' /\ KeyPosted(d)' /\ KeyEntered(d)'
        <4>1. CASE d = c
          BY <1>1, <1>3, <1>5, <2>4, <4>1
          DEF KeyToPost, KeyPosted, KeyEntered, AllCommitted
        <4>2. CASE d # c
          <5>1. KeyToPost(d) /\ KeyPosted(d)
            BY DEF LastOfName, KeyLast
          <5> QED BY <1>1, <2>3, <4>2, <5>1
              DEF KeyToPost, KeyPosted, KeyEntered, AllCommitted
        <4> QED BY <4>1, <4>2
      <3> QED BY <3>1 DEF KeyLast
    <2> QED BY <2>1, <2>5 DEF LastOfName
  <1> QED BY <1>6, <1>8, <1>9, <1>10, <1>11, <1>12

\* What a batch of n is accepted upon: n is in nobody else's hands, and all of
\* its batches are committed.
LEMMA Acceptance ==
    ASSUME WorkloadInv, NEW c \in Checkers, NEW n \in Names,
           at[c] = "post", Fits(c, n), Accept(n)
    PROVE  /\ \A i \in DOMAIN queue : queue[i].id.name # n
           /\ \A d \in Checkers \ {c} : ~Carries(d, n)
           /\ held[c] # NoBatch => held[c].id.name # n
           /\ key[c] # NoKey /\ key[c] \in NewStates
           /\ log' \in [Names -> Seq(Statuses)]
           /\ \A m \in Names \ {n} : log'[m] = log[m]
           /\ Len(log[n]) = key[c].value
           /\ Len(log'[n]) = key[c].value + 1
           /\ OneUnderWay'
  <1> USE NothingAssumption, NamesAssumption DEF WorkloadInv
  <1>1. key[c] # NoKey /\ key[c] \in NewStates
    BY DEF TypeOK, InHand
  <1>2. log[n] \in Seq(Statuses) /\ Len(log[n]) \in Nat
        /\ DOMAIN log[n] = 1 .. Len(log[n])
    BY LenProperties DEF TypeOK
  <1>3. /\ log' = [log EXCEPT ![n] = Append(log[n], "PENDING")]
        /\ log'[n] = Append(log[n], "PENDING")
    BY DEF TypeOK, Accept
  <1>4. /\ log'[n] \in Seq(Statuses)
        /\ Len(log'[n]) = Len(log[n]) + 1
        /\ \A i \in 1 .. Len(log[n]) : log'[n][i] = log[n][i]
    BY <1>2, <1>3, AppendProperties
  <1>5. /\ log' \in [Names -> Seq(Statuses)]
        /\ \A m \in Names \ {n} : log'[m] = log[m]
    BY <1>3, <1>4 DEF TypeOK
  <1>6. /\ Len(log[n]) = key[c].value
        /\ AllCommitted(n)
    <2> USE DEF LastOfName, KeyLast, KeyToPost
    <2>1. CASE key[c].name = n
      BY <2>1
    <2>2. CASE key[c].name = NoName /\ log[n] = <<>>
      BY <1>2, <2>2 DEF AllCommitted
    <2> QED BY <2>1, <2>2 DEF Fits
  <1>7. OneUnderWay'
    <2>1. DOMAIN log'[n] = 1 .. Len(log[n]) + 1
      BY <1>2, <1>4, LenProperties
    <2>2. \A i \in DOMAIN log'[n] : i < Len(log'[n]) => log'[n][i] = "COMMITTED"
      <3>1. ASSUME NEW i \in DOMAIN log'[n], i < Len(log'[n])
            PROVE  log'[n][i] = "COMMITTED"
        <4>1. i \in DOMAIN log[n] /\ log'[n][i] = log[n][i]
          BY <1>2, <1>4, <2>1, <3>1
        <4> QED BY <1>6, <4>1 DEF AllCommitted
      <3> QED BY <3>1
    <2> QED BY <1>5, <2>2 DEF OneUnderWay
  <1>8. /\ \A i \in DOMAIN queue : queue[i].id.name # n
        /\ \A d \in Checkers \ {c} : ~Carries(d, n)
        /\ held[c] # NoBatch => held[c].id.name # n
    <2>1. CASE key[c].name = n
      <3>1. Carries(c, n)
        BY <1>1, <2>1 DEF Carries
      <3> QED BY <1>1, <2>1, <3>1
          DEF OnePlace, QueuedOrCarried, CarriedByOne, CarriedOnce
    <2>2. CASE key[c].name = NoName /\ log[n] = <<>>
      <3>1. Len(log[n]) = 0
        BY <2>2
      <3>2. \A i \in DOMAIN queue : queue[i].id.name # n
        BY <3>1, QueueItems DEF LastOfName, QueuedLast
      <3>3. \A d \in Checkers : held[d] # NoBatch => held[d].id.name # n
        BY <3>1 DEF TypeOK, InHand
      <3>4. \A d \in Checkers \ {c} : key[d] # NoKey => key[d].name # n
        <4>1. SUFFICES ASSUME NEW d \in Checkers \ {c}, key[d] # NoKey,
                              key[d].name = n
                       PROVE  FALSE
          OBVIOUS
        <4>2. at[d] \in {"post", "enter", "tell"} /\ key[d].value \in Nat
          BY <4>1, MaxValueAssumption DEF TypeOK, InHand
        <4>3. CASE at[d] = "post"
          BY <3>1, <4>1, <4>3 DEF LastOfName, KeyLast, KeyToPost
        <4>4. CASE at[d] \in {"enter", "tell"}
          <5>1. Len(log[n]) = key[d].value + 1
            BY <4>1, <4>4 DEF LastOfName, KeyLast, KeyPosted
          <5> QED BY <3>1, <4>2, <5>1
        <4> QED BY <4>2, <4>3, <4>4
      <3> QED BY <3>2, <3>3, <3>4 DEF Carries
    <2> QED BY <2>1, <2>2 DEF Fits
  <1> QED BY <1>1, <1>4, <1>5, <1>6, <1>7, <1>8

\* A batch of n is accepted: c goes on with it, or ends without an answer.
LEMMA AcceptedStep ==
    ASSUME WorkloadInv, NEW c \in Checkers, NEW n \in Names,
           at[c] = "post", Fits(c, n), Accept(n),
           UNCHANGED <<running, queue, validators, urls, keys>>,
           over' \in SUBSET Batches,
           \/ /\ at' = [at EXCEPT ![c] = "enter"]
              /\ key' = [key EXCEPT ![c].name = n]
              /\ UNCHANGED held
           \/ at' = [at EXCEPT ![c] = "idle"] /\ Raise(c)
    PROVE  WorkloadInv'
  <1> USE NothingAssumption, NamesAssumption DEF WorkloadInv
  <1>1. /\ \A i \in DOMAIN queue : queue[i].id.name # n
        /\ \A d \in Checkers \ {c} : ~Carries(d, n)
        /\ held[c] # NoBatch => held[c].id.name # n
        /\ key[c] # NoKey /\ key[c] \in NewStates
        /\ \A m \in Names \ {n} : log'[m] = log[m]
        /\ Len(log'[n]) = key[c].value + 1
    BY Acceptance
  <1>2. \A d \in Checkers \ {c} :
            at'[d] = at[d] /\ held'[d] = held[d] /\ key'[d] = key[d]
    BY DEF TypeOK, Raise, Drop
  <1>3. \/ /\ at'[c] = "enter" /\ held'[c] = held[c]
           /\ key'[c] \in NewStates /\ key'[c] # NoKey
           /\ key'[c].name = n /\ key'[c].value = key[c].value
        \/ at'[c] = "idle" /\ held'[c] = NoBatch /\ key'[c] = NoKey
    <2> USE DEF TypeOK
    <2>1. CASE Raise(c) /\ at' = [at EXCEPT ![c] = "idle"]
      BY <2>1 DEF Raise, Drop
    <2>2. CASE /\ at' = [at EXCEPT ![c] = "enter"]
               /\ key' = [key EXCEPT ![c].name = n]
               /\ UNCHANGED held
      <3>1. key'[c] = [key[c] EXCEPT !.name = n]
        BY <2>2
      <3>2. /\ key'[c] \in NewStates
            /\ key'[c].name = n /\ key'[c].value = key[c].value
        BY <1>1, <3>1
      <3> QED BY <2>2, <3>2
    <2> QED BY <2>1, <2>2
  <1>4. TypeOK'
    <2>1. /\ at' \in [Checkers -> Points]
          /\ held' \in [Checkers -> PendingBatches \cup {NoBatch}]
      BY DEF TypeOK, Raise, Drop
    <2>2. key' \in [Checkers -> NewStates \cup {NoKey}]
      <3>1. key' = [key EXCEPT ![c] = key'[c]]
        BY DEF TypeOK, Raise
      <3> QED BY <1>3, <3>1 DEF TypeOK
    <2> QED BY <1>1, <2>1, <2>2, Acceptance DEF TypeOK
  <1>5. OnePlace'
    <2>1. ASSUME NEW d \in Checkers, NEW m, Carries(d, m)'
          PROVE  Carries(d, m) \/ (d = c /\ m = n)
      <3>1. CASE d = c
        BY <1>2, <1>3, <2>1, <3>1 DEF Carries
      <3>2. CASE d # c
        BY <1>2, <2>1, <3>2 DEF Carries
      <3> QED BY <3>1, <3>2
    <2>2. QueuedOnce' /\ QueuedOrCarried'
      BY <1>1, <2>1 DEF OnePlace, QueuedOnce, QueuedOrCarried
    <2>3. CarriedByOne'
      BY <1>1, <2>1 DEF OnePlace, CarriedByOne
    <2>4. CarriedOnce'
      BY <1>1, <1>2, <1>3 DEF OnePlace, CarriedOnce
    <2> QED BY <2>2, <2>3, <2>4 DEF OnePlace
  <1>6. OneUnderWay'
    BY Acceptance
  <1>7. KeyKnown'
    BY <1>2, <1>3 DEF KeyKnown, QueuedKnown, HeldKnown, Recorded
  <1>8. \A d \in Checkers : held'[d] # NoBatch =>
            /\ held'[d] = held[d] /\ held[d] \in PendingBatches
            /\ log'[held[d].id.name] = log[held[d].id.name]
    <2>1. ASSUME NEW d \in Checkers, held'[d] # NoBatch
          PROVE  held'[d] = held[d] /\ held[d].id.name # n
      BY <1>1, <1>2, <1>3, <2>1 DEF Carries
    <2>2. \A d \in Checkers : held[d] # NoBatch => held[d] \in PendingBatches
      BY DEF TypeOK
    <2> QED BY <1>1, <2>1, <2>2
  <1>9. InHand'
    BY <1>1, <1>2, <1>3, <1>8 DEF InHand, StatusOf
  <1>10. LastOfName'
    <2>1. QueuedLast'
      BY <1>1, QueueItems DEF LastOfName, QueuedLast
    <2>2. KeysRight'
      BY DEF LastOfName, KeysRight
    <2>3. ASSUME NEW d \in Checkers
          PROVE  KeyToPost(d)' /\ KeyPosted(d)' /\ KeyEntered(d)'
      <3>1. CASE d = c
        BY <1>1, <1>2, <1>3, <3>1 DEF KeyToPost, KeyPosted, KeyEntered
      <3>2. CASE d # c
        <4>1. KeyToPost(d) /\ KeyPosted(d) /\ KeyEntered(d)
          BY DEF LastOfName, KeyLast
        <4>2. at[d] \in {"post", "enter", "tell"} =>
                  key[d] \in NewStates /\ key[d].name # n
          BY <1>1, <3>2 DEF TypeOK, InHand, Carries
        <4>3. at[d] \in {"post", "enter", "tell"} /\ key[d].name # NoName =>
                  log'[key[d].name] = log[key[d].name]
          BY <1>1, <4>2
        <4> QED BY <1>2, <3>2, <4>1, <4>3
            DEF KeyToPost, KeyPosted, KeyEntered, New, Recorded, AllCommitted
      <3> QED BY <3>1, <3>2
    <2> QED BY <2>1, <2>2, <2>3 DEF LastOfName, KeyLast
  <1> QED BY <1>4, <1>5, <1>6, <1>7, <1>9, <1>10

\* post_batches: accepted, with or without an answer, or lost.
LEMMA PostKeeps ==
    ASSUME WorkloadInv, NEW c \in Checkers, PostAccepted(c) \/ PostUnanswered(c)
    PROVE  WorkloadInv'
  <1> USE DEF generator, workload
  <1>1. /\ at[c] = "post"
        /\ held[c] \in PendingBatches \cup {NoBatch}
        /\ HeldBy(c) \in SUBSET Batches
        /\ held = [held EXCEPT ![c] = held[c]]
        /\ running \in BOOLEAN /\ validators \in SUBSET Urls
        /\ over \in SUBSET Batches
    BY DEF WorkloadInv, TypeOK, PostAccepted, PostUnanswered, Goes, HeldBy
  <1>2. CASE PostAccepted(c)
    <2>1. PICK n \in Names : /\ Fits(c, n) /\ Accept(n)
                             /\ key' = [key EXCEPT ![c].name = n]
      BY <1>2 DEF PostAccepted
    <2>3. /\ at' = [at EXCEPT ![c] = "enter"] /\ held' = held
          /\ UNCHANGED <<running, queue, validators, urls, keys>>
          /\ over' \in SUBSET Batches
      BY <1>1, <1>2 DEF PostAccepted, Goes
    <2> QED BY <1>1, <2>1, <2>3, AcceptedStep
  <1>3. CASE PostUnanswered(c) /\ UNCHANGED log
    <2>1. over' \in SUBSET Batches
      BY <1>1, <1>3, LenProperties DEF WorkloadInv, TypeOK, PostUnanswered
    <2> QED BY <1>1, <1>3, <2>1, TaskStep DEF PostUnanswered, Raise, Drop
  <1>4. CASE PostUnanswered(c) /\ ~UNCHANGED log
    <2>1. PICK n \in Names :
              /\ Fits(c, n) /\ Accept(n)
              /\ over' = over \cup HeldBy(c)
                     \cup {[name |-> n, serial |-> Len(log[n]) + 1]}
      BY <1>4 DEF PostUnanswered
    <2>2. Len(log[n]) \in Nat
      BY LenProperties DEF WorkloadInv, TypeOK
    <2>3. over' \in SUBSET Batches
      BY <1>1, <2>1, <2>2
    <2> QED BY <1>1, <1>4, <2>1, <2>3, AcceptedStep DEF PostUnanswered, Raise
  <1> QED BY <1>2, <1>3, <1>4

\* The batch c has submitted is not known to anyone else yet.
LEMMA Submitted ==
    ASSUME WorkloadInv, NEW c \in Checkers, at[c] \in {"enter", "tell"}
    PROVE  /\ key[c] # NoKey /\ key[c] \in States
           /\ New(c) \in Batches
           /\ New(c).name = key[c].name
           /\ New(c).serial = key[c].value + 1
           /\ New(c).serial = Len(log[key[c].name])
           /\ Carries(c, key[c].name)
  <1>1. key[c] # NoKey /\ key[c] \in NewStates
    BY DEF WorkloadInv, TypeOK, InHand
  <1>2. key[c].name \in Names /\ Len(log[key[c].name]) = key[c].value + 1
    BY DEF WorkloadInv, LastOfName, KeyLast, KeyPosted
  <1> QED BY <1>1, <1>2, MaxValueAssumption DEF New, Carries

\* The workload enters the key of an accepted batch.
LEMMA EnterKeeps ==
    ASSUME WorkloadInv, NEW c \in Checkers, Enter(c)
    PROVE  WorkloadInv'
  <1> USE NothingAssumption, NamesAssumption DEF WorkloadInv, generator
  <1>1. /\ at[c] = "enter" /\ at'[c] = "tell"
        /\ \A d \in Checkers \ {c} : at'[d] = at[d]
        /\ UNCHANGED <<log, running, queue, validators, urls, held, key, over>>
    BY DEF TypeOK, Enter, Goes
  <1>2. /\ key[c] \in States /\ New(c) \in Batches
        /\ key[c] = [name |-> New(c).name, url |-> key[c].url,
                     value |-> New(c).serial - 1]
    BY <1>1, Submitted, MaxValueAssumption
  <1>3. /\ DOMAIN keys' = DOMAIN keys \cup {New(c)}
        /\ keys'[New(c)] = key[c]
        /\ \A b \in DOMAIN keys \ {New(c)} : keys'[b] = keys[b]
        /\ keys' = [b \in DOMAIN keys' |-> keys'[b]]
    BY DEF Enter, Enters
  <1>4. \A b, url : Recorded(b, url) /\ b # New(c) => Recorded(b, url)'
    BY <1>3 DEF Recorded
  <1>5. TypeOK'
    <2>1. \A b \in DOMAIN keys' : b \in Batches /\ keys'[b] \in States
      BY <1>2, <1>3 DEF TypeOK
    <2> QED BY <1>1, <1>3, <2>1 DEF TypeOK, Enter, Goes
  <1>6. OnePlace' /\ OneUnderWay'
    BY <1>1 DEF OnePlace, QueuedOnce, QueuedOrCarried, CarriedByOne, CarriedOnce,
                Carries, OneUnderWay
  <1>7. \A i \in DOMAIN queue : queue[i].id # New(c)
    BY <1>1, Submitted DEF OnePlace, QueuedOrCarried
  <1>8. \A d \in Checkers : held[d] # NoBatch => held[d].id # New(c)
    <2>1. ASSUME NEW d \in Checkers, held[d] # NoBatch, held[d].id = New(c)
          PROVE  FALSE
      <3>1. Carries(d, key[c].name)
        BY <1>1, <2>1, Submitted DEF Carries
      <3>2. d = c
        BY <1>1, <1>2, <3>1, Submitted DEF OnePlace, CarriedByOne
      <3> QED BY <1>1, <2>1, <3>2, Submitted DEF OnePlace, CarriedOnce
    <2> QED BY <2>1
  <1>9. KeyKnown'
    <2>1. QueuedKnown'
      BY <1>1, <1>4, <1>7 DEF KeyKnown, QueuedKnown
    <2>2. HeldKnown'
      BY <1>1, <1>4, <1>8 DEF KeyKnown, HeldKnown
    <2> QED BY <2>1, <2>2 DEF KeyKnown
  <1>10. InHand'
    BY <1>1 DEF InHand, StatusOf
  <1>11. LastOfName'
    <2>1. QueuedLast'
      BY <1>1 DEF LastOfName, QueuedLast
    <2>2. KeysRight'
      <3>1. \A b \in DOMAIN keys' :
                keys'[b].name = b.name /\ keys'[b].value = b.serial - 1
        BY <1>2, <1>3 DEF LastOfName, KeysRight
      <3> QED BY <3>1 DEF KeysRight
    <2>3. \A d \in Checkers : New(d)' = New(d)
      BY <1>1 DEF New
    <2>4. ASSUME NEW d \in Checkers
          PROVE  KeyToPost(d)' /\ KeyPosted(d)' /\ KeyEntered(d)'
      <3>1. KeyToPost(d) /\ KeyPosted(d) /\ KeyEntered(d)
        BY DEF LastOfName, KeyLast
      <3>2. KeyToPost(d)' /\ KeyPosted(d)'
        BY <1>1, <3>1 DEF KeyToPost, KeyPosted, AllCommitted
      <3>3. New(d) = New(c) => d = c \/ at[d] \notin {"enter", "tell"}
        <4>1. ASSUME d # c, at[d] \in {"enter", "tell"}, New(d) = New(c)
              PROVE  FALSE
          <5>1. Carries(d, key[c].name)
            BY <1>1, <4>1, Submitted
          <5> QED BY <1>1, <1>2, <4>1, <5>1, Submitted DEF OnePlace, CarriedByOne
        <4> QED BY <4>1
      <3>4. CASE d = c
        <4>1. Recorded(New(c), key[c].url)'
          BY <1>1, <1>2, <1>3, <2>3 DEF Recorded
        <4> QED BY <1>1, <3>2, <3>4, <4>1 DEF KeyEntered
      <3>5. CASE d # c
        BY <1>1, <1>4, <2>3, <3>1, <3>2, <3>3, <3>5 DEF KeyEntered
      <3> QED BY <3>4, <3>5
    <2> QED BY <2>1, <2>2, <2>4 DEF LastOfName, KeyLast
  <1> QED BY <1>5, <1>6, <1>9, <1>10, <1>11

\* The generator is told of an accepted batch.
LEMMA OnNewBatchKeeps ==
    ASSUME WorkloadInv, NEW c \in Checkers, OnNewBatch(c)
    PROVE  WorkloadInv'
  <1> USE NothingAssumption, NamesAssumption DEF WorkloadInv, workload
  <1> DEFINE item == [id |-> New(c), url |-> key[c].url]
  <1>1. /\ at[c] = "tell"
        /\ at'[c] \in {"idle", "back"}
        /\ at'[c] = "idle" => held[c] = NoBatch
        /\ at'[c] = "back" => held[c] # NoBatch
        /\ key'[c] = NoKey
        /\ \A d \in Checkers \ {c} : at'[d] = at[d] /\ key'[d] = key[d]
        /\ UNCHANGED <<log, running, validators, urls, keys, held, over>>
    BY DEF TypeOK, OnNewBatch, Finish
  <1>2. /\ key[c] \in States /\ item \in PendingBatches
        /\ item.id.name = key[c].name
        /\ item.id.serial = Len(log[key[c].name])
        /\ Carries(c, key[c].name)
        /\ key[c] # NoKey
    BY <1>1, Submitted
  <1>3. /\ queue' \in Seq(PendingBatches)
        /\ DOMAIN queue' = 1 .. Len(queue) + 1
        /\ queue'[Len(queue) + 1] = item
        /\ \A i \in DOMAIN queue' \ {Len(queue) + 1} :
               i \in DOMAIN queue /\ queue'[i] = queue[i]
    <2>1. queue \in Seq(PendingBatches) /\ queue' = Append(queue, item)
      BY DEF TypeOK, OnNewBatch
    <2>2. /\ queue' \in Seq(PendingBatches)
          /\ Len(queue') = Len(queue) + 1
          /\ \A i \in 1 .. Len(queue) : queue'[i] = queue[i]
          /\ queue'[Len(queue) + 1] = item
      BY <1>2, <2>1, AppendProperties
    <2>3. DOMAIN queue' = 1 .. Len(queue) + 1
      BY <2>2, LenProperties
    <2> QED BY <2>2, <2>3, QueueItems
  <1>4. TypeOK'
    BY <1>3 DEF TypeOK, OnNewBatch, Finish
  <1>5. OnePlace'
    <2>1. \A d \in Checkers : \A m : Carries(d, m)' => Carries(d, m)
      BY <1>1 DEF Carries
    <2>2. \A d \in Checkers :
              /\ held'[d] # NoBatch => held'[d].id.name # key[c].name
              /\ key'[d] # NoKey => key'[d].name # key[c].name
      <3>1. \A d \in Checkers \ {c} : ~Carries(d, key[c].name)
        BY <1>2 DEF OnePlace, CarriedByOne
      <3>2. held[c] # NoBatch => held[c].id.name # key[c].name
        BY <1>2 DEF OnePlace, CarriedOnce
      <3> QED BY <1>1, <3>1, <3>2 DEF Carries
    <2>3. \A i \in DOMAIN queue : queue[i].id.name # item.id.name
      BY <1>2 DEF OnePlace, QueuedOrCarried
    <2>4. QueuedOnce'
      <3>1. ASSUME NEW i \in DOMAIN queue', NEW j \in DOMAIN queue',
                   queue'[i].id.name = queue'[j].id.name
            PROVE  i = j
        <4>1. CASE i = Len(queue) + 1 \/ j = Len(queue) + 1
          BY <1>3, <2>3, <3>1, <4>1
        <4>2. CASE i # Len(queue) + 1 /\ j # Len(queue) + 1
          BY <1>3, <3>1, <4>2 DEF OnePlace, QueuedOnce
        <4> QED BY <4>1, <4>2
      <3> QED BY <3>1 DEF QueuedOnce
    <2>5. QueuedOrCarried'
      <3>1. ASSUME NEW i \in DOMAIN queue', NEW d \in Checkers
            PROVE  ~Carries(d, queue[i].id.name)'
        <4>1. CASE i = Len(queue) + 1
          BY <1>1, <1>2, <1>3, <2>2, <4>1 DEF Carries
        <4>2. CASE i # Len(queue) + 1
          <5>1. queue'[i] = queue[i] /\ ~Carries(d, queue[i].id.name)
            BY <1>3, <4>2 DEF OnePlace, QueuedOrCarried
          <5> QED BY <1>1, <5>1 DEF Carries
        <4> QED BY <4>1, <4>2
      <3> QED BY <3>1 DEF QueuedOrCarried
    <2>6. CarriedByOne' /\ CarriedOnce'
      BY <1>1, <2>1 DEF OnePlace, CarriedByOne, CarriedOnce
    <2> QED BY <2>4, <2>5, <2>6 DEF OnePlace
  <1>6. OneUnderWay'
    BY <1>1 DEF OneUnderWay
  <1>7. KeyKnown'
    <2>1. key[c].url \in urls => Recorded(item.id, item.url)
      BY <1>1 DEF LastOfName, KeyLast, KeyEntered
    <2>2. QueuedKnown'
      <3>1. ASSUME NEW i \in DOMAIN queue', queue'[i].url \in urls
            PROVE  Recorded(queue'[i].id, queue'[i].url)
        <4>1. CASE i = Len(queue) + 1
          BY <1>3, <2>1, <3>1, <4>1
        <4>2. CASE i # Len(queue) + 1
          BY <1>3, <3>1, <4>2 DEF KeyKnown, QueuedKnown
        <4> QED BY <4>1, <4>2
      <3> QED BY <1>1, <3>1 DEF QueuedKnown, Recorded
    <2>3. HeldKnown'
      BY <1>1 DEF KeyKnown, HeldKnown, Recorded
    <2> QED BY <2>2, <2>3 DEF KeyKnown
  <1>8. InHand'
    BY <1>1 DEF InHand, StatusOf
  <1>9. LastOfName'
    <2>1. QueuedLast'
      <3>1. ASSUME NEW i \in DOMAIN queue'
            PROVE  queue'[i].id.serial = Len(log[queue'[i].id.name])
        <4>1. CASE i = Len(queue) + 1
          BY <1>2, <1>3, <4>1
        <4>2. CASE i # Len(queue) + 1
          BY <1>3, <4>2 DEF LastOfName, QueuedLast
        <4> QED BY <4>1, <4>2
      <3> QED BY <1>1, <3>1 DEF QueuedLast
    <2>2. KeysRight'
      BY <1>1 DEF LastOfName, KeysRight
    <2>3. ASSUME NEW d \in Checkers
          PROVE  KeyToPost(d)' /\ KeyPosted(d)' /\ KeyEntered(d)'
      <3>1. CASE d = c
        BY <1>1, <3>1 DEF KeyToPost, KeyPosted, KeyEntered
      <3>2. CASE d # c
        <4>1. KeyToPost(d) /\ KeyPosted(d) /\ KeyEntered(d)
          BY DEF LastOfName, KeyLast
        <4> QED BY <1>1, <3>2, <4>1
            DEF KeyToPost, KeyPosted, KeyEntered, AllCommitted, New, Recorded
      <3> QED BY <3>1, <3>2
    <2> QED BY <2>1, <2>2, <2>3 DEF LastOfName, KeyLast
  <1> QED BY <1>4, <1>5, <1>6, <1>7, <1>8, <1>9

\* The validators decide on a batch, wherever it is.
LEMMA DecideKeeps ==
    ASSUME WorkloadInv, NEW n \in Names, Decide(n)
    PROVE  WorkloadInv'
  <1> USE DEF WorkloadInv
  <1>1. PICK i \in DOMAIN log[n], s \in {"COMMITTED", "INVALID"} :
            log[n][i] = "PENDING" /\ log' = [log EXCEPT ![n][i] = s]
    BY DEF Decide
  <1>2. UNCHANGED <<running, queue, validators, urls, keys, at, held, key, over>>
    BY DEF Decide, generator, workload, task
  <1>3. log[n] \in Seq(Statuses) /\ Len(log[n]) \in Nat
        /\ DOMAIN log[n] = 1 .. Len(log[n])
    BY LenProperties DEF TypeOK
  <1>4. /\ log'[n] \in Seq(Statuses)
        /\ Len(log'[n]) = Len(log[n])
        /\ \A m \in Names \ {n} : log'[m] = log[m]
        /\ log' \in [Names -> Seq(Statuses)]
        /\ \A j \in DOMAIN log[n] : log'[n][j] = IF j = i THEN s ELSE log[n][j]
    <2>1. log'[n] = [log[n] EXCEPT ![i] = s]
      BY <1>1 DEF TypeOK
    <2>2. log'[n] \in Seq(Statuses) /\ Len(log'[n]) = Len(log[n])
      BY <1>1, <1>3, <2>1, ExceptSeq
    <2> QED BY <1>1, <1>3, <2>1, <2>2 DEF TypeOK
  <1>5. /\ \A m \in Names : Len(log'[m]) = Len(log[m])
        /\ \A m \in Names : DOMAIN log'[m] = DOMAIN log[m]
        /\ \A m \in Names : \A j \in DOMAIN log[m] :
               log[m][j] = "COMMITTED" => log'[m][j] = "COMMITTED"
    <2>1. DOMAIN log'[n] = DOMAIN log[n]
      BY <1>3, <1>4, LenProperties
    <2> QED BY <1>1, <1>4, <2>1
  <1>6. TypeOK'
    BY <1>2, <1>4 DEF TypeOK
  <1>7. OnePlace'
    BY <1>2 DEF OnePlace, QueuedOnce, QueuedOrCarried, CarriedByOne, CarriedOnce,
                Carries
  <1>8. OneUnderWay'
    BY <1>5 DEF OneUnderWay
  <1>9. KeyKnown'
    BY <1>2 DEF KeyKnown, QueuedKnown, HeldKnown, Recorded
  <1>10. \A c \in Checkers : held[c] # NoBatch => held[c] \in PendingBatches
    BY DEF TypeOK
  <1>11. InHand'
    <2>1. ASSUME NEW c \in Checkers, at[c] = "committed"
          PROVE  StatusOf(held[c].id)' = "COMMITTED"
      <3>1. /\ held[c] \in PendingBatches
            /\ held[c].id.serial = Len(log[held[c].id.name])
            /\ log[held[c].id.name][held[c].id.serial] = "COMMITTED"
        BY <1>10, <2>1 DEF InHand, StatusOf
      <3>2. held[c].id.serial \in DOMAIN log[held[c].id.name]
        <4>1. log[held[c].id.name] \in Seq(Statuses)
          BY <3>1 DEF TypeOK
        <4> QED BY <3>1, <4>1, LenProperties
      <3> QED BY <1>2, <1>5, <3>1, <3>2 DEF StatusOf
    <2> QED BY <1>2, <1>5, <1>10, <2>1 DEF InHand
  <1>12. LastOfName'
    <2>1. QueuedLast' /\ KeysRight'
      BY <1>2, <1>5, QueueItems DEF LastOfName, QueuedLast, KeysRight
    <2>2. ASSUME NEW c \in Checkers
          PROVE  KeyToPost(c)' /\ KeyPosted(c)' /\ KeyEntered(c)'
      <3>1. KeyToPost(c) /\ KeyPosted(c) /\ KeyEntered(c)
        BY DEF LastOfName, KeyLast
      <3>2. at[c] \in {"post", "enter", "tell"} /\ key[c].name # NoName =>
                key[c].name \in Names
        BY DEF TypeOK, InHand
      <3>3. KeyToPost(c)' /\ KeyPosted(c)'
        BY <1>2, <1>5, <3>1, <3>2, NamesAssumption
        DEF KeyToPost, KeyPosted, AllCommitted
      <3>4. at[c] = "tell" => New(c)' = New(c)
        BY <1>2, <1>5, <3>1, <3>2 DEF New, KeyPosted
      <3> QED BY <1>2, <3>1, <3>3, <3>4 DEF KeyEntered, Recorded
    <2> QED BY <2>1, <2>2 DEF LastOfName, KeyLast
  <1> QED BY <1>6, <1>7, <1>8, <1>9, <1>11, <1>12

-----------------------------------------------------------------------------
\* The invariant holds before the first tick.
LEMMA InitInv == WorkloadInit => WorkloadInv
  <1> SUFFICES ASSUME WorkloadInit PROVE WorkloadInv
    OBVIOUS
  <1>1. TypeOK
    BY EmptySeq DEF WorkloadInit, TypeOK
  <1>2. queue = <<>> /\ DOMAIN queue = {} /\ DOMAIN keys = {}
    BY DEF WorkloadInit
  <1>3. OnePlace
    BY <1>2 DEF WorkloadInit, OnePlace, QueuedOnce, QueuedOrCarried, CarriedByOne,
                CarriedOnce, Carries
  <1>4. OneUnderWay
    BY DEF WorkloadInit, OneUnderWay
  <1>5. KeyKnown
    BY <1>2 DEF WorkloadInit, KeyKnown, QueuedKnown, HeldKnown
  <1>6. InHand /\ LastOfName
    BY <1>2 DEF WorkloadInit, InHand, LastOfName, QueuedLast, KeyLast, KeysRight,
                KeyToPost, KeyPosted, KeyEntered
  <1> QED BY <1>1, <1>3, <1>4, <1>5, <1>6 DEF WorkloadInv

\* Every step keeps the invariant.
LEMMA StepInv == WorkloadInv /\ [WorkloadNext]_workloadVars => WorkloadInv'
  <1> SUFFICES ASSUME WorkloadInv, [WorkloadNext]_workloadVars PROVE WorkloadInv'
    OBVIOUS
  <1>1. ASSUME NEW c \in Checkers, Tick(c) PROVE WorkloadInv'
    BY <1>1, TickWithBatchKeeps, CheckOnBatchKeeps DEF Tick
  <1>2. ASSUME NEW c \in Checkers, CheckOnBatch(c) PROVE WorkloadInv'
    BY <1>2, CheckOnBatchKeeps, OnValidatorRemovedKeeps, PutBackKeeps
    DEF CheckOnBatch
  <1>3. ASSUME NEW c \in Checkers, OnCallback(c) PROVE WorkloadInv'
    BY <1>3, PopKeeps, CheckOnBatchKeeps, CreateKeeps, PostKeeps, EnterKeeps,
       OnNewBatchKeeps DEF OnCallback
  <1>4. ASSUME NEW n \in Names, Decide(n) PROVE WorkloadInv'
    BY <1>4, DecideKeeps
  <1>5. CASE UNCHANGED <<log, queue, validators, workload, task, over>>
             /\ running' \in BOOLEAN
    BY <1>5 DEF workload, task, WorkloadInv, TypeOK, OnePlace, QueuedOnce,
                QueuedOrCarried, CarriedByOne, CarriedOnce, Carries, OneUnderWay,
                KeyKnown, QueuedKnown, HeldKnown, Recorded, InHand, StatusOf,
                LastOfName, QueuedLast, KeyLast, KeysRight, KeyToPost, KeyPosted,
                KeyEntered, AllCommitted, New
  <1>6. CASE Stop
    BY <1>5, <1>6 DEF Stop
  <1>7. CASE UNCHANGED workloadVars
    <2>1. running \in BOOLEAN
      BY DEF WorkloadInv, TypeOK
    <2> QED BY <1>5, <1>7, <2>1 DEF workloadVars, generator
  <1> QED BY <1>1, <1>2, <1>3, <1>4, <1>6, <1>7 DEF WorkloadNext

\* The invariant of the workload generator and its workload.
THEOREM WorkloadInvariance == WorkloadSpec => []WorkloadInv
  BY InitInv, StepInv, PTL DEF WorkloadSpec

\* The state of the workload has its type: each pending batch has a name and
\* a serial.
THEOREM WorkloadTyped == WorkloadSpec => []TypeOK
  <1>1. WorkloadInv => TypeOK
    BY DEF WorkloadInv
  <1> QED BY <1>1, WorkloadInvariance, PTL

\* The collection of the generator and the tasks that share it never have a
\* key in two places.
THEOREM KeyInOnePlace == WorkloadSpec => []OnePlace
  <1>1. WorkloadInv => OnePlace
    BY DEF WorkloadInv
  <1> QED BY <1>1, WorkloadInvariance, PTL

\* However many tasks submit: an increment is accepted only after all earlier
\* batches of its key are committed.
THEOREM OneBatchUnderWay == WorkloadSpec => []OneUnderWay
  <1>1. WorkloadInv => OneUnderWay
    BY DEF WorkloadInv
  <1> QED BY <1>1, WorkloadInvariance, PTL

\* The workload's collection has the key of every batch the generator follows
\* whose validator is there.
THEOREM KeyIsKnown == WorkloadSpec => []KeyKnown
  <1>1. WorkloadInv => KeyKnown
    BY DEF WorkloadInv
  <1> QED BY <1>1, WorkloadInvariance, PTL

-----------------------------------------------------------------------------
(* No accepted batch is mislaid: what a task takes out of the queue, it      *)
(* puts back, or it has met its end.                                         *)

\* A batch is one that its name's log has.
LEMMA AllTraced ==
    ASSUME NoneDropped, \A n \in Names : DOMAIN log'[n] = DOMAIN log[n],
           \A b : Traced(b) => Traced(b)'
    PROVE  NoneDropped'
  BY DEF NoneDropped

\* A step of a task that has nothing accepted to tell of, and keeps the batch in
\* its hands unless the end of that one is met.
LEMMA TaskTraces ==
    ASSUME NoneDropped, MetBeforeDropped, NEW c \in Checkers,
           at[c] \notin {"enter", "tell"},
           UNCHANGED <<log, queue>>, over \subseteq over',
           \A d \in Checkers \ {c} :
               at'[d] = at[d] /\ held'[d] = held[d] /\ key'[d] = key[d],
           held[c] # NoBatch => held'[c] = held[c] \/ held[c].id \in over',
           at'[c] \in {"delist", "removed", "committed"} => held'[c].id \in over'
    PROVE  NoneDropped' /\ MetBeforeDropped'
  <1>1. ASSUME NEW b, Traced(b) PROVE Traced(b)'
    <2>1. CASE b \in over \/ \E i \in DOMAIN queue : queue[i].id = b
      BY <2>1 DEF Traced
    <2>2. ASSUME NEW d \in Checkers, held[d] # NoBatch, held[d].id = b
          PROVE  Traced(b)'
      <3>1. held'[d] = held[d] \/ b \in over'
        BY <2>2
      <3> QED BY <2>2, <3>1 DEF Traced
    <2>3. ASSUME NEW d \in Checkers, at[d] \in {"enter", "tell"}, New(d) = b
          PROVE  Traced(b)'
      <3>1. d # c
        BY <2>3
      <3>2. at'[d] = at[d] /\ New(d)' = b
        BY <2>3, <3>1 DEF New
      <3> QED BY <2>3, <3>2 DEF Traced
    <2> QED BY <1>1, <2>1, <2>2, <2>3 DEF Traced
  <1>2. NoneDropped'
    BY <1>1, AllTraced
  <1>3. MetBeforeDropped'
    BY DEF MetBeforeDropped
  <1> QED BY <1>2, <1>3

\* The steps of a task apart from the queue and the acceptance of a batch.
LEMMA TasksTrace ==
    ASSUME WorkloadInv, NoneDropped, MetBeforeDropped, NEW c \in Checkers,
           \/ TickWithout(c) \/ FindsCommitted(c) \/ FindsPending(c)
           \/ FindsOther(c) \/ Unresponsive(c) \/ RemoveFromList(c)
           \/ RemoveTwice(c) \/ OnValidatorRemoved(c) \/ OnBatchCommitted(c)
           \/ KeyDone(c) \/ KeyGone(c) \/ CreateNewKey(c) \/ NoUrls(c)
           \/ PostRefused(c) \/ (PostUnanswered(c) /\ UNCHANGED log)
    PROVE  NoneDropped' /\ MetBeforeDropped'
  <1>1. /\ at \in [Checkers -> Points]
        /\ held \in [Checkers -> PendingBatches \cup {NoBatch}]
        /\ key \in [Checkers -> NewStates \cup {NoKey}]
    BY DEF WorkloadInv, TypeOK
  <1>2. at[c] \in {"delist", "removed", "committed"} => held[c].id \in over
    BY DEF MetBeforeDropped
  <1>3. at[c] = "idle" => held[c] = NoBatch
    BY DEF WorkloadInv, InHand
  <1> USE DEF generator, workload
  <1>4. CASE TickWithout(c) \/ FindsPending(c) \/ CreateNewKey(c)
    BY <1>1, <1>3, <1>4, TaskTraces
    DEF TickWithout, FindsPending, CreateNewKey, Goes
  <1>5. CASE FindsCommitted(c) \/ FindsOther(c) \/ Unresponsive(c)
    BY <1>1, <1>5, TaskTraces
    DEF FindsCommitted, FindsOther, Unresponsive, Goes, Drop
  <1>6. CASE RemoveFromList(c) \/ RemoveTwice(c) \/ OnValidatorRemoved(c)
    BY <1>1, <1>2, <1>6, TaskTraces
    DEF RemoveFromList, RemoveTwice, OnValidatorRemoved, Goes, Raise, Drop
  <1>7. CASE OnBatchCommitted(c) \/ KeyDone(c) \/ KeyGone(c)
    BY <1>1, <1>2, <1>7, TaskTraces
    DEF OnBatchCommitted, KeyDone, KeyGone, Goes, Raise, Drop
  <1>8. CASE NoUrls(c) \/ PostRefused(c)
    BY <1>1, <1>8, TaskTraces DEF NoUrls, PostRefused, Finish
  <1>9. CASE PostUnanswered(c) /\ UNCHANGED log
    <2>1. over \subseteq over' /\ HeldBy(c) \subseteq over'
      BY <1>9 DEF PostUnanswered
    <2>2. held[c] # NoBatch => held[c].id \in over'
      BY <2>1 DEF HeldBy
    <2> QED BY <1>1, <1>9, <2>1, <2>2, TaskTraces
        DEF PostUnanswered, Raise, Drop
  <1> QED BY <1>4, <1>5, <1>6, <1>7, <1>8, <1>9

\* The queue and a task pass a batch on.
LEMMA QueueTraces ==
    ASSUME WorkloadInv, NoneDropped, MetBeforeDropped, NEW c \in Checkers,
           TickWithBatch(c) \/ PutBack(c) \/ Enter(c) \/ OnNewBatch(c)
    PROVE  NoneDropped' /\ MetBeforeDropped'
  <1>1. /\ at \in [Checkers -> Points]
        /\ held \in [Checkers -> PendingBatches \cup {NoBatch}]
        /\ key \in [Checkers -> NewStates \cup {NoKey}]
        /\ queue \in Seq(PendingBatches)
    BY DEF WorkloadInv, TypeOK
  <1>2. UNCHANGED <<log, over>>
        /\ \A d \in Checkers \ {c} :
               at'[d] = at[d] /\ held'[d] = held[d] /\ key'[d] = key[d]
    BY <1>1 DEF TickWithBatch, PutBack, Enter, OnNewBatch, Goes, Drop, Finish,
                workload
  <1>3. \A d \in Checkers \ {c} : New(d)' = New(d)
    BY <1>2 DEF New
  <1>4. at'[c] \notin {"delist", "removed", "committed"}
    BY <1>1 DEF TickWithBatch, PutBack, Enter, OnNewBatch, Goes, Finish
  <1>5. ASSUME NEW b, \E i \in DOMAIN queue : queue[i].id = b
        PROVE  Traced(b)'
    <2>1. PICK i \in DOMAIN queue : queue[i].id = b
      BY <1>5
    <2>2. Len(queue) \in Nat /\ DOMAIN queue = 1 .. Len(queue)
      BY <1>1, LenProperties
    <2>3. CASE TickWithBatch(c)
      <3>1. /\ queue # <<>> /\ queue' = Tail(queue)
            /\ held'[c] = Head(queue)
        BY <1>1, <2>3 DEF TickWithBatch
      <3>2. Head(queue) = queue[1] /\ queue[1] \in PendingBatches
        <4>1. 1 \in DOMAIN queue
          BY <2>1, <2>2
        <4>2. queue[1] \in PendingBatches
          BY <4>1, QueueItems DEF WorkloadInv
        <4> QED BY <1>1, <4>2
      <3>3. CASE i = 1
        BY <2>1, <3>1, <3>2, <3>3, NothingAssumption DEF Traced
      <3>4. CASE i # 1
        <4>1. /\ Len(Tail(queue)) = Len(queue) - 1
              /\ Tail(queue) \in Seq(PendingBatches)
              /\ \A j \in 1 .. Len(Tail(queue)) : Tail(queue)[j] = queue[j + 1]
          BY <1>1, <3>1, HeadTailProperties
        <4>2. i - 1 \in DOMAIN queue'
          BY <2>1, <2>2, <3>1, <3>4, <4>1, LenProperties
        <4>3. queue'[i - 1].id = b
          BY <2>1, <2>2, <3>1, <3>4, <4>1
        <4> QED BY <4>2, <4>3 DEF Traced
      <3> QED BY <3>3, <3>4
    <2>4. CASE PutBack(c)
      <3>1. queue' = <<held[c]>> \o queue
        BY <2>4 DEF PutBack
      <3>2. held[c] \in PendingBatches
        BY <1>1, <2>4 DEF PutBack, Goes, WorkloadInv, InHand
      <3>3. <<held[c]>> \in Seq(PendingBatches) /\ Len(<<held[c]>>) = 1
        BY <3>2
      <3>4. /\ queue' \in Seq(PendingBatches)
            /\ Len(queue') = 1 + Len(queue)
            /\ \A j \in 1 .. 1 + Len(queue) :
                   queue'[j] = IF j <= 1 THEN <<held[c]>>[j] ELSE queue[j - 1]
        BY <1>1, <3>1, <3>3, ConcatProperties
      <3>5. i + 1 \in DOMAIN queue'
        BY <2>1, <2>2, <3>4, LenProperties
      <3>6. queue'[i + 1].id = b
        BY <2>1, <2>2, <3>4
      <3> QED BY <3>5, <3>6 DEF Traced
    <2>5. CASE Enter(c)
      BY <2>1, <2>5 DEF Enter, generator, Traced
    <2>6. CASE OnNewBatch(c)
      <3>1. queue' = Append(queue, [id |-> New(c), url |-> key[c].url])
        BY <2>6 DEF OnNewBatch
      <3>2. i \in DOMAIN queue' /\ queue'[i] = queue[i]
        BY <1>1, <2>1, <2>2, <3>1
      <3> QED BY <2>1, <3>2 DEF Traced
    <2> QED BY <2>3, <2>4, <2>5, <2>6
  <1>6. ASSUME NEW b, held[c] # NoBatch, held[c].id = b
        PROVE  Traced(b)'
    <2>1. CASE TickWithBatch(c)
      BY <1>1, <1>6, <2>1 DEF TickWithBatch, Goes, WorkloadInv, InHand
    <2>2. CASE PutBack(c)
      <3>1. held[c] \in PendingBatches /\ queue' = <<held[c]>> \o queue
        BY <1>1, <1>6, <2>2 DEF PutBack
      <3>2. 1 \in DOMAIN queue' /\ queue'[1] = held[c]
        BY <1>1, <3>1
      <3> QED BY <1>6, <3>2 DEF Traced
    <2>3. CASE Enter(c) \/ OnNewBatch(c)
      <3>1. held'[c] = held[c]
        BY <2>3 DEF Enter, OnNewBatch, Finish
      <3> QED BY <1>6, <3>1 DEF Traced
    <2> QED BY <2>1, <2>2, <2>3
  <1>7. ASSUME NEW b, at[c] \in {"enter", "tell"}, New(c) = b
        PROVE  Traced(b)'
    <2>1. CASE Enter(c)
      <3>1. at'[c] = "tell" /\ New(c)' = New(c)
        BY <1>1, <1>2, <2>1 DEF Enter, Goes, New
      <3> QED BY <1>7, <3>1 DEF Traced
    <2>2. CASE OnNewBatch(c)
      <3>1. queue' = Append(queue, [id |-> New(c), url |-> key[c].url])
        BY <2>2 DEF OnNewBatch
      <3>2. /\ Len(queue) + 1 \in DOMAIN queue'
            /\ queue'[Len(queue) + 1] = [id |-> New(c), url |-> key[c].url]
        BY <1>1, <3>1
      <3> QED BY <1>7, <3>2 DEF Traced
    <2>3. CASE TickWithBatch(c) \/ PutBack(c)
      BY <1>7, <2>3 DEF TickWithBatch, PutBack, Goes
    <2> QED BY <2>1, <2>2, <2>3
  <1>8. ASSUME NEW b, Traced(b) PROVE Traced(b)'
    <2>1. CASE b \in over
      BY <1>2, <2>1 DEF Traced
    <2>2. ASSUME NEW d \in Checkers, held[d] # NoBatch, held[d].id = b
          PROVE  Traced(b)'
      <3>1. CASE d = c
        BY <1>6, <2>2, <3>1
      <3>2. CASE d # c
        <4>1. held'[d] # NoBatch /\ held'[d].id = b
          BY <1>2, <2>2, <3>2
        <4> QED BY <4>1 DEF Traced
      <3> QED BY <3>1, <3>2
    <2>3. ASSUME NEW d \in Checkers, at[d] \in {"enter", "tell"}, New(d) = b
          PROVE  Traced(b)'
      <3>1. CASE d = c
        BY <1>7, <2>3, <3>1
      <3>2. CASE d # c
        <4>1. at'[d] \in {"enter", "tell"} /\ New(d)' = b
          BY <1>2, <1>3, <2>3, <3>2
        <4> QED BY <4>1 DEF Traced
      <3> QED BY <3>1, <3>2
    <2> QED BY <1>5, <1>8, <2>1, <2>2, <2>3 DEF Traced
  <1>9. NoneDropped'
    BY <1>2, <1>8, AllTraced
  <1>10. MetBeforeDropped'
    BY <1>2, <1>4 DEF MetBeforeDropped
  <1> QED BY <1>9, <1>10

\* A batch that the validators accept is in the hands of the task that sent it,
\* or the task has met an error.
LEMMA AcceptanceTraces ==
    ASSUME WorkloadInv, NoneDropped, MetBeforeDropped, NEW c \in Checkers,
           PostAccepted(c) \/ (PostUnanswered(c) /\ ~UNCHANGED log)
    PROVE  NoneDropped' /\ MetBeforeDropped'
  <1>1. /\ at \in [Checkers -> Points]
        /\ held \in [Checkers -> PendingBatches \cup {NoBatch}]
        /\ key \in [Checkers -> NewStates \cup {NoKey}]
        /\ log \in [Names -> Seq(Statuses)]
        /\ at[c] = "post"
    BY DEF WorkloadInv, TypeOK, PostAccepted, PostUnanswered, Goes
  <1>2. PICK n \in Names :
            /\ Fits(c, n) /\ Accept(n)
            /\ \/ at'[c] = "enter" /\ key'[c].name = n
               \/ [name |-> n, serial |-> Len(log[n]) + 1] \in over'
    <2>1. CASE PostAccepted(c)
      <3>1. PICK n \in Names : Fits(c, n) /\ Accept(n)
                               /\ key' = [key EXCEPT ![c].name = n]
        BY <2>1 DEF PostAccepted
      <3>2. at'[c] = "enter"
        BY <1>1, <2>1 DEF PostAccepted, Goes
      <3>3. key'[c].name = n
        <4>1. key[c] # NoKey
          BY <1>1 DEF WorkloadInv, InHand
        <4>2. key[c] \in NewStates
          BY <1>1, <4>1
        <4> QED BY <1>1, <3>1, <4>2
      <3> QED BY <3>1, <3>2, <3>3
    <2>2. CASE PostUnanswered(c) /\ ~UNCHANGED log
      BY <2>2 DEF PostUnanswered
    <2> QED BY <2>1, <2>2
  <1>3. /\ \A d \in Checkers \ {c} : ~Carries(d, n)
        /\ \A m \in Names \ {n} : log'[m] = log[m]
    BY <1>1, <1>2, Acceptance
  <1>4. /\ Len(log[n]) \in Nat /\ DOMAIN log[n] = 1 .. Len(log[n])
        /\ Len(log'[n]) = Len(log[n]) + 1
        /\ DOMAIN log'[n] = 1 .. Len(log[n]) + 1
    <2>1. log[n] \in Seq(Statuses) /\ log'[n] = Append(log[n], "PENDING")
      BY <1>1, <1>2 DEF Accept
    <2> QED BY <2>1
  <1>5. /\ over \subseteq over' /\ queue' = queue
        /\ held[c] # NoBatch => held'[c] = held[c] \/ held[c].id \in over'
        /\ \A d \in Checkers \ {c} :
               at'[d] = at[d] /\ held'[d] = held[d] /\ key'[d] = key[d]
        /\ at'[c] \notin {"delist", "removed", "committed"}
    <2>1. CASE PostAccepted(c)
      BY <1>1, <2>1 DEF PostAccepted, Goes, generator
    <2>2. CASE PostUnanswered(c) /\ ~UNCHANGED log
      BY <1>1, <2>2 DEF PostUnanswered, Raise, Drop, HeldBy, generator
    <2> QED BY <2>1, <2>2
  <1>6. ASSUME NEW b, Traced(b) PROVE Traced(b)'
    <2>1. CASE b \in over \/ \E i \in DOMAIN queue : queue[i].id = b
      BY <1>5, <2>1 DEF Traced
    <2>2. ASSUME NEW d \in Checkers, held[d] # NoBatch, held[d].id = b
          PROVE  Traced(b)'
      <3>1. held'[d] = held[d] \/ b \in over'
        BY <1>5, <2>2
      <3> QED BY <2>2, <3>1 DEF Traced
    <2>3. ASSUME NEW d \in Checkers, at[d] \in {"enter", "tell"}, New(d) = b
          PROVE  Traced(b)'
      <3>1. d # c
        BY <1>1, <2>3
      <3>2. key[d].name # n /\ key[d].name \in Names
        <4>1. key[d] # NoKey /\ key[d] \in States
          BY <2>3, Submitted
        <4>2. ~Carries(d, n)
          BY <1>3, <3>1
        <4> QED BY <4>1, <4>2 DEF Carries
      <3>3. at'[d] = at[d] /\ New(d)' = b
        BY <1>3, <1>5, <2>3, <3>1, <3>2 DEF New
      <3> QED BY <2>3, <3>3 DEF Traced
    <2> QED BY <1>6, <2>1, <2>2, <2>3 DEF Traced
  <1>7. ASSUME NEW b, b = [name |-> n, serial |-> Len(log[n]) + 1]
        PROVE  Traced(b)'
    <2>1. CASE at'[c] = "enter" /\ key'[c].name = n
      <3>1. New(c)' = b
        BY <1>4, <1>7, <2>1 DEF New
      <3> QED BY <2>1, <3>1 DEF Traced
    <2>2. CASE [name |-> n, serial |-> Len(log[n]) + 1] \in over'
      BY <1>7, <2>2 DEF Traced
    <2> QED BY <1>2, <2>1, <2>2
  <1>8. NoneDropped'
    <2>1. ASSUME NEW m \in Names, NEW i \in DOMAIN log'[m]
          PROVE  Traced([name |-> m, serial |-> i])'
      <3>1. CASE i \in DOMAIN log[m]
        BY <1>6, <3>1 DEF NoneDropped
      <3>2. CASE i \notin DOMAIN log[m]
        <4>1. m = n /\ i = Len(log[n]) + 1
          BY <1>3, <1>4, <2>1, <3>2
        <4>2. [name |-> m, serial |-> i] = [name |-> n, serial |-> Len(log[n]) + 1]
          BY <4>1
        <4>3. \A b : b = [name |-> n, serial |-> Len(log[n]) + 1] => Traced(b)'
          BY <1>7
        <4> QED BY <4>2, <4>3
      <3> QED BY <3>1, <3>2
    <2> QED BY <2>1 DEF NoneDropped
  <1>9. MetBeforeDropped'
    BY <1>5 DEF MetBeforeDropped
  <1> QED BY <1>8, <1>9

\* A decision of the validators moves no batch.
LEMMA DecideTraces ==
    ASSUME WorkloadInv, NoneDropped, MetBeforeDropped, NEW n \in Names, Decide(n)
    PROVE  NoneDropped' /\ MetBeforeDropped'
  <1>1. PICK i \in DOMAIN log[n], s \in {"COMMITTED", "INVALID"} :
            log' = [log EXCEPT ![n][i] = s]
    BY DEF Decide
  <1>2. UNCHANGED <<queue, at, held, key, over>>
    BY DEF Decide, generator, task
  <1>3. log \in [Names -> Seq(Statuses)]
    BY DEF WorkloadInv, TypeOK
  <1>4. \A m \in Names : DOMAIN log'[m] = DOMAIN log[m] /\ Len(log'[m]) = Len(log[m])
    <2>1. log'[n] = [log[n] EXCEPT ![i] = s] /\ log[n] \in Seq(Statuses)
      BY <1>1, <1>3
    <2>2. log'[n] \in Seq(Statuses) /\ Len(log'[n]) = Len(log[n])
      BY <1>1, <2>1, ExceptSeq
    <2>3. DOMAIN log'[n] = DOMAIN log[n]
      BY <2>1
    <2> QED BY <1>1, <1>3, <2>2, <2>3
  <1>5. ASSUME NEW d \in Checkers, at[d] \in {"enter", "tell"}
        PROVE  New(d)' = New(d)
    <2>1. key[d].name \in Names
      BY <1>5, Submitted
    <2> QED BY <1>2, <1>4, <2>1 DEF New
  <1>6. ASSUME NEW b, Traced(b) PROVE Traced(b)'
    BY <1>2, <1>5, <1>6 DEF Traced
  <1>7. NoneDropped'
    BY <1>4, <1>6, AllTraced
  <1>8. MetBeforeDropped'
    BY <1>2 DEF MetBeforeDropped
  <1> QED BY <1>7, <1>8

LEMMA StepTraces ==
    ASSUME WorkloadInv, NoneDropped, MetBeforeDropped, [WorkloadNext]_workloadVars
    PROVE  NoneDropped' /\ MetBeforeDropped'
  <1>1. ASSUME NEW c \in Checkers, Tick(c) \/ CheckOnBatch(c) \/ OnCallback(c)
        PROVE  NoneDropped' /\ MetBeforeDropped'
    BY <1>1, TasksTrace, QueueTraces, AcceptanceTraces
    DEF Tick, CheckOnBatch, OnCallback
  <1>2. CASE UNCHANGED <<log, queue, task, over>>
    <2>1. \A b : Traced(b) <=> Traced(b)'
      BY <1>2 DEF Traced, New, task
    <2> QED BY <1>2, <2>1 DEF NoneDropped, MetBeforeDropped, task
  <1>3. CASE Stop \/ UNCHANGED workloadVars
    BY <1>2, <1>3 DEF Stop, workloadVars, generator
  <1> QED BY <1>1, <1>3, DecideTraces DEF WorkloadNext

\* What the safety half of Followed is: until its end or an error is met, a batch
\* that the validators accepted is in the queue of the generator or with a task.
THEOREM NoBatchDropped == WorkloadSpec => []NoneDropped
  <1>1. WorkloadInit => NoneDropped /\ MetBeforeDropped
    BY DEF WorkloadInit, NoneDropped, MetBeforeDropped
  <1>2. WorkloadInv /\ NoneDropped /\ MetBeforeDropped
        /\ [WorkloadNext]_workloadVars => (NoneDropped /\ MetBeforeDropped)'
    BY StepTraces
  <1> QED BY <1>1, <1>2, WorkloadInvariance, PTL DEF WorkloadSpec
=============================================================================
