------------------------------ MODULE Workload ------------------------------
(***************************************************************************)
(* examples/intkey_python/sawtooth_intkey/client_cli: WorkloadGenerator    *)
(* (workload/workload_generator.py) with an IntKeyWorkload                 *)
(* (intkey_workload.py).                                                   *)
(*                                                                         *)
(* Each tick of the generator hands one task to a pool of threads, which   *)
(* asks for the status of the batch first in the queue, and submits a new  *)
(* batch: the next increment of the key, or a new key.  The generator and  *)
(* the workload each have a collection of the batches under way, and a     *)
(* list of the validators, each under a lock of its own.                   *)
(*                                                                         *)
(* Left out are counters that are only written or displayed.               *)
(***************************************************************************)
EXTENDS Integers, Sequences

CONSTANTS
    Checkers,   \* tasks of the thread pool
    Urls,       \* of the REST APIs, as given to the command
    Names,      \* of keys; how many there are bounds how many are set
    MaxValue,   \* where a key is done, 1000000
    NoBatch,
    NoKey,
    NoName

ASSUME MaxValueAssumption == MaxValue \in Nat
ASSUME NamesAssumption == NoName \notin Names

VARIABLES
    log,        \* for each name, what became of its batches, as accepted
    running,    \* _simulator_loop has not been cancelled
    queue,      \* WorkloadGenerator._pending_batches
    validators, \* WorkloadGenerator._validators
    urls,       \* IntKeyWorkload._urls
    keys,       \* IntKeyWorkload._pending_batches
    at,         \* where each task is (Points)
    held,       \* the batch it checks and has not finished with
    key,        \* the IntKeyState it is about to submit or to enter
    over        \* ghost: batches whose end, or an error, a task has met

generator == <<running, queue, validators>>
workload == <<urls, keys>>
task == <<at, held, key>>
workloadVars == <<log, generator, workload, task, over>>

-----------------------------------------------------------------------------
Points ==
    {"idle",
     "status",     \* before the request in _status_request
     "delist",     \* has found the url in _validators
     "removed",    \* before on_validator_removed
     "committed",  \* before on_batch_committed
     "create",     \* before _create_new_key
     "post",       \* before post_batches
     "enter",      \* accepted, and not in keys
     "tell",       \* before on_new_batch
     "back"}       \* before appendleft

Statuses == {"PENDING", "COMMITTED", "INVALID"}

\* The batches of a name are its "set" and its increments. A batch is the
\* serial-th that the validators accepted of its name (its header signature).
Batches == [name : Names, serial : Nat \ {0}]
PendingBatches == [id : Batches, url : Urls]
States == [name : Names, url : Urls, value : 0 .. MaxValue]
NewStates == [name : Names \cup {NoName}, url : Urls, value : 0 .. MaxValue]

ASSUME NothingAssumption == NoBatch \notin PendingBatches /\ NoKey \notin NewStates

StatusOf(b) == log[b.name][b.serial]

\* The batch that checker c has submitted last.
New(c) == [name |-> key[c].name, serial |-> Len(log[key[c].name])]

Without(url) == {b \in DOMAIN keys : keys[b].url # url}

TypeOK ==
    /\ log \in [Names -> Seq(Statuses)]
    /\ running \in BOOLEAN
    /\ queue \in Seq(PendingBatches)
    /\ validators \in SUBSET Urls
    /\ urls \in SUBSET Urls
    /\ keys = [b \in DOMAIN keys |-> keys[b]]
    /\ DOMAIN keys \subseteq Batches
    /\ \A b \in DOMAIN keys : keys[b] \in States
    /\ at \in [Checkers -> Points]
    /\ held \in [Checkers -> PendingBatches \cup {NoBatch}]
    /\ key \in [Checkers -> NewStates \cup {NoKey}]
    /\ over \in SUBSET Batches

-----------------------------------------------------------------------------
WorkloadInit ==
    /\ log = [n \in Names |-> <<>>]
    /\ running = TRUE
    /\ queue = <<>>
    /\ validators = Urls
    /\ urls = Urls
    /\ keys = [b \in {} |-> NoKey]
    /\ at = [c \in Checkers |-> "idle"]
    /\ held = [c \in Checkers |-> NoBatch]
    /\ key = [c \in Checkers |-> NoKey]
    /\ over = {}

Goes(c, from, to) == at[c] = from /\ at' = [at EXCEPT ![c] = to]

Drop(c) == held' = [held EXCEPT ![c] = NoBatch]

\* c is through with what it submits. A batch it found pending goes back.
Finish(c) ==
    /\ at' = [at EXCEPT ![c] = IF held[c] = NoBatch THEN "idle" ELSE "back"]
    /\ key' = [key EXCEPT ![c] = NoKey]
    /\ UNCHANGED held

\* An exception ends the task; nobody looks at its future.
Raise(c) ==
    /\ at' = [at EXCEPT ![c] = "idle"]
    /\ key' = [key EXCEPT ![c] = NoKey]
    /\ Drop(c)

HeldBy(c) == IF held[c] = NoBatch THEN {} ELSE {held[c].id}

-----------------------------------------------------------------------------
(* _simulator_loop: a tick, with a batch or without one                    *)

\* Mutant of TickWithBatch: the batch is looked at and not taken out.
TickPeeks(c) ==
    /\ Goes(c, "idle", "status")
    /\ running /\ queue # <<>>
    /\ held' = [held EXCEPT ![c] = Head(queue)]
    /\ UNCHANGED <<log, generator, workload, key, over>>

TickWithBatch(c) ==
    /\ Goes(c, "idle", "status")
    /\ running /\ queue # <<>>
    /\ held' = [held EXCEPT ![c] = Head(queue)]
    /\ queue' = Tail(queue)
    /\ UNCHANGED <<log, running, validators, workload, key, over>>

TickWithout(c) ==
    /\ Goes(c, "idle", "create")
    /\ running /\ queue = <<>>
    /\ UNCHANGED <<log, generator, workload, held, key, over>>

\* A KeyboardInterrupt: stop() cancels the loop; tasks go on to their end.
Stop ==
    /\ running
    /\ running' = FALSE
    /\ UNCHANGED <<log, queue, validators, workload, task, over>>

-----------------------------------------------------------------------------
(* _check_on_batch and _status_request                                     *)

\* Mutant of FindsCommitted: whatever is not invalid counts as committed.
FindsValid(c) ==
    /\ Goes(c, "status", "committed")
    /\ StatusOf(held[c].id) # "INVALID"
    /\ over' = over \cup {held[c].id}
    /\ UNCHANGED <<log, generator, workload, held, key>>

FindsCommitted(c) ==
    /\ Goes(c, "status", "committed")
    /\ StatusOf(held[c].id) = "COMMITTED"
    /\ over' = over \cup {held[c].id}
    /\ UNCHANGED <<log, generator, workload, held, key>>

\* Mutant of FindsPending: a pending batch is dropped with the unknown ones.
DropsPending(c) ==
    /\ Goes(c, "status", "create")
    /\ StatusOf(held[c].id) = "PENDING"
    /\ Drop(c)
    /\ UNCHANGED <<log, generator, workload, key, over>>

FindsPending(c) ==
    /\ Goes(c, "status", "create")
    /\ StatusOf(held[c].id) = "PENDING"
    /\ UNCHANGED <<log, generator, workload, held, key, over>>

\* INVALID, an HTTP error, or no JSON: the batch is dropped.
FindsOther(c) ==
    /\ Goes(c, "status", "create")
    /\ over' = over \cup {held[c].id}
    /\ Drop(c)
    /\ UNCHANGED <<log, generator, workload, key>>

\* No connection, or error 18: the url is looked up in _validators first.
Unresponsive(c) ==
    /\ at[c] = "status"
    /\ at' = [at EXCEPT ![c] =
                 IF held[c].url \in validators THEN "delist" ELSE "removed"]
    /\ over' = over \cup {held[c].id}
    /\ UNCHANGED <<log, generator, workload, held, key>>

RemoveFromList(c) ==
    /\ Goes(c, "delist", "removed")
    /\ held[c].url \in validators
    /\ validators' = validators \ {held[c].url}
    /\ UNCHANGED <<log, running, queue, workload, held, key, over>>

\* Another task removed it first: ValueError.
RemoveTwice(c) ==
    /\ at[c] = "delist"
    /\ held[c].url \notin validators
    /\ Raise(c)
    /\ UNCHANGED <<log, generator, workload, over>>

OnValidatorRemoved(c) ==
    /\ Goes(c, "removed", "create")
    /\ urls' = urls \ {held[c].url}
    /\ keys' = IF held[c].url \in urls
                 THEN [b \in Without(held[c].url) |-> keys[b]]
                 ELSE keys
    /\ Drop(c)
    /\ UNCHANGED <<log, generator, key, over>>

\* Mutant of PutBack: the batch is not put back.
PutBackNowhere(c) ==
    /\ Goes(c, "back", "idle")
    /\ Drop(c)
    /\ UNCHANGED <<log, generator, workload, key, over>>

PutBack(c) ==
    /\ Goes(c, "back", "idle")
    /\ queue' = <<held[c]>> \o queue
    /\ Drop(c)
    /\ UNCHANGED <<log, running, validators, workload, key, over>>

-----------------------------------------------------------------------------
(* on_batch_committed                                                      *)

\* pop of the workload's collection.
Pop(b) == keys' = [d \in DOMAIN keys \ {b} |-> keys[d]]

OnBatchCommitted(c) ==
    LET b == held[c].id IN
    /\ Goes(c, "committed", "post")
    /\ b \in DOMAIN keys
    /\ keys[b].value < MaxValue
    /\ Pop(b)
    /\ key' = [key EXCEPT ![c] = [keys[b] EXCEPT !.value = @ + 1]]
    /\ Drop(c)
    /\ UNCHANGED <<log, generator, urls, over>>

\* The key has come to its end: no increment, and no new key.
KeyDone(c) ==
    LET b == held[c].id IN
    /\ Goes(c, "committed", "idle")
    /\ b \in DOMAIN keys
    /\ keys[b].value = MaxValue
    /\ Pop(b)
    /\ Drop(c)
    /\ UNCHANGED <<log, generator, urls, key, over>>

\* The else branch asks None for its name: AttributeError.
KeyGone(c) ==
    /\ at[c] = "committed"
    /\ held[c].id \notin DOMAIN keys
    /\ Raise(c)
    /\ UNCHANGED <<log, generator, workload, over>>

-----------------------------------------------------------------------------
(* _create_new_key, and what it has in common with an increment            *)

CreateNewKey(c) ==
    /\ Goes(c, "create", "post")
    /\ \E url \in urls :
           key' = [key EXCEPT ![c] = [name |-> NoName, url |-> url, value |-> 0]]
    /\ UNCHANGED <<log, generator, workload, held, over>>

NoUrls(c) ==
    /\ at[c] = "create" /\ urls = {}
    /\ Finish(c)
    /\ UNCHANGED <<log, generator, workload, over>>

\* The name the batch is for: a "set" is for one that nobody has used.
Fits(c, n) == key[c].name = n \/ (key[c].name = NoName /\ log[n] = <<>>)

Accept(n) == log' = [log EXCEPT ![n] = Append(@, "PENDING")]

\* Mutant of PostAccepted: the generator is told of a batch at once.
PostAcceptedTells(c) ==
    /\ Goes(c, "post", "tell")
    /\ \E n \in Names :
           /\ Fits(c, n)
           /\ Accept(n)
           /\ key' = [key EXCEPT ![c].name = n]
    /\ UNCHANGED <<generator, workload, held, over>>

\* post_batches: 202.
PostAccepted(c) ==
    /\ Goes(c, "post", "enter")
    /\ \E n \in Names :
           /\ Fits(c, n)
           /\ Accept(n)
           /\ key' = [key EXCEPT ![c].name = n]
    /\ UNCHANGED <<generator, workload, held, over>>

\* Any other status.
PostRefused(c) ==
    /\ at[c] = "post"
    /\ Finish(c)
    /\ UNCHANGED <<log, generator, workload, over>>

\* No answer. The batch may have been accepted or not; None cannot be
\* unpacked, and a pending batch that c holds is lost with the task.
PostUnanswered(c) ==
    /\ at[c] = "post"
    /\ \/ UNCHANGED log /\ over' = over \cup HeldBy(c)
       \/ \E n \in Names :
              /\ Fits(c, n)
              /\ Accept(n)
              /\ over' = over \cup HeldBy(c)
                     \cup {[name |-> n, serial |-> Len(log[n]) + 1]}
    /\ Raise(c)
    /\ UNCHANGED <<generator, workload>>

Enters(c) ==
    keys' = [b \in DOMAIN keys \cup {New(c)} |->
                IF b = New(c) THEN key[c] ELSE keys[b]]

Enter(c) ==
    /\ Goes(c, "enter", "tell")
    /\ Enters(c)
    /\ UNCHANGED <<log, generator, urls, held, key, over>>

OnNewBatch(c) ==
    /\ at[c] = "tell"
    /\ queue' = Append(queue, [id |-> New(c), url |-> key[c].url])
    /\ Finish(c)
    /\ UNCHANGED <<log, running, validators, workload, over>>

-----------------------------------------------------------------------------
\* The validators commit or reject a batch; an increment depends on the "set"
\* of its key.
Decide(n) ==
    /\ \E i \in DOMAIN log[n], s \in {"COMMITTED", "INVALID"} :
           /\ log[n][i] = "PENDING"
           /\ log' = [log EXCEPT ![n][i] = s]
    /\ UNCHANGED <<generator, workload, task, over>>

Tick(c) == TickWithBatch(c) \/ TickWithout(c)

CheckOnBatch(c) ==
    \/ FindsCommitted(c) \/ FindsPending(c) \/ FindsOther(c)
    \/ Unresponsive(c) \/ RemoveFromList(c) \/ RemoveTwice(c)
    \/ OnValidatorRemoved(c) \/ PutBack(c)

OnCallback(c) ==
    \/ OnBatchCommitted(c) \/ KeyDone(c) \/ KeyGone(c)
    \/ CreateNewKey(c) \/ NoUrls(c)
    \/ PostAccepted(c) \/ PostRefused(c) \/ PostUnanswered(c)
    \/ Enter(c) \/ OnNewBatch(c)

WorkloadNext ==
    \/ \E c \in Checkers : Tick(c) \/ CheckOnBatch(c) \/ OnCallback(c)
    \/ \E n \in Names : Decide(n)
    \/ Stop

WorkloadSpec == WorkloadInit /\ [][WorkloadNext]_workloadVars

\* The loop ticks, the pool runs its tasks, requests are answered or fail,
\* and the validators decide on what they accepted.
WorkloadFairness ==
    /\ WF_workloadVars(\E c \in Checkers : Tick(c))
    /\ \A c \in Checkers : WF_workloadVars(CheckOnBatch(c) \/ OnCallback(c))
    /\ \A n \in Names : WF_workloadVars(Decide(n))

WorkloadFairSpec == WorkloadSpec /\ WorkloadFairness

-----------------------------------------------------------------------------
(* What must hold.                                                         *)

\* Task c has to do with a batch of n: it checks one, or is to submit one.
Carries(c, n) ==
    \/ held[c] # NoBatch /\ held[c].id.name = n
    \/ key[c] # NoKey /\ key[c].name = n

QueuedOnce ==
    \A i, j \in DOMAIN queue : queue[i].id.name = queue[j].id.name => i = j

QueuedOrCarried ==
    \A i \in DOMAIN queue, c \in Checkers : ~Carries(c, queue[i].id.name)

CarriedByOne ==
    \A c, d \in Checkers, n \in Names : Carries(c, n) /\ Carries(d, n) => c = d

CarriedOnce ==
    \A c \in Checkers :
        held[c] # NoBatch /\ key[c] # NoKey => held[c].id.name # key[c].name

\* A key is followed in one place at most: in the queue once, or by one of the
\* tasks that take batches out of it, check them, put them back and go on with
\* their key. (_pending_batches of the generator, in all its uses.)
OnePlace == QueuedOnce /\ QueuedOrCarried /\ CarriedByOne /\ CarriedOnce

\* A key is incremented only when all its batches are committed, its "set"
\* among them, which each increment names as its dependency
\* (intkey_workload.py:140-157).
OneUnderWay ==
    \A n \in Names : \A i \in DOMAIN log[n] :
        i < Len(log[n]) => log[n][i] = "COMMITTED"

\* The workload's state of a batch.
Recorded(b, url) ==
    /\ b \in DOMAIN keys
    /\ keys[b] = [name |-> b.name, url |-> url, value |-> b.serial - 1]

QueuedKnown ==
    \A i \in DOMAIN queue :
        queue[i].url \in urls => Recorded(queue[i].id, queue[i].url)

HeldKnown ==
    \A c \in Checkers :
        held[c] # NoBatch /\ held[c].url \in urls =>
            Recorded(held[c].id, held[c].url)

\* While its validator is there, the workload knows the key of every batch the
\* generator follows, and its value is that of the batch. A task that finds no
\* key for a committed batch (intkey_workload.py:168) has lost its validator.
KeyKnown == QueuedKnown /\ HeldKnown

\* Each accepted batch is checked until its end is known, unless an error is
\* met or the generator is stopped (the queue of _check_on_batch).
Followed ==
    \A n \in Names : \A i \in 1 .. MaxValue + 1 :
        i \in DOMAIN log[n] ~>
            [name |-> n, serial |-> i] \in over \/ ~running

\* Where an accepted batch can be found: its end has been met, it is queued, or
\* a task checks it or is about to enter it and tell the generator.
Traced(b) ==
    \/ b \in over
    \/ \E i \in DOMAIN queue : queue[i].id = b
    \/ \E c \in Checkers : held[c] # NoBatch /\ held[c].id = b
    \/ \E c \in Checkers : at[c] \in {"enter", "tell"} /\ New(c) = b

\* No accepted batch is mislaid between the queue and the tasks, before its end
\* or an error is met and even when the generator is stopped. (What a task has
\* taken out of _pending_batches, it puts back, workload_generator.py:159-160.)
NoneDropped ==
    \A n \in Names : \A i \in DOMAIN log[n] : Traced([name |-> n, serial |-> i])

\* A task lets go of a batch after its end is met.
MetBeforeDropped ==
    \A c \in Checkers :
        at[c] \in {"delist", "removed", "committed"} => held[c].id \in over

\* What OnePlace, OneUnderWay and KeyKnown rest on: where a task is tells what
\* it has in hand, and a batch in hand is the last of its name.
InHand ==
    \A c \in Checkers :
        /\ at[c] = "idle" => held[c] = NoBatch
        /\ at[c] \in {"status", "delist", "removed", "committed", "back"} =>
               held[c] # NoBatch
        /\ held[c] # NoBatch => held[c].id.serial = Len(log[held[c].id.name])
        /\ at[c] = "committed" => StatusOf(held[c].id) = "COMMITTED"
        /\ key[c] # NoKey <=> at[c] \in {"post", "enter", "tell"}

QueuedLast ==
    \A i \in DOMAIN queue : queue[i].id.serial = Len(log[queue[i].id.name])

AllCommitted(n) == \A i \in DOMAIN log[n] : log[n][i] = "COMMITTED"

KeyToPost(c) ==
    at[c] = "post" =>
        \/ key[c].name = NoName /\ key[c].value = 0
        \/ /\ key[c].name # NoName
           /\ key[c].value = Len(log[key[c].name])
           /\ key[c].value > 0
           /\ AllCommitted(key[c].name)

KeyPosted(c) ==
    at[c] \in {"enter", "tell"} =>
        key[c].name \in Names /\ Len(log[key[c].name]) = key[c].value + 1

KeyEntered(c) ==
    at[c] = "tell" /\ key[c].url \in urls => Recorded(New(c), key[c].url)

KeyLast == \A c \in Checkers : KeyToPost(c) /\ KeyPosted(c) /\ KeyEntered(c)

KeysRight ==
    \A b \in DOMAIN keys : keys[b].name = b.name /\ keys[b].value = b.serial - 1

LastOfName == QueuedLast /\ KeyLast /\ KeysRight

\* The inductive invariant: what a task has in hand, what is queued and what
\* the workload has entered are the last batches of their names.
WorkloadInv ==
    TypeOK /\ OnePlace /\ OneUnderWay /\ KeyKnown /\ InHand /\ LastOfName
=============================================================================
