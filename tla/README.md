# Verification of the Sawtooth Python SDK

TLA+ modules that model the Sawtooth SDK for Python, TLC configurations that
check them on small instances, and theorems about them that the TLA+ proof
system checks for every value of the constants. Paths are relative to the
repository; `stream.py:160` is a line of it.

1. [The system](#1-the-system)
2. [Plan](#2-plan)
3. [The modules](#3-the-modules)
4. [The runs](#4-the-runs)
5. [Fairness](#5-fairness)
6. [The proofs](#6-the-proofs)
7. [What the code does otherwise than it says](#7-what-the-code-does-otherwise-than-it-says)
8. [What is not modelled](#8-what-is-not-modelled)
9. [Running the tools](#9-running-the-tools)

## 1. The system

The repository lets a program be a part of a Sawtooth validator: a transaction
processor, which applies transactions to the validator's state, or a consensus
engine. Both talk to the validator over one ZeroMQ connection, through a
`Stream`.

| component | state it keeps | operations | hard behaviours | what makes it correct |
| --- | --- | --- | --- | --- |
| **Stream**, `messaging/stream.py`, with **FutureCollection**, `messaging/future.py` | the event loop of a background thread with its queues; the ready event; the futures by correlation id; the ZeroMQ context | `send`, `send_back`, `receive`, `wait_for_ready`, `is_ready`, `close`; in the background connect, send, receive, monitor, fail, reconnect | any thread calls in while the background thread loses the connection, fails the futures, drops the queues and makes new ones; calls handed to a loop that has stopped; timeouts that race answers | a request leaves at most once and its future is resolved at last; an answer is never replaced, nor taken for a request; a waiting caller is released; a close ends the thread |
| **TransactionProcessor**, `processor/core.py` | the handlers; what was received and not answered; what is registered | `start` (`_register`, `_process`, `_unregister`, `_process_future`), `stop` | a reconnect is one message in the queue of requests; disconnects at every point of a registration or of a handler; an interrupt at every wait | handlers are registered with a connection before its requests are applied; a request is applied once; an interrupt ends it |
| **Context**, `processor/context.py` | the context id of one transaction | `get_state`, `set_state`, `delete_state`, `add_receipt_data`, `add_event` | each is a request that may be lost, time out, or be refused | a handler sees the state its transaction is entitled to |
| **ZmqDriver**, `consensus/zmq_driver.py` | `_exit`, `_updates`, the driver thread | `start` (`_register`, `_wait_until_active`), `_driver_loop`, `_process`, `stop` | the engine's thread, the driver's thread and the background thread stop one another | the engine gets each notification once and in order, and nothing after `start` is over; a stop ends `start` |
| **ZmqService**, `consensus/zmq_service.py` | none | fifteen requests to the validator | a timeout or a disconnect under each | each returns, or raises |
| **intkey** handler, `examples/intkey_python/.../handler.py` | none; a dict of names per address of the state | `set`, `inc`, `dec` | names share an address; bounds; processors work at the same time; retries | the state is that of independent counters |
| **xo** handler, `examples/xo_python/.../processor` | a cache for one transaction; games per address of the state | `create`, `take`, `delete` | the turn, the winner and the players are kept beside the board | the games are games of tic-tac-toe |
| **workload generator**, `examples/intkey_python/.../workload` | pending batches in two collections under two locks; the urls | checkers of a thread pool submit batches and poll them | a batch is told to one collection, then to the other; validators disappear | each batch is followed to its end, and one follows it |
| **clients** of the families, `intkey_client.py`, `xo_client.py` and their command lines | the time a command has waited | `set`, `inc`, `dec`, `create`, `take`, `delete`, each with `--wait` or without; `show`, `list` | a submission that fails half-way; statuses that are late, wrong or never come; whole seconds against fractions | it reports what it knows, waits as long as it was told to, and ends |
| **batch files**, `create_batch.py`, `populate.py`, `generate.py`, `load.py` | a file of batches | make a file; post it in chunks from five threads | chunks arrive in any order, or not at all; files of other programs use the same words | an update meets the key its own file has set; each batch is posted once; what was accepted is settled |
| **MockValidator**, `sawtooth_processor_test` | one bound socket; the processor's identity | `listen`, `register_processor`, `send`, `expect`, `expect_one`, `respond`, `close` | what a failing test or class leaves behind, in the processor and in the socket | a test is judged by its own messages, and does not hang |
| signing, command lines, configuration, protobuf | files | | none or little | |

How they interact:

* The thread of a transaction processor calls `Stream.send`, `send_back` and
  `receive`. These hand callbacks to the background loop
  (`call_soon_threadsafe`, `run_coroutine_threadsafe`) and return futures; the
  loop resolves them. On a disconnect it resolves every future with an error,
  cancels its tasks, stops, and starts over with new queues, the first item of
  which is a RECONNECT_EVENT.
* A handler's state requests are `Stream.send` from within `_process`.
* A consensus engine runs in the main thread; a driver thread receives from the
  Stream and puts notifications on a queue the engine reads. The engine's
  service calls are `Stream.send` from the main thread.
* Clients, batch files and the workload reach the validators over the REST API,
  which takes lists of batches and reports what became of them.
* In unit tests the MockValidator takes the validator's place: it expects one
  message of the processor after the other, and answers those that are requests.
* The validator is not part of the repository. What the modules say of it is
  what the code relies on: it answers a request at most once, over the
  connection the request came on; it gives each transaction a context, checks
  the accesses against the transaction's header, and keeps what was set if the
  answer is OK.

`PROJECT.json` lists the hazards of this code at their lines, and the
properties that stand for them.

## 2. Plan

In the order of what matters most. A module composes those it EXTENDS.

| module | of | abstract specification | theorems | state |
| --- | --- | --- | --- | --- |
| `Stream` | `stream.py`, `future.py` | `RequestReply` | invariant, refinement, action properties | done |
| `TransactionProcessor` EXTENDS `Stream` | `core.py`, `context.py` | none of its own; its requests keep `RequestReply` | invariants, the promise of its requests | done |
| `ZmqDriver` EXTENDS `Stream` | `zmq_driver.py`, `zmq_service.py` | none: what the engine gets, and when | order of the threads, action properties, invariant | done |
| `TransactionFamily`, `Intkey` | intkey handler | `Counters` | invariant, refinement | done |
| `Xo` EXTENDS `TransactionFamily` | xo handler | `TicTacToe` | invariant, refinement | done |
| `Workload` | workload generator and intkey workload | none: its promises are invariants of the two collections | each key in one place; the two collections agree; no batch mislaid | done |
| `Commands` | the clients of the families | none: what a command reports, and how long it waits | both, and the invariant behind them | done |
| `BatchFiles` | `create_batch`, `populate`, `generate`, `load` | none: each batch in one request; each update after its key | invariant, and what follows from it | done |
| `MockValidator` | `mock_validator.py`, `transaction_processor_test_case.py` | none: a test is judged by its own messages | both, and the invariant behind them | done |

Every invariant, action property and refinement that a run checks is proved.
What is left to the runs are the liveness properties; for most of them the
proofs have a safety half (section 6).

## 3. The modules

### RequestReply

What the caller of a Stream may rely on, in four variables: is the connection
up, what became of each request, which are accepted and not transmitted, which
the validator holds. A request is transmitted at most once, fails only while
the connection is down, and an answer stays. It does not promise that an error
stays: the code overwrites one with a late answer.

### Stream

One action for each callback, task step or stretch of a thread between two
points at which another thread's step could matter.

* *Background thread.* `loop` is where it is (`LoopStates`): `Connect` is a pass
  through the try block of `run` (stream.py:206-241), `ConnectFails` its except
  clause, `RunReturns` what follows `run_forever`. `MonitorDisconnect`,
  `FailFuture`, `FailDone` and `IterationBroken` are `_monitor_disconnects`: the
  sweep over the dict of futures is one step per future, because clients add
  futures meanwhile, and "dictionary changed size during iteration" ends the
  coroutine.
* *The loop.* `calls` are the callbacks handed over with
  `call_soon_threadsafe`; they outlive the queues. `RunPut`, `RunGet`,
  `RunShutdown`, `SendTask`, `ReceiveAnswer`, `ReceiveInitial`, `GetterTakes`
  and `DeliverCancel` are the loop's steps. Tasks that were cancelled learn of
  it when the loop runs again, which after a disconnect is in the next
  connection: the model follows asyncio of the Python versions the SDK
  supports (3.8 and before).
* *Clients.* `pc` is where each client is in `send` or `send_back`: before the
  registration of its future, before the look at the ready event
  (stream.py:160), and past it, where it waits for queues. Clients of the set
  `Patient` wait without a timeout, `Interruptible` ones may get a
  KeyboardInterrupt, `Receivers` call `receive`.

Merged steps, and why nothing is lost: `receive` is one step, as its effect on
others is the one callback it schedules. The shutdown's cancellation and its
stop are one step of the loop, in which no client can intervene. A request at
the validator and its reply in the socket are one set, `atValidator`, since
either is lost with the connection; a lost connection loses any subset of it.

### TransactionProcessor

`Stream` with the main thread of `start` as its one client: `tp` is the point
at which it is (`Points`). A registration sends its requests one by one
(`toSend`) and awaits their futures in order (`waitFor`). Handlers are
arbitrary: between `Apply` and `ApplyEnds` they make state requests of their
Context, which are answered, time out or meet a disconnect, and then return or
raise. What does not decode ends `start` (`NotDecoded`). `draining` is the loop after an interrupt. Ghosts: `registered` is the
connection the last finished registration was for, `applied` how often each
request was applied.

### ZmqDriver

`Stream` with three clients: the main thread (`main`), which registers, waits for
the activation, runs the engine and stops; the driver thread (`driver`); and a
thread of the program around them (`stopper`), which may call `stop` once, at any
time after the Stream is there, as tests/test_zmq_driver.py:199 does. `stop` is two
steps for each of the three, with `Engine.stop` before the close of the stream. The
engine calls its service when it likes and, if `EngineQuits`, returns when it
likes; after `Engine.stop` it returns. Its return and the first half of the `stop`
that follows are one step (`EngineReturns`): nothing but `_exit` and the engine is
touched between. A message may be of any type, expected or not
(`ProcessUnexpected`), and a notification may not decode (`ProcessMalformed`). The service is one operation: all are
`_send`, and differ in the status they raise for. `DriverTakes` joins the
result of a future with the next `receive`, which touch only this thread's
variables; the handling of a ping is part of `DriverPuts`, since it has no
effect on the queue of updates.

### TransactionFamily

What the two handlers share, and the validator's part in it. A processor is at
one of eight `Points` with a transaction of the validator (`job`): `Deliver`
hands one out, also again after an INTERNAL_ERROR or a disconnect; `GetState`
and `SetState` are the requests of the Context with their
AUTHORIZATION_ERROR; `Commit`, `Decline` and `Disconnected` are the ways
`_process` ends; a program that died of an exception `_process` does not catch
is started again. The validator hands out at the same time only transactions
whose headers do not conflict: this is the schedule handlers rely on, and the
only assumption about it.

### Intkey and Counters

`Intkey` is `apply` of the intkey handler: `Refuse` and `Die` for what
`_unpack_transaction` raises, `GetStateData`, `DoIntkey`, `SetStateData`,
`StateError`, and then the answer. `AddressOf` is any function, so names may
share an address. Payloads are records of a verb, a name and a value that may
each be wrong, or `Garbage` (cbor does not load it), or `Incomplete` (a key is
missing). `Counters` has one variable, the value of each name, and three
actions; `valueOf` maps one to the other, and a transaction takes effect at its
commit.

### Xo and TicTacToe

`Xo` is `apply` of the xo handler with its `XoPayload` and `XoState`. XoState
caches the one address of its transaction, so that `get_game`, `set_game` and
`delete_game` come to one `get_state` and one `set_state` or `delete_state`,
each of which may exceed its timeout of 3 seconds. `TicTacToe` keeps boards and
players only: whose turn it is and whether the game is over is read off the
board. `PlaysByTheRules` says that the handler, which keeps `state` beside the
board and never counts, comes to the same.

### Workload

The generator's queue of pending batches and list of validators, the workload's
dict of keys and list of urls, and the tasks of the thread pool, each at one of
ten `Points`: a task is at most one step away from each lock, and locks are held
for one step. `log` is what the validators make of each key's batches, in the
order in which they accepted them; a batch is a name and its number in that log,
which stands for its header signature. What a task holds (`held`) is the batch
it took from the queue until it has put it back, dropped it, or gone on with its
key (`key`). A request may be answered, refused, or not answered; an accepted
batch whose answer is lost is accepted all the same. An exception ends a task
(`Raise`), which nobody notices: the future of `run_in_executor` is not looked
at. The dependency of an increment is the "set" of its name, which is the first
entry of the log of the name.

### Commands

One client that runs a command after the other, of either family: the two
clients differ in the texts they send only, and in that xo_cli.py:417 passes on
a positive `--wait` only. `at` is where a command is, `clock` the time since
`start_time` in ticks, of which a second has `TicksPerSecond`: the code compares
the time as it is (`Continues`), and asks the REST API for whole seconds
(`Remaining`). `status` is what the validator makes of the batch, `told` what
the client has heard of it. A submission may fail before it reaches the
validator (`PostRefused`) or after (`PostUnanswered`); both are an error to the
client, as is an interrupt inside a request.

### BatchFiles

Programs that make a file and load it. `CreateKeys`, `Populate` and `DrawPool`
choose any words: the dictionary's, which is the same for each program, or random
ones. `Generate` is one batch of updates; only create_batch.py names what they
depend on. `Submit`, `Take`, `PostAccepted`, `PostFails` and `LoadEnds` are
`do_load` and its executor. A batch is named by its program and its place in the
file, a transaction by its place in the batch as well, in place of header
signatures. The validator is external: it settles a batch when what it depends on
is settled, and applies all of its transactions or none.

### MockValidator

What unittest does with the test cases: a class after the other (`Listen`,
`RegisterProcessor`, `TearDown`), in each a test after the other
(`SendTransaction`, `Expect`, `ExpectFails`). A test's script says which contents
each step accepts, one for `expect`, several for `expect_one`; a processor is
external and says to a transaction what `Handlings` allow, to its response. It
outlives the classes, and with it what a test has left unanswered. Contents are
records of a type and two parts, of which the comparators look at one;
messages without a comparator are compared as a whole. Requests are those that
`message_types` of the test case knows: it has no add_receipt_data, so that a
receipt can be sent and not be expected.

## 4. The runs

| run | shows | bounds |
| --- | --- | --- |
| `stream_safety` | a client that sends and one that also receives, interrupts, timeouts, a disconnect and a close: no request that was handed over is forgotten (`NeverForgotten`), nor anything that is asked of the loop (`CallsKept`), the other safety properties, and that `RequestReply` is implemented | 2 futures, 2 connections, 1 message of each client in the queues, 1 close |
| `stream_live` | handed-over requests are resolved, waiting clients released, a close ends the thread | as above, 1 future, 1 message of the validator's own, and no bound on queues |
| `stream_send_dropped`, `stream_wedged` | findings | 1 client |
| `tp` | registration before application, no registration after an interrupt, requests applied once, no connection missed (`NoneMissed`) and each registered with in the end, and an interrupt ends `start` | 2 connections, 2 messages of the validator, 1 registration, 1 state request, 1 interrupt |
| `zd_driver` | updates in order and none lost (`NoneLost`), a driver thread that only the loss of a connection or an undecodable notification ends, nothing after `start`, a stop by any of three threads ends `start` | 2 connections, 2 messages, 1 service call and 1 stop from outside, 4 of these together (`MaxEvents`) |
| `intkey` | the state is that of counters; refusals are right at the instant of the answer | 2 processors, 3 names at 2 addresses, `MaxValue` 1, every payload, 4 headers |
| `xo` | the games are games of tic-tac-toe, with one winner at most | 1 processor, 2 signers, the full board, 2 names at 1 address |
| `workload` | each key is followed in one place and incremented in order, the two collections agree, an accepted batch is not mislaid (`NoneDropped`) and checked to its end | 2 tasks, 2 validators, 2 keys, `MaxValue` 1 |
| `batch_files` | updates meet the keys of their own file, refusals have their cause, each batch is posted once, an accepted file is settled | 2 programs, 2 words, 2 keys, 3 batches of one update at most, chunks of 2, 2 threads |
| `commands` | what a command reports is so, it waits as long as it should, it ends | waits of -1 to 3 seconds of 3 ticks, submissions of up to 4 ticks |
| `mock` | a test is judged by its own messages only; it does not hang (`NeverHangs`), and ends, if none before it in its class has failed | 3 classes of 2 tests, 3 scripts, 5 handlings |

Why the bounds are enough. A Stream forgets everything of a connection but its
futures and callbacks, so that two connections show what a disconnect leaves to
the next one; what a second disconnect during a registration could do is in the
proofs, which have any number of them. Two futures show one that is failed while another one is added or
answered. `MaxQueued` bounds how many of its calls a client leaves behind
before it waits: one is enough for a call that is handed over before a
disconnect and executed after it. In `zd_driver` the queue bound (9) and the bound on closes (3, one of
each thread) are never reached; after the first connection, any three of
a second one, the messages, the service call and the stop from outside meet each
other in every order. In `intkey`, 0 and 1 are both a bound and next to one, two names
collide while the third is worked on at the same time, and each payload meets
each header. In `xo` the second game is created and deleted and not played, and
`MCBound` leaves out moves that a rotation or reflection maps to others, and
long games of a signer with himself. One processor suffices there because the
schedule is that of `intkey`, which has two. In `workload` two tasks are enough
for each pair of steps to interleave, a second validator is there when one was
removed, and a key is set, incremented once and done. In `batch_files` a file
has a chunk that is full and one that is not, in different threads, and a second
program that uses the same words with and without setting them. In `commands`
clients do not interact, so there is one; its ticks make a time fall on and
between whole seconds. In `mock` a test can fail, or a class, before one that
goes on, and there is one more class to go on with.

Futures are interchangeable (the code draws random correlation ids), and so are
the two processors of `intkey` and the two signers of `xo`; the symmetry sets
are used in runs without liveness only. Deadlock is not checked in the runs of
`Stream` and what extends it, for a thread that has ended and clients that call
nothing do stop, nor in `workload`, which an interrupt ends, `batch_files` and `mock`, which
come to an end, and `commands`; it is checked in `intkey` and `xo`.

Each property has a mutant beside the definition it changes ("Mutant of ..."):
a slip that code could have, under which the run finds the property violated.
The type invariants, and the inductive invariants of all proof modules but
`XoInv`, were checked by TLC before they were proved, and are not part of a run
any more; nor are `AnswerFinal`, `MetBeforeDropped` and `NoneStuck`. `XoInv`
includes `NeverInternal`.

## 5. Fairness

* `LoopFairness`: the background thread is scheduled by the operating system,
  runs the callbacks and tasks that are ready (asyncio runs them in the order
  they became so), reconnects when it may, and the validator answers what it
  holds. Weak fairness is enough: a step of the loop that is ready stays so
  until taken or until the connection breaks.
* `ClientFairness`: a thread inside `send` goes on with it, and a thread that
  waits for a future wakes when it is resolved. No client has to begin a call,
  no timeout has to pass, no connection has to break.
* `TPFairSpec` and `ZDFairSpec` have weak fairness of the threads of `start`
  and of the driver, which never wait for anything but a future, a queue or an
  event. `ZDFairSpec` has it only from the stop on, of the three threads and of the
  background thread where it is between two connections or about to end: no
  message has to come and nobody has to call `stop`. Engines are not part of the
  repository: that `Engine.start` returns once `Engine.stop` was called is assumed,
  as `ZmqDriver.start` relies on it to end.
* `WorkloadFairness`: the loop ticks until it is stopped, the pool runs its
  tasks, an HTTP request is answered or fails, and the validators decide on
  what they accepted.

* `FilesFairSpec`: `load` runs to its end, a request to the REST API is answered
  or fails, and the validator settles what it can settle. A file need not be
  made.
* `CommandsFairSpec`: a request ends and time passes; the validator may leave a
  batch pending for ever.
* `MockFairSpec`: unittest and the processor go on where they are not blocked;
  weak fairness of each as a whole is enough, since each has one thing to do at
  a time, but for the processor's connecting, which nothing can put off for ever.

The safety properties and refinements assume no fairness.

## 6. The proofs

Each proof module EXTENDS the module it is about. Only the assumptions on the
constants in those modules are used.

* `StreamProofs`. `IInv` is inductive. `TypeOK` and the
  safety properties are not by themselves: that no stray answer arrives needs
  that a request under way is in exactly one place (`SendInv`, `PlaceInv`) and
  that its future is in the collection from its registration on (`FutureInv`);
  that the stream is ready only if connected needs what each state of the
  thread says of its variables (`LoopInv`). From it follow the safety
  properties, that an answer is final, and, step by step, that Stream
  implements RequestReply. `NeverForgotten` is proved per step from it: a request
  leaves a place only for the next one, or for the sweep (`SweepInv`: what the
  sweep is through with has a result, so that its end forgets nothing).
  `CallsKept` is a part of `IInv`: callbacks outlive the connection they were
  made for, so a close or a receive that falls between two connections is not
  lost.
* `TransactionProcessorProofs`. Every action of the main thread is built from an
  action of Stream or leaves it alone; the lemma that says so (`UsesStream`) says
  nothing of core.py, and is there to carry the theorems about Stream over
  (`RequestsKeepPromise`). `TPInv` with `IInv` is inductive: the
  RECONNECT_EVENT is first in its queue, the queue holds items of this
  connection only, one receive is outstanding at most, and the registration of
  the current connection is done, under way or announced by the item first in
  the queue (`NoneMissed`). `RegisteredFirst` follows. `AppliedInv` adds how often
  each request was applied: what waits in the queue never was, and comes once
  (`FreshInv`), and what is received was not either, unless an interrupt came
  upon it (`ItemInv`): the loop after an interrupt begins with the receive that
  was last, so that one request may be applied again, but only one, for until
  then there was none (`NoneTwice`). `AppliesOnce` follows.
* `ZmqDriverProofs`. The lemma `DriverUsesStream` is as `UsesStream`. `ThreadsInv`:
  the driver thread exists from the start of the engine on and has ended when
  `start` returns. `NothingAfterReturn` follows: what is left is a third thread
  inside its own call of `stop` (`EngineAlone`), which makes no other call of the
  stream (`StopperInv`). `ZDInv` is the invariant behind the
  others. The receive queue is in order and of one connection, behind its marker
  (`QueueInv`); the driver thread asks for the next receive before it looks at
  the message at hand, so it may hold both, and one more on the engine's queue
  (`Seen`). These are in order (`OrderInv`) because, as long as the thread is
  `Unaware` of a lost connection, either they are of the present one or the marker
  is ahead of all that may still come (`MarkerAhead`), and the marker ends the
  thread. `UpdatesInOrder` is part of `OrderInv`. `ServesInv` says where a cancelled
  receive or a marker can come from, which leaves the loss of a connection, or a
  notification that does not decode, as the only ends of a thread nobody stopped
  (`DriverServes`). `NoneLost` follows a
  notification from the receive queue to the engine's, step by step: the main
  thread receives no more once the driver thread is there, and the driver thread
  overwrites a message only when it is done with it.
* `IntkeyProofs`. `IntkeyInv`: transactions under way do not conflict, and what
  a handler has read or is about to commit is right for the entries as they
  are. It is needed because the refusal and the update are computed from a copy
  read earlier. A commit changes one address; by the schedule nobody else that
  may read it is busy. `CommitCounts` shows a commit to be the step of Counters
  that its verb names, for any function from names to addresses, and
  `OthersStutter` that no other step changes a counter.
* `XoProofs`. `XoInv`: every dict read, computed or stored holds well-formed
  games whose state, players and board agree. `OneWinner` is the argument of
  `NeverInternal`: a move marks one square with the mover's letter, and a line
  of the other letter would have been on the board before. `RulesInv` adds the
  schedule (`NoConflicts`, as for intkey), that what a handler holds is right for
  the entries as they are (`GamesCurrent`), and that the marks say whose turn it
  is (`TurnFits`): there are as many of the one as of the other, or one more, and
  the second player is missing only after the first move. From it follows that
  a commit is a step of TicTacToe (`CommitPlays`), which has no `state` to go by.
* `WorkloadProofs`. `WorkloadInv`: what is queued, held or about to be posted is
  the last batch of its name, and nobody else has that name in hand
  (`Acceptance`, from which the order of increments follows); and the dict of
  the workload has the right value for each batch it has (`KeysRight`), also
  when its validator was removed before the batch was entered. `NoneDropped` is
  inductive with it and with `MetBeforeDropped`: a task lets go of a batch only
  when it has met its end, puts it back, or hands it to the queue; and the batch
  that the validators have just accepted is of a name no other task has
  (`Acceptance`), so that what the others are about to tell of stays what it is.
* `ClientProofs`, of `BatchFiles`. `FilesInv`: in a file of create_batch the first
  batch sets each key once and every other names it as its dependency (`CreatedInv`); what
  was handed out is cut into chunks without a gap or an overlap (`ChunkInv`);
  only what was posted is accepted (`AcceptedInv`), and a key set by such a
  program was set by its first batch (`SetterInv`). `UpdatesOwnKeys` and
  `RefusedForCause` are part of it, since each step of the validator needs what
  the earlier ones left. The proof does not use the number of threads or the
  order in which they take chunks. `NoneStuck` follows: no batch of such a file
  depends on anything but its first, which depends on nothing.
* `ClientProofs`, of `Commands`. `CommandsInv`: at each point of the loop, when the last
  request was made, how long it may take, and that some of the wait is left
  (`WaitInv`). `NeverOverstays` is then arithmetic: the request asks for the wait
  less whole seconds gone, which is at least one and at most one second too many.

* `MockValidatorProofs`. `MockInv`: whatever earlier classes and tests have left
  of their messages is ahead of the registration in the socket, and a
  registration comes alone (`RegisterInv`); between two tests that passed
  nothing is under way (`QuietInv`); and in a test the one transaction is with
  the processor, in its handler, or in the message that is next (`ExpectInv`).
  `OwnVerdict` is a part of it. `NeverHangs` follows: a test that waits for a
  message has one coming.

The proofs of types (`TypeCorrect`, `TPTyped`, `DriverTypeCorrect`, `IntkeyTyped`,
`WorkloadTyped`, `FilesTyped`, `CommandsTyped`, `MockTyped`) are parts of the
invariants' proofs.

Model-checked only: the liveness properties, since temporal proofs with fairness
are out of reach of the prover here. What a liveness property needs of each
state and step, and no scheduling can make up for, is proved where it says more
than a guard:

| liveness (TLC) | its safety half (proved) |
| --- | --- |
| `HandedOverResolves` | `NeverForgotten` |
| `ReceiveReleased`, `CloseTerminates` | `CallsKept` |
| `Reregisters` | `NoneMissed` |
| `Followed` | `NoneDropped` |
| `FileSettles` | `NoneStuck` |
| `CommandEnds` | `NeverOverstays` |
| `TestEnds` | `NeverHangs` |

`PutMessageReturns`, `DrainEnds` and `StopEndsStart` have none: that a thread is
not blocked for ever is there a matter of what the others will do. The two runs
that end in a violation are TLC's alone.

## 7. What the code does otherwise than it says

Two runs end in a violation; `PROJECT.json` has the quotations.

* `stream_send_dropped`: `send` reads the ready event twice (stream.py:294 and
  160). If the connection is lost in between, and the sweep over before the future
  is in the collection, the message is dropped without an error and nothing
  resolves its future. No client of the run can be interrupted: the trace is the
  look at the event, the loss and the sweep, the registration of the future, and a
  `put_message` that returns.
* `stream_wedged`: a client that registers a future during the sweep ends the
  monitor's coroutine with a RuntimeError; the loop runs on, the stream is
  never ready again.

Two more follow from one step of the model each, and have no run of their own:

* A disconnect between `wait_for_ready` and `send` of a registration (core.py:255
  and 256), or before the `send_back` of a PingResponse (245), raises
  ValidatorConnectionError out of `start`, which has no clause for it
  (`RegisterRefused`, `PongRefused`), although exceptions.py:17-18 calls it
  "internal to the sdk".
* A disconnect ends the driver thread of a consensus engine (`DriverRaises`), and
  the engine runs on without the notifications engine.py:34-35 promises it. So
  does a notification that does not decode (`ProcessMalformed`): DecodeError is no
  ReceiveError, and reaches the clause at zmq_driver.py:98, outside the loop.
  `DriverServes` states that nothing else does.

Three hangs are in the code and are excepted by name where a property would meet
them:

* A `put_message` that waits for queues when the stream is closed between two
  connections, or its reconnect fails, waits for ever (stream.py:163-167): the ack
  of the driver thread, which `start` then joins, or a call of the service, in
  which the engine then stays (`StuckInPut`; in Stream, `PutMessageReturns`).
* A `stop` before the engine is started leaves `start` where it is: neither
  `wait_for_ready` nor the loop of `_wait_until_active` (149-153) looks at `_exit`.
  `StopEndsStart` begins when both threads are there.
* After a test that failed in the middle of a transaction the processor waits for an
  answer to a request nobody reads; the next test's `expect` waits for its message,
  and has no timeout. `NeverHangs` and `TestEnds` are about a test before which
  none of its class has failed (`Clean`).

Met while modelling as well: the ZeroMQ context is left
undestroyed when a close falls between two connections (stream.py:198-204,
251); an interrupt before the first `receive` makes the draining loop spin
(core.py:316-321), and the timeout of a handler's request leaves `start`
without unregistering, as does a request or an answer that does not decode
(core.py:151, 264, 291; `NotDecoded`); a deactivation is acknowledged only after
the stream is closed (zmq_driver.py:239, 249), and notifications before the activation are
not acknowledged (180). Of the examples: a payload of intkey without
one of its keys raises KeyError, which neither the handler (intkey's
handler.py:91-102 catches AttributeError) nor `_process` catches, so that `Die`
ends the program; a key of the workload that reaches 1000000 is followed by no
new one (`KeyDone`), since the else of intkey_workload.py:168 belongs to the
wrong `if`, against the comment at 80-82, and asks None for
its name when the batch of a removed validator is told of, which ends the task in
an AttributeError (169, `KeyGone`); and a task to whose request nobody
answers ends in a TypeError (`PostUnanswered`), with the pending batch that it
was to put back. `expect_one` of the mock validator does not raise the
UnexpectedMessageException its docstring names (mock_validator.py:244-245): that
exception asks `to_message_type` of the list of expected contents, which raises
UnknownMessageTypeException (`ExpectFails` stands for both). `list` of both
clients returns None for an answer it cannot read, over which `do_list` iterates
(intkey_cli.py:303-304, xo_cli.py:351-356).

## 8. What is not modelled

* The workload of the noop family, which is that of intkey without increments: it
  imports `sawtooth_sdk.workload`, which the repository does not have.
* `show` and `list` of the clients: a GET request that changes nothing. The
  parsers of the command lines, but for what `--wait` gives.
* The samples the workload generator displays, and its count of outstanding
  requests, which nothing reads.
* `add_receipt_data` and `add_event` of the Context in the families: neither
  handler calls them. In `TransactionProcessor` they are state requests like
  the others.
* Which handler a request goes to, and the header styles: a lookup in a list
  that is fixed before `start`.
* What each service operation raises for which status: a table.
* Signing, protobuf, cbor and the hashes: libraries, or stateless wrappers of
  them. Two names at one address stand for a hash collision.
* Command lines, configuration, logging, display, packaging, docs.

## 9. Running the tools

    tlc -workers 2 -config StreamSafety.cfg MCStream.tla
    tlapm StreamProofs.tla

`PROJECT.json` names the module, the configuration and the expected outcome of
each run. The longest ones take about two minutes, the proofs about as long.
